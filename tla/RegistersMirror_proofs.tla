----------------------- MODULE RegistersMirror_proofs -----------------------
(***************************************************************************)
(* What the indexes above a worker say of its rows when its requests do    *)
(* not overlap: what is folded and what is still on its way add up to the  *)
(* rows, whatever the site does; and, as long as it only logs guests in,   *)
(* the people placed, on board and in memory are the same and no work is   *)
(* lost.                                                                   *)
(***************************************************************************)
EXTENDS Registers_proofs

(* The indexes, and what each event makes of them.                         *)

Indexes ==
    [cum : [Connections -> Identities \cup {Nobody}], pcm : [Pages -> Connections \cup {Nobody}],
     users : SUBSET Identities, placed : SUBSET Identities, hosted : SUBSET Identities]
Index(cum, pcm, users, placed, hosted) ==
    [cum |-> cum, pcm |-> pcm, users |-> users, placed |-> placed, hosted |-> hosted]
Now == Index(connection_user_map, page_connection_map, user_map, user_worker_map, hosted_users)

Leading(x, cid, user) == [c \in Connections |-> IF c = cid THEN user ELSE x.cum[c]]
Without(x, cids, pages) ==
    [page \in Pages |-> IF page \in pages \/ x.pcm[page] \in cids THEN Nobody ELSE x.pcm[page]]
Of(x, user) == {cid \in Connections : x.cum[cid] = user}

Boards(x, user) == Index(x.cum, x.pcm, x.users, x.placed, x.hosted \cup {user})
Connects(x, cid, user) ==
    Index(Leading(x, cid, user), x.pcm, x.users \cup {user}, x.placed \cup {user}, x.hosted)
Opens(x, cid, pages) ==
    Index(x.cum, [page \in Pages |-> IF page \in pages THEN cid ELSE x.pcm[page]],
          x.users, x.placed, x.hosted)
Drops(x, cids, pages) == Index(x.cum, Without(x, cids, pages), x.users, x.placed, x.hosted)
Leaves(x, user) ==
    Index([cid \in Connections |-> IF x.cum[cid] = user THEN Nobody ELSE x.cum[cid]],
          Without(x, Of(x, user), {}), x.users \ {user}, x.placed \ {user}, x.hosted \ {user})
LogsIn(x, cid, user, previous) ==
    LET left == {previous} \cap Connections
    IN  Index(Leading(x, cid, user), x.pcm, (x.users \cup {user}) \ left, x.placed \ left,
              (x.hosted \ left) \cup {user})
Releases(x, user) == Index(x.cum, x.pcm, x.users, x.placed, x.hosted \ {user})

Tells(x, e, y) ==
    \/ e.op = "new_user" /\ y = Boards(x, e.user)
    \/ e.op = "new_connection" /\ \E cid \in Connections : e.cids = {cid} /\ y = Connects(x, cid, e.user)
    \/ e.op = "new_page" /\ \E cid \in Connections : e.cids = {cid} /\ y = Opens(x, cid, e.pages)
    \/ e.op \in {"drop_pages", "drop_connections"} /\ y = Drops(x, e.cids, e.pages)
    \/ e.op = "drop_user" /\ y = Leaves(x, e.user)
    \/ /\ e.op = "connection_user_changed"
       /\ \E cid \in Connections : e.cids = {cid} /\ y = LogsIn(x, cid, e.user, e.previous)
    \/ e.op = "user_rows_released" /\ y = Releases(x, e.user)

\* The events lead the indexes from x to y, one at a time.
Leads(x, events, y) ==
    \E course \in [0 .. Len(events) -> Indexes] :
        /\ course[0] = x /\ course[Len(events)] = y
        /\ \A i \in 1 .. Len(events) : Tells(course[i - 1], events[i], course[i])
-----------------------------------------------------------------------------
(* One request at a time.                                                  *)

Alone ==
    /\ \A r, s \in Requests : UnderWay(r) /\ UnderWay(s) => r = s
    /\ inbox # <<>> => \A r \in Requests : ~UnderWay(r)
    /\ \A r \in Requests :
         /\ rq[r].at \in {"new", "done", "sent", "knocking", "reading"} => rq[r].slot = <<>>
         /\ rq[r].at \in {"knocking", "reading"} => ~Held(rq[r].cid)
    /\ Len(lane) <= 1
    /\ \A i \in DOMAIN lane : rq[lane[i]].at = "replied"

\* The indexes a fold of everything said would leave are the rows.
Agrees(y) ==
    /\ y.pcm = connectionOf
    /\ \A cid \in Connections : Held(cid) => y.cum[cid] = ownerOf[cid]
    /\ userRows \subseteq y.users \cap y.hosted
-----------------------------------------------------------------------------
(* Nothing but logins.                                                     *)

Plain == met = {} /\ Happens \cap {"switch", "again"} = {}

Rooted == \A user \in userRows : connectionsOf[user] # {}
Bare == \A user \in Identities \ userRows : storeOf[user] = {}

\* A request keeps the cookie it came with until its service begins.
Fresh(r) ==
    rq[r].at \in {"sent", "knocking", "reading"} =>
        rq[r].previous = Nobody /\ rq[r].identity = connection_user_map[rq[r].cid]
Bears(r) ==
    rq[r].parcel # Nobody => rq[r].at \in {"reading", "writing"} /\ rq[r].parcel.carried
\* Who has logged in is a person, and nothing the request has said takes him away.
Person(r) ==
    UnderWay(r) /\ rq[r].previous # Nobody /\ Held(rq[r].cid) =>
        /\ rq[r].previous \in Connections
        /\ ownerOf[rq[r].cid] \in Persons /\ ~Dropped(r, ownerOf[rq[r].cid])
Parting(r) ==
    /\ rq[r].at = "claimed" => Held(rq[r].cid) /\ rq[r].heir = ownerOf[rq[r].cid]
    /\ rq[r].at = "writing" =>
         /\ Held(rq[r].cid) /\ rq[r].parcel.user = ownerOf[rq[r].cid]
         /\ rq[r].parcel.store = storeOf[ownerOf[rq[r].cid]]
Simple ==
    /\ Rooted /\ Bare /\ \A parcel \in deposit : parcel.carried
    /\ \A r \in Requests : Fresh(r) /\ Bears(r) /\ Person(r) /\ Parting(r)

\* Whom a login brought into being is nowhere until its tail lets him go.
Newcomer(user) ==
    \E r \in Requests :
        /\ rq[r].at \in {"serving", "tail", "claimed", "writing"} /\ rq[r].previous # Nobody
        /\ ownerOf[rq[r].cid] = user /\ connectionsOf[user] = {rq[r].cid}
\* The parcels no drop on its way deletes.
Ends(user, events) ==
    \E i \in DOMAIN events : events[i].op = "drop_user" /\ events[i].user = user
Lasting(events) == {parcel \in deposit : ~Ends(parcel.user, events)}
Lodged(y, events) ==
    \A parcel \in Lasting(events) :
        /\ ~Held(parcel.cid) /\ y.cum[parcel.cid] = parcel.user
        /\ \A other \in Lasting(events) : other.cid = parcel.cid => other = parcel
        /\ \A r \in Requests : rq[r].at \in {"reading", "serving"} => parcel.cid # rq[r].cid
Kept(user, work, events) ==
    \/ work \in storeOf[user]
    \/ \E parcel \in Lasting(events) : parcel.user = user /\ work \in parcel.store
    \/ \E r \in Requests : /\ rq[r].parcel # Nobody /\ rq[r].parcel.user = user
                           /\ work \in rq[r].parcel.store
Owed(events) == \A user \in Identities : \A work \in carries[user] : Kept(user, work, events)
Settled(y, events) ==
    /\ \A user \in userRows : user \in y.placed \/ Newcomer(user)
    /\ y.hosted \subseteq userRows
    /\ Lodged(y, events) /\ Owed(events)

Follows(events) ==
    \E y \in Indexes :
        /\ Leads(Now, events, y) /\ Agrees(y)
        /\ Plain => Settled(y, events)

\* What has been said and not yet been folded.
Unsaid(events) ==
    \/ \E r \in Requests : UnderWay(r) /\ rq[r].slot = events
    \/ (\A r \in Requests : ~UnderWay(r)) /\ inbox = events

MInv ==
    "overlap" \notin met =>
        /\ Alone
        /\ \A events \in Seq(Events) : Unsaid(events) => Follows(events)
        /\ Plain => Simple
-----------------------------------------------------------------------------
(* Events one after the other.                                             *)

LEMMA LeadsNowhere == ASSUME NEW x \in Indexes PROVE Leads(x, <<>>, x)
<1> DEFINE course == [i \in 0 .. 0 |-> x]
<1>1. course \in [0 .. Len(<<>>) -> Indexes] /\ course[0] = x /\ course[Len(<<>>)] = x
  OBVIOUS
<1>2. \A i \in 1 .. Len(<<>>) : Tells(course[i - 1], <<>>[i], course[i])
  OBVIOUS
<1> QED
  BY <1>1, <1>2 DEF Leads

LEMMA LeadsOnce ==
    ASSUME NEW x \in Indexes, NEW y \in Indexes, NEW e, Tells(x, e, y) PROVE Leads(x, <<e>>, y)
<1> DEFINE course == [i \in 0 .. 1 |-> IF i = 0 THEN x ELSE y]
<1>1. /\ course \in [0 .. Len(<<e>>) -> Indexes]
      /\ course[0] = x /\ course[1] = y /\ course[Len(<<e>>)] = y
  OBVIOUS
<1>2. ASSUME NEW i \in 1 .. Len(<<e>>) PROVE Tells(course[i - 1], <<e>>[i], course[i])
  <2>1. i = 1 /\ i - 1 = 0 /\ <<e>>[i] = e
    OBVIOUS
  <2> QED
    BY <1>1, <2>1
<1> QED
  BY <1>1, <1>2 DEF Leads

LEMMA LeadsOn ==
    ASSUME NEW S, NEW E \in Seq(S), NEW F \in Seq(S), NEW x, NEW y, NEW z,
           Leads(x, E, y), Leads(y, F, z)
    PROVE  Leads(x, E \o F, z)
<1>1. PICK c \in [0 .. Len(E) -> Indexes] :
        /\ c[0] = x /\ c[Len(E)] = y
        /\ \A i \in 1 .. Len(E) : Tells(c[i - 1], E[i], c[i])
  BY DEF Leads
<1>2. PICK d \in [0 .. Len(F) -> Indexes] :
        /\ d[0] = y /\ d[Len(F)] = z
        /\ \A i \in 1 .. Len(F) : Tells(d[i - 1], F[i], d[i])
  BY DEF Leads
<1> DEFINE n == Len(E)
           m == Len(F)
           course == [i \in 0 .. n + m |-> IF i <= n THEN c[i] ELSE d[i - n]]
<1>3. n \in Nat /\ m \in Nat /\ Len(E \o F) = n + m
  OBVIOUS
<1>4. course \in [0 .. n + m -> Indexes]
  <2>1. ASSUME NEW i \in 0 .. n + m PROVE course[i] \in Indexes
    <3>1. i <= n => i \in 0 .. Len(E)
      BY <1>3
    <3>2. ~(i <= n) => i - n \in 0 .. Len(F)
      BY <1>3
    <3> QED
      BY <1>1, <1>2, <3>1, <3>2
  <2> QED
    BY <2>1
<1>5. course[0] = x
  BY <1>1, <1>3
<1>6. course[n + m] = z
  <2>1. CASE m = 0
    BY <1>1, <1>2, <1>3, <2>1
  <2>2. CASE m # 0
    BY <1>2, <1>3, <2>2
  <2> QED
    BY <2>1, <2>2
<1>7. ASSUME NEW i \in 1 .. n + m PROVE Tells(course[i - 1], (E \o F)[i], course[i])
  <2>1. CASE i <= n
    <3>1. course[i - 1] = c[i - 1] /\ course[i] = c[i] /\ (E \o F)[i] = E[i]
      BY <1>3, <2>1
    <3> QED
      BY <1>1, <1>3, <2>1, <3>1
  <2>2. CASE i > n
    <3>1. course[i] = d[i - n] /\ (E \o F)[i] = F[i - n] /\ i - n \in 1 .. m
      BY <1>3, <2>2
    <3>2. course[i - 1] = d[(i - n) - 1]
      <4>1. CASE i - 1 = n
        BY <1>1, <1>2, <1>3, <2>2, <4>1
      <4>2. CASE i - 1 # n
        <5>1. /\ i - 1 \in 0 .. n + m /\ ~(i - 1 <= n)
              /\ (i - 1) - n = (i - n) - 1
          BY <1>3, <2>2, <4>2
        <5>2. course[i - 1] = d[(i - 1) - n]
          BY <5>1
        <5> QED
          BY <5>1, <5>2
      <4> QED
        BY <4>1, <4>2
    <3> QED
      BY <1>2, <3>1, <3>2
  <2> QED
    BY <2>1, <2>2, <1>3
<1> HIDE DEF course
<1> QED
  BY <1>3, <1>4, <1>5, <1>6, <1>7 DEF Leads

LEMMA LeadsOff ==
    ASSUME NEW S, NEW E \in Seq(S), E # <<>>, NEW x, NEW y, Leads(x, E, y)
    PROVE  \E w \in Indexes : Tells(x, Head(E), w) /\ Leads(w, Tail(E), y)
<1>1. PICK c \in [0 .. Len(E) -> Indexes] :
        /\ c[0] = x /\ c[Len(E)] = y
        /\ \A i \in 1 .. Len(E) : Tells(c[i - 1], E[i], c[i])
  BY DEF Leads
<1>2. Len(E) \in Nat /\ Len(E) >= 1 /\ Head(E) = E[1] /\ Len(Tail(E)) = Len(E) - 1
  OBVIOUS
<1> DEFINE course == [i \in 0 .. Len(E) - 1 |-> c[i + 1]]
<1>3. /\ course \in [0 .. Len(E) - 1 -> Indexes] /\ course[0] = c[1]
      /\ course[Len(E) - 1] = y /\ c[1] \in Indexes
  BY <1>1, <1>2
<1>4. ASSUME NEW i \in 1 .. Len(E) - 1 PROVE Tells(course[i - 1], Tail(E)[i], course[i])
  <2>1. course[i - 1] = c[(i + 1) - 1] /\ course[i] = c[i + 1] /\ Tail(E)[i] = E[i + 1]
    BY <1>2
  <2>2. i + 1 \in 1 .. Len(E)
    BY <1>2
  <2> QED
    BY <1>1, <2>1, <2>2
<1>5. Tells(x, Head(E), c[1])
  <2>1. Tells(c[1 - 1], E[1], c[1])
    BY <1>1, <1>2
  <2> QED
    BY <1>1, <1>2, <2>1
<1> HIDE DEF course
<1>6. Leads(c[1], Tail(E), y)
  BY <1>2, <1>3, <1>4 DEF Leads
<1> QED
  BY <1>3, <1>5, <1>6

LEMMA LeadsBack == ASSUME NEW x, NEW y, Leads(x, <<>>, y) PROVE x = y
BY DEF Leads

-----------------------------------------------------------------------------
(* What the events make of the indexes.                                    *)

LEMMA NowIsTyped == ASSUME IInv PROVE Now \in Indexes
BY DEF IInv, IndexesTyped, Now, Index, Indexes

LEMMA BoardsTyped ==
    ASSUME NEW x \in Indexes, NEW user \in Identities PROVE Boards(x, user) \in Indexes
BY DEF Indexes, Index, Boards

LEMMA ConnectsTyped ==
    ASSUME NEW x \in Indexes, NEW cid \in Connections, NEW user \in Identities
    PROVE  Connects(x, cid, user) \in Indexes
BY DEF Indexes, Index, Connects, Leading

LEMMA OpensTyped ==
    ASSUME NEW x \in Indexes, NEW cid \in Connections, NEW pages \in SUBSET Pages
    PROVE  Opens(x, cid, pages) \in Indexes
BY DEF Indexes, Index, Opens

LEMMA DropsTyped ==
    ASSUME NEW x \in Indexes, NEW cids, NEW pages PROVE Drops(x, cids, pages) \in Indexes
BY DEF Indexes, Index, Drops, Without

LEMMA LeavesTyped == ASSUME NEW x \in Indexes, NEW user PROVE Leaves(x, user) \in Indexes
BY DEF Indexes, Index, Leaves, Without

LEMMA LogsInTyped ==
    ASSUME NEW x \in Indexes, NEW cid \in Connections, NEW user \in Identities, NEW previous
    PROVE  LogsIn(x, cid, user, previous) \in Indexes
BY DEF Indexes, Index, LogsIn, Leading

LEMMA ReleasesTyped == ASSUME NEW x \in Indexes, NEW user PROVE Releases(x, user) \in Indexes
BY DEF Indexes, Index, Releases

\* Events go one by one through the handler, the group and the vertex.
LEMMA FoldTells ==
    ASSUME IInv, Fold, ~Arrive, NEW y, Tells(Now, Head(inbox), y)
    PROVE  Now' = y /\ inbox # <<>> /\ Folded
<1>1. CASE OnNewUser
  BY <1>1 DEF OnNewUser, Folding, Tells, Now, Boards, Index
<1>2. CASE OnNewConnection
  <2>1. PICK cid \in Connections :
          Head(inbox).cids = {cid} /\ y = Connects(Now, cid, Head(inbox).user)
    BY <1>2, Zenon DEF OnNewConnection, Folding, Tells
  <2> QED
    BY <1>2, <2>1 DEF OnNewConnection, Folding, Now, Connects, Index, Leading
<1>3. CASE OnNewPage
  <2>1. PICK cid \in Connections :
          Head(inbox).cids = {cid} /\ y = Opens(Now, cid, Head(inbox).pages)
    BY <1>3, Zenon DEF OnNewPage, Folding, Tells
  <2> QED
    BY <1>3, <2>1 DEF OnNewPage, Folding, Now, Opens, Index
<1>4. CASE OnDrop
  BY <1>4 DEF OnDrop, Folding, Tells, Now, Drops, Without, Index, PagesForgotten
<1>5. CASE OnDropUser
  BY <1>5 DEF OnDropUser, Folding, Tells, Now, Leaves, Without, Of, Index, PagesForgotten
<1>6. CASE OnConnectionUserChanged
  <2>1. PICK cid \in Connections :
          /\ Head(inbox).cids = {cid}
          /\ y = LogsIn(Now, cid, Head(inbox).user, Head(inbox).previous)
    BY <1>6, Zenon DEF OnConnectionUserChanged, Folding, Tells
  <2> QED
    BY <1>6, <2>1 DEF OnConnectionUserChanged, Folding, Now, LogsIn, Leading, Index
<1>7. CASE OnUserRowsReleased
  BY <1>7 DEF OnUserRowsReleased, Folding, Tells, Now, Releases, Index
<1> QED
  BY <1>1, <1>2, <1>3, <1>4, <1>5, <1>6, <1>7 DEF Fold

LEMMA DropsNothing == ASSUME NEW x \in Indexes PROVE Drops(x, {}, {}) = x
<1>1. Without(x, {}, {}) = x.pcm
  BY DEF Without, Indexes
<1>2. x = [cum |-> x.cum, pcm |-> x.pcm, users |-> x.users, placed |-> x.placed,
           hosted |-> x.hosted]
  BY DEF Indexes
<1> QED
  BY <1>1, <1>2 DEF Drops, Index

LEMMA IndexIsItsParts ==
    ASSUME NEW x \in Indexes, NEW y \in Indexes, x.cum = y.cum, x.pcm = y.pcm,
           x.users = y.users, x.placed = y.placed, x.hosted = y.hosted
    PROVE  x = y
BY DEF Indexes

LEMMA EventIsTyped ==
    ASSUME NEW op \in Verbs, NEW user \in Identities, NEW cids \in SUBSET Connections,
           NEW pages \in SUBSET Pages, NEW previous \in Identities \cup {Nobody},
           \A cid \in cids : user \in OwnersOf(cid)
    PROVE  Event(op, user, cids, pages, previous) \in Events
BY DEF Event, Events

\* A connection comes in, its user with it.
Arrived(x, cid, user) ==
    Index(Leading(x, cid, user), x.pcm, x.users \cup {user}, x.placed \cup {user},
          x.hosted \cup {user})

LEMMA ArrivalTold ==
    ASSUME NEW y \in Indexes, Agrees(y), NEW cid \in Connections, NEW user \in OwnersOf(cid),
           user \in Identities
    PROVE  /\ Arrived(y, cid, user) \in Indexes
           /\ Leads(y, Arrival(cid, user), Arrived(y, cid, user))
           /\ Arrival(cid, user) \in Seq(Events)
<1> DEFINE first == Event("new_user", user, {}, {}, Nobody)
           second == Event("new_connection", user, {cid}, {}, Nobody)
           x == Boards(y, user)
           z == Arrived(y, cid, user)
<1>1. first \in Events /\ second \in Events
  BY EventIsTyped DEF Verbs
<1>2. x \in Indexes /\ z \in Indexes
  BY BoardsTyped DEF Arrived, Index, Indexes, Leading
<1>3. CASE user \in userRows
  <2>1. z = Connects(y, cid, user)
    <3>1. y.hosted \cup {user} = y.hosted
      BY <1>3 DEF Agrees
    <3> QED
      BY <3>1 DEF Arrived, Connects
  <2>2. Tells(y, second, z)
    BY <2>1 DEF Tells, Event
  <2>3. Arrival(cid, user) = <<second>>
    BY <1>1, <1>3 DEF Arrival
  <2> QED
    BY <1>1, <1>2, <2>2, <2>3, LeadsOnce
<1>4. CASE user \notin userRows
  <2>1. Tells(y, first, x)
    BY DEF Tells, Event
  <2>2. z = Connects(x, cid, user)
    BY DEF Arrived, Connects, Boards, Index, Leading
  <2>3. Tells(x, second, z)
    BY <2>2 DEF Tells, Event
  <2>4. Arrival(cid, user) = <<first>> \o <<second>>
    BY <1>4 DEF Arrival
  <2>5. Leads(y, <<first>>, x) /\ Leads(x, <<second>>, z)
    BY <1>2, <2>1, <2>3, LeadsOnce
  <2>6. <<first>> \in Seq(Events) /\ <<second>> \in Seq(Events)
    BY <1>1
  <2> HIDE DEF first, second, x, z
  <2>7. Leads(y, <<first>> \o <<second>>, z)
    BY <2>5, <2>6, LeadsOn
  <2> QED
    BY <1>2, <2>4, <2>6, <2>7, SeqJoins DEF z
<1> QED
  BY <1>3, <1>4

LEMMA PagesTold ==
    ASSUME NEW y \in Indexes, NEW cid \in Connections, NEW user \in OwnersOf(cid),
           user \in Identities, NEW pages \in SUBSET Pages
    PROVE  /\ Opens(y, cid, pages) \in Indexes
           /\ Leads(y, <<Event("new_page", user, {cid}, pages, Nobody)>>, Opens(y, cid, pages))
           /\ <<Event("new_page", user, {cid}, pages, Nobody)>> \in Seq(Events)
<1>1. Event("new_page", user, {cid}, pages, Nobody) \in Events
  BY EventIsTyped DEF Verbs
<1>2. Tells(y, Event("new_page", user, {cid}, pages, Nobody), Opens(y, cid, pages))
  BY DEF Tells, Event
<1> QED
  BY <1>1, <1>2, OpensTyped, LeadsOnce

LEMMA GoneTold ==
    ASSUME NEW y \in Indexes, NEW user \in Identities, NEW pages \in SUBSET Pages
    PROVE  /\ Drops(y, {}, pages) \in Indexes
           /\ Leads(y, PagesGone(user, pages), Drops(y, {}, pages))
           /\ PagesGone(user, pages) \in Seq(Events)
<1>1. Event("drop_pages", user, {}, pages, Nobody) \in Events
  BY EventIsTyped DEF Verbs
<1>2. Tells(y, Event("drop_pages", user, {}, pages, Nobody), Drops(y, {}, pages))
  BY DEF Tells, Event
<1>3. CASE pages = {}
  BY <1>3, DropsTyped, DropsNothing, LeadsNowhere DEF PagesGone
<1>4. CASE pages # {}
  BY <1>1, <1>2, <1>4, DropsTyped, LeadsOnce DEF PagesGone
<1> QED
  BY <1>3, <1>4

\* Pages and users go, with the connections that lead to them.
Gone(x, pages, users) ==
    Index([cid \in Connections |-> IF x.cum[cid] \in users THEN Nobody ELSE x.cum[cid]],
          [page \in Pages |-> IF page \in pages THEN Nobody ELSE x.pcm[page]],
          x.users \ users, x.placed \ users, x.hosted \ users)
\* What a drop says: the pages, then the connections, then the user.
Drop(user, pages, cids, users) ==
    PagesGone(user, pages)
        \o (IF cids = {} THEN <<>> ELSE <<Event("drop_connections", user, cids, {}, Nobody)>>)
        \o (IF users = {} THEN <<>> ELSE <<Event("drop_user", user, {}, {}, Nobody)>>)

LEMMA DropTold ==
    ASSUME RegistersAssumption, IInv, NEW y \in Indexes, Agrees(y),
           NEW user \in Identities, NEW pages \in SUBSET Pages, NEW cids \in SUBSET Connections,
           \A cid \in cids : pagesOf[cid] \subseteq pages /\ user \in OwnersOf(cid),
           NEW users \in {{}, {user}}, \A other \in users : connectionsOf[other] \subseteq cids
    PROVE  /\ Gone(y, pages, users) \in Indexes
           /\ Leads(y, Drop(user, pages, cids, users), Gone(y, pages, users))
           /\ Drop(user, pages, cids, users) \in Seq(Events)
<1> DEFINE second == Event("drop_connections", user, cids, {}, Nobody)
           third == Event("drop_user", user, {}, {}, Nobody)
           a == Drops(y, {}, pages)
           z == Gone(y, pages, users)
           F == IF cids = {} THEN <<>> ELSE <<second>>
           G == IF users = {} THEN <<>> ELSE <<third>>
<1>1. second \in Events /\ third \in Events
  BY EventIsTyped DEF Verbs
<1>2. a \in Indexes /\ Leads(y, PagesGone(user, pages), a) /\ PagesGone(user, pages) \in Seq(Events)
  BY GoneTold
<1>3. z \in Indexes
  BY DEF Gone, Index, Indexes
<1>4. \A page \in Pages : page \notin pages => y.pcm[page] \notin cids
  BY DEF Agrees, IInv, Tree, EdgesAgree, RowsTyped
<1>5. \A page \in Pages : page \notin pages /\ y.pcm[page] \in Connections =>
        y.cum[y.pcm[page]] \notin users
  <2>1. SUFFICES ASSUME NEW page \in Pages, page \notin pages, y.pcm[page] \in Connections,
                        y.cum[y.pcm[page]] \in users
                 PROVE FALSE
    OBVIOUS
  <2>2. Held(y.pcm[page])
    BY <2>1 DEF Agrees, IInv, Tree, EdgesAgree, RowsTyped, Held
  <2>3. ownerOf[y.pcm[page]] = user /\ users = {user}
    BY <2>1, <2>2 DEF Agrees
  <2>4. y.pcm[page] \in connectionsOf[user]
    BY <2>1, <2>3 DEF IInv, Tree, EdgesAgree, RowsTyped
  <2> QED
    BY <1>4, <2>1, <2>3, <2>4
<1>6. a.pcm = [page \in Pages |-> IF page \in pages THEN Nobody ELSE y.pcm[page]]
      /\ a.cum = y.cum /\ a.users = y.users /\ a.placed = y.placed /\ a.hosted = y.hosted
  BY DEF Drops, Without, Index
<1>7. Drops(a, cids, {}) = a
  <2>1. Nobody \notin cids
    BY DEF RegistersAssumption
  <2>2. Without(a, cids, {}) = a.pcm
    BY <1>4, <1>6, <2>1 DEF Without
  <2>3. Without(a, {}, {}) = a.pcm
    BY <1>2 DEF Without, Indexes
  <2> QED
    BY <1>2, <2>2, <2>3, DropsNothing DEF Drops
<1>8. Leads(a, F, a) /\ F \in Seq(Events)
  <2>1. Tells(a, second, Drops(a, cids, {}))
    BY DEF Tells, Event
  <2>2. Leads(a, <<second>>, a)
    BY <1>2, <1>7, <2>1, LeadsOnce
  <2> QED
    BY <1>1, <1>2, <2>2, LeadsNowhere
<1>9. Leads(a, G, z) /\ G \in Seq(Events)
  <2>1. CASE users = {}
    <3>1. z.cum = a.cum /\ z.pcm = a.pcm /\ z.users = a.users /\ z.placed = a.placed
          /\ z.hosted = a.hosted
      BY <1>6, <2>1 DEF Gone, Index, Indexes
    <3>2. z = a
      BY <1>2, <1>3, <3>1, IndexIsItsParts
    <3> QED
      BY <1>2, <2>1, <3>2, LeadsNowhere
  <2>2. CASE users = {user}
    <3>1. Without(a, Of(a, user), {}) = [page \in Pages |-> a.pcm[page]]
      <4>1. ASSUME NEW page \in Pages PROVE a.pcm[page] \in Of(a, user) => a.pcm[page] = Nobody
        BY <1>5, <1>6, <2>2 DEF Of
      <4> QED
        BY <4>1 DEF Without
    <3>2. z.pcm = Without(a, Of(a, user), {})
      BY <1>6, <3>1 DEF Gone, Index
    <3>3. z = Leaves(a, user)
      BY <1>6, <2>2, <3>2 DEF Gone, Leaves, Index
    <3>4. Tells(a, third, z)
      BY <3>3 DEF Tells, Event
    <3> QED
      BY <1>1, <1>2, <1>3, <2>2, <3>4, LeadsOnce
  <2> QED
    BY <2>1, <2>2
<1> HIDE DEF second, third, a, z, F, G
<1>10. Leads(y, PagesGone(user, pages) \o F, a) /\ PagesGone(user, pages) \o F \in Seq(Events)
  BY <1>2, <1>8, LeadsOn, SeqJoins
<1>11. Leads(y, (PagesGone(user, pages) \o F) \o G, z)
       /\ (PagesGone(user, pages) \o F) \o G \in Seq(Events)
  BY <1>9, <1>10, LeadsOn, SeqJoins
<1>12. Drop(user, pages, cids, users) = (PagesGone(user, pages) \o F) \o G
  BY DEF Drop, F, G, second, third
<1> QED
  BY <1>3, <1>11, <1>12 DEF z

LEMMA LoginTold ==
    ASSUME NEW y \in Indexes, NEW cid \in Connections, NEW user \in OwnersOf(cid),
           user \in Identities, NEW previous \in Identities \cup {Nobody}
    PROVE  /\ LogsIn(y, cid, user, previous) \in Indexes
           /\ Leads(y, <<Event("connection_user_changed", user, {cid}, {}, previous)>>,
                    LogsIn(y, cid, user, previous))
           /\ <<Event("connection_user_changed", user, {cid}, {}, previous)>> \in Seq(Events)
<1>1. Event("connection_user_changed", user, {cid}, {}, previous) \in Events
  BY EventIsTyped DEF Verbs
<1>2. Tells(y, Event("connection_user_changed", user, {cid}, {}, previous),
            LogsIn(y, cid, user, previous))
  BY DEF Tells, Event
<1> QED
  BY <1>1, <1>2, LogsInTyped, LeadsOnce

LEMMA ReleaseTold ==
    ASSUME NEW y \in Indexes, NEW user \in Identities
    PROVE  /\ Releases(y, user) \in Indexes
           /\ Leads(y, <<Event("user_rows_released", user, {}, {}, Nobody)>>, Releases(y, user))
           /\ <<Event("user_rows_released", user, {}, {}, Nobody)>> \in Seq(Events)
<1>1. Event("user_rows_released", user, {}, {}, Nobody) \in Events
  BY EventIsTyped DEF Verbs
<1>2. Tells(y, Event("user_rows_released", user, {}, {}, Nobody), Releases(y, user))
  BY DEF Tells, Event
<1> QED
  BY <1>1, <1>2, ReleasesTyped, LeadsOnce

-----------------------------------------------------------------------------
(* A step of the only request under way.                                   *)

LEMMA SlotIsEvents ==
    ASSUME IInv, NEW r \in Requests
    PROVE  rq[r].slot \in Seq(Events) /\ rq[r] \in RequestType /\ Sound(rq[r])
<1>1. rq[r] \in RequestType /\ Sound(rq[r])
  BY RequestIsTyped DEF IInv
<1>2. rq[r].slot \in Seq(Announced) /\ Announced \subseteq Events
  BY <1>1 DEF RequestType, Announced
<1> QED
  BY <1>1, <1>2, SeqWidens

LEMMA InboxIsEvents == ASSUME IInv PROVE inbox \in Seq(Events)
<1>1. inbox \in Seq(Announced) /\ Announced \subseteq Events
  BY DEF IInv, Wire, Announced
<1> QED
  BY <1>1, SeqWidens

LEMMA OneFollows ==
    ASSUME IInv, MInv, "overlap" \notin met, NEW r \in Requests, UnderWay(r)
    PROVE  \E y \in Indexes : /\ Leads(Now, rq[r].slot, y) /\ Agrees(y)
                              /\ Plain => Settled(y, rq[r].slot)
BY SlotIsEvents DEF MInv, Unsaid, Follows

\* Only r is under way before and after.
Steps(r) ==
    /\ UnderWay(r) /\ rq'[r].at \notin {"new", "done"}
    /\ \A s \in Requests \ {r} : rq'[s] = rq[s]
    /\ inbox' = inbox

LEMMA OneLeads ==
    ASSUME Alone, NEW r \in Requests, Steps(r), Alone',
           NEW events, events = rq'[r].slot,
           NEW z \in Indexes, Leads(Now', events, z), Agrees(z)', Plain' => Settled(z, events)',
           Plain' => Simple'
    PROVE  MInv'
<1>1. UnderWay(r)'
  BY DEF Steps, UnderWay
<1>2. ASSUME NEW said \in Seq(Events), Unsaid(said)' PROVE said = events
  BY <1>1, <1>2 DEF Unsaid, Alone
<1>3. Follows(events)'
  BY DEF Follows
<1> QED
  BY <1>2, <1>3 DEF MInv

LEMMA AloneMoves ==
    ASSUME Alone, NEW r \in Requests, Steps(r), lane' = lane, rq[r].at # "replied",
           rq'[r].at \in {"sent", "knocking", "reading"} => rq'[r].slot = <<>>,
           rq'[r].at \in {"knocking", "reading"} => ~Held(rq[r].cid)' /\ rq'[r].cid = rq[r].cid,
           lane \in Seq(Requests)
    PROVE  Alone'
<1>1. \A s \in Requests \ {r} : rq[s].at \in {"new", "done"} /\ rq'[s] = rq[s]
  BY DEF Alone, Steps, UnderWay
<1>2. \A s, t \in Requests : UnderWay(s)' /\ UnderWay(t)' => s = t
  BY <1>1 DEF UnderWay
<1>3. inbox' = <<>>
  BY DEF Alone, Steps
<1>4. \A s \in Requests :
        /\ rq'[s].at \in {"new", "done", "sent", "knocking", "reading"} => rq'[s].slot = <<>>
        /\ rq'[s].at \in {"knocking", "reading"} => ownerOf'[rq'[s].cid] = Nobody
  BY <1>1 DEF Alone, Steps, Held
<1>5. \A i \in DOMAIN lane : FALSE
  <2>1. ASSUME NEW i \in DOMAIN lane PROVE FALSE
    <3>1. lane[i] \in Requests /\ rq[lane[i]].at = "replied"
      BY DEF Alone
    <3> QED
      BY <1>1, <3>1
  <2> QED
    BY <2>1
<1> QED
  BY <1>2, <1>3, <1>4, <1>5 DEF Alone, Held

LEMMA SimpleMoves ==
    ASSUME Alone, NEW r \in Requests, Steps(r), Simple,
           Rooted', Bare', \A parcel \in deposit' : parcel.carried,
           Fresh(r)', Bears(r)', Person(r)', Parting(r)'
    PROVE  Simple'
<1>1. \A s \in Requests \ {r} : rq[s].at \in {"new", "done"} /\ rq'[s] = rq[s]
  BY DEF Alone, Steps, UnderWay
<1>2. ASSUME NEW s \in Requests \ {r} PROVE Fresh(s)' /\ Bears(s)' /\ Person(s)' /\ Parting(s)'
  <2>1. Bears(s)'
    BY <1>1 DEF Simple, Bears
  <2>2. Fresh(s)' /\ Parting(s)' /\ Person(s)'
    BY <1>1 DEF Fresh, Parting, Person, UnderWay
  <2> QED
    BY <2>1, <2>2
<1> QED
  BY <1>2 DEF Simple

LEMMA AgreesStays ==
    ASSUME NEW y, Agrees(y), UNCHANGED <<userRows, ownerOf, connectionOf>>
    PROVE  Agrees(y)'
BY DEF Agrees, Held

\* Nobody is served without a trace of what happened.
LEMMA PlainStays ==
    ASSUME Plain', met \subseteq met' PROVE Plain /\ met = {}
BY DEF Plain

Served == {"serving", "tail", "claimed", "writing"}

LEMMA SettledStays ==
    ASSUME NEW r \in Requests, Steps(r), NEW y, NEW events, Settled(y, events),
           UNCHANGED <<userRows, connectionsOf, storeOf, ownerOf, deposit, carries>>,
           rq'[r].cid = rq[r].cid, rq'[r].previous = rq[r].previous,
           rq[r].at \in Served /\ rq[r].previous # Nobody /\ ownerOf[rq[r].cid] \in userRows
             => rq'[r].at \in Served,
           rq[r].parcel # Nobody => rq'[r].parcel = rq[r].parcel,
           rq'[r].at \in {"reading", "serving"} =>
             \/ rq[r].at \in {"reading", "serving"}
             \/ \A parcel \in Lasting(events) : parcel.cid # rq[r].cid
    PROVE  Settled(y, events)'
<1>1. ASSUME NEW user \in userRows, Newcomer(user) PROVE Newcomer(user)'
  <2>1. PICK s \in Requests :
          /\ rq[s].at \in Served /\ rq[s].previous # Nobody
          /\ ownerOf[rq[s].cid] = user /\ connectionsOf[user] = {rq[s].cid}
    BY <1>1 DEF Newcomer, Served
  <2>2. rq'[s].at \in Served /\ rq'[s].previous = rq[s].previous /\ rq'[s].cid = rq[s].cid
    BY <2>1 DEF Steps
  <2> QED
    BY <2>1, <2>2 DEF Newcomer, Served
<1>2. Lasting(events)' = Lasting(events)
  BY DEF Lasting, Ends
<1>3. Lodged(y, events)'
  <2>1. ASSUME NEW parcel \in Lasting(events), NEW s \in Requests,
               rq'[s].at \in {"reading", "serving"}
        PROVE  parcel.cid # rq'[s].cid
    BY <2>1 DEF Steps, Settled, Lodged
  <2> QED
    BY <1>2, <2>1 DEF Settled, Lodged, Held
<1>4. Owed(events)'
  <2>1. ASSUME NEW user \in Identities, NEW s \in Requests, rq[s].parcel # Nobody
        PROVE  rq'[s].parcel = rq[s].parcel
    BY <2>1 DEF Steps
  <2>2. ASSUME NEW user \in Identities, NEW work, Kept(user, work, events)
        PROVE  Kept(user, work, events)'
    BY <1>2, <2>1, <2>2 DEF Kept
  <2> QED
    BY <2>2 DEF Settled, Owed
<1> QED
  BY <1>1, <1>3, <1>4 DEF Settled

\* The request goes from one phase to the next and says nothing.
Passes(r) ==
    /\ Steps(r) /\ rq[r].at # "replied"
    /\ rq'[r].slot = rq[r].slot /\ rq'[r].cid = rq[r].cid
    /\ rq'[r].previous = rq[r].previous /\ rq'[r].identity = rq[r].identity
    /\ UNCHANGED <<userRows, connectionsOf, storeOf, ownerOf, pagesOf, connectionOf, indexes,
                   carries>>
    /\ met \subseteq met'

LEMMA RqMoves ==
    ASSUME IInv, NEW r \in Requests, UnderWay(r), rq[r].at # "replied", NEW q,
           rq' = [rq EXCEPT ![r] = q], q.at \notin {"new", "done"}, inbox' = inbox
    PROVE  Steps(r) /\ rq'[r] = q
BY DEF IInv, RequestsOK, Steps

LEMMA PassesKeepAlone ==
    ASSUME IInv, MInv, "overlap" \notin met, NEW r \in Requests, Passes(r),
           Plain' => deposit' = deposit,
           Alone',
           Plain' =>
             /\ rq[r].at \in Served /\ rq[r].previous # Nobody /\ ownerOf[rq[r].cid] \in userRows
                  => rq'[r].at \in Served
             /\ rq[r].parcel # Nobody => rq'[r].parcel = rq[r].parcel
             /\ rq'[r].at \in {"reading", "serving"} =>
                  \/ rq[r].at \in {"reading", "serving"}
                  \/ \A parcel \in Lasting(rq[r].slot) : parcel.cid # rq[r].cid
             /\ rq'[r].at \in {"sent", "knocking", "reading"} => Fresh(r)'
             /\ Bears(r)' /\ Parting(r)'
    PROVE  MInv'
<1>1. Alone /\ Steps(r) /\ UnderWay(r)
  BY DEF MInv, Passes, Steps
<1>3. PICK y \in Indexes : /\ Leads(Now, rq[r].slot, y) /\ Agrees(y)
                           /\ Plain => Settled(y, rq[r].slot)
  BY <1>1, OneFollows
<1>4. PICK events : events = rq[r].slot
  OBVIOUS
<1>5. Now' = Now
  BY DEF Passes, Now, indexes
<1>6. Agrees(y)'
  BY <1>3, AgreesStays DEF Passes
<1>7. ASSUME Plain' PROVE Settled(y, events)'
  <2>1. Plain /\ Settled(y, events)
    BY <1>3, <1>4, <1>7, PlainStays DEF Passes
  <2>2. /\ UNCHANGED <<userRows, connectionsOf, storeOf, ownerOf, deposit, carries>>
        /\ rq'[r].cid = rq[r].cid /\ rq'[r].previous = rq[r].previous
        /\ rq[r].at \in Served /\ rq[r].previous # Nobody /\ ownerOf[rq[r].cid] \in userRows
             => rq'[r].at \in Served
        /\ rq[r].parcel # Nobody => rq'[r].parcel = rq[r].parcel
        /\ rq'[r].at \in {"reading", "serving"} =>
             \/ rq[r].at \in {"reading", "serving"}
             \/ \A parcel \in Lasting(rq[r].slot) : parcel.cid # rq[r].cid
    BY <1>7 DEF Passes
  <2> QED
    BY <1>1, <1>4, <2>1, <2>2, SettledStays
<1>8. ASSUME Plain' PROVE Simple'
  <2>1. Simple
    BY <1>8, PlainStays DEF MInv, Passes
  <2>2. Rooted' /\ Bare' /\ \A parcel \in deposit' : parcel.carried
    BY <1>8, <2>1 DEF Passes, Simple, Rooted, Bare
  <2>3. Person(r)'
    BY <1>1, <2>1 DEF Simple, Person, Passes, Dropped, Held
  <2>4. Fresh(r)'
    BY <1>8 DEF Fresh
  <2> QED
    BY <1>1, <1>8, <2>1, <2>2, <2>3, <2>4, SimpleMoves
<1> QED
  BY <1>1, <1>3, <1>4, <1>5, <1>6, <1>7, <1>8, OneLeads DEF Passes

LEMMA PassesKeep ==
    ASSUME IInv, MInv, "overlap" \notin met, NEW r \in Requests, Passes(r),
           Plain' => deposit' = deposit,
           lane' = lane,
           rq'[r].at \in {"sent", "knocking", "reading"} => rq[r].slot = <<>>,
           rq'[r].at \in {"knocking", "reading"} => ~Held(rq[r].cid),
           Plain' =>
             /\ rq[r].at \in Served /\ rq[r].previous # Nobody /\ ownerOf[rq[r].cid] \in userRows
                  => rq'[r].at \in Served
             /\ rq[r].parcel # Nobody => rq'[r].parcel = rq[r].parcel
             /\ rq'[r].at \in {"reading", "serving"} =>
                  \/ rq[r].at \in {"reading", "serving"}
                  \/ \A parcel \in Lasting(rq[r].slot) : parcel.cid # rq[r].cid
             /\ rq'[r].at \in {"sent", "knocking", "reading"} => Fresh(r)'
             /\ Bears(r)' /\ Parting(r)'
    PROVE  MInv'
<1>1. Alone /\ Steps(r)
  BY DEF MInv, Passes
<1>2. Alone'
  BY <1>1, AloneMoves DEF Passes, Held, IInv, Wire
<1> QED
  BY <1>2, PassesKeepAlone

\* Before its service a request has said nothing: the cookie is what the indexes say.
LEMMA NothingSaid ==
    ASSUME IInv, MInv, "overlap" \notin met, NEW r \in Requests,
           rq[r].at \in {"sent", "knocking", "reading"}
    PROVE  /\ UnderWay(r) /\ rq[r].slot = <<>> /\ Lasting(rq[r].slot) = deposit
           /\ Agrees(Now) /\ (Plain => Settled(Now, <<>>) /\ Lasting(<<>>) = deposit)
           /\ Plain => /\ rq[r].identity = connection_user_map[rq[r].cid]
                       /\ rq[r].previous = Nobody
                       /\ \A parcel \in deposit : /\ ~Held(parcel.cid)
                                                  /\ connection_user_map[parcel.cid] = parcel.user
                       /\ \A parcel, other \in deposit : other.cid = parcel.cid => other = parcel
<1>1. UnderWay(r)
  BY DEF UnderWay
<1>2. rq[r].slot = <<>>
  BY DEF MInv, Alone
<1>3. PICK y \in Indexes : /\ Leads(Now, rq[r].slot, y) /\ Agrees(y)
                           /\ Plain => Settled(y, rq[r].slot)
  BY <1>1, OneFollows
<1>4. y = Now
  BY <1>2, <1>3, LeadsBack
<1>5. Lasting(<<>>) = deposit
  BY DEF Lasting, Ends
<1>6. Plain => rq[r].identity = connection_user_map[rq[r].cid] /\ rq[r].previous = Nobody
  BY DEF MInv, Simple, Fresh
<1>7. Plain => Lodged(Now, <<>>)
  BY <1>2, <1>3, <1>4 DEF Settled
<1>8. Now.cum = connection_user_map
  BY DEF Now, Index
<1> QED
  BY <1>1, <1>2, <1>3, <1>4, <1>5, <1>6, <1>7, <1>8 DEF Lodged

LEMMA ReceiveMirrors ==
    ASSUME RegistersAssumption, IInv, MInv, "overlap" \notin met', NEW r \in Requests, Receive(r)
    PROVE  MInv'
<1>1. /\ rq[r].at = "sent" /\ UNCHANGED <<rows, deposit, lane, inbox, indexes, history>>
      /\ rq' = [rq EXCEPT ![r] = [rq[r] EXCEPT !.at =
           IF rq[r].identity = Nobody \/ Held(rq[r].cid) THEN "serving" ELSE "knocking"]]
  BY DEF Receive, Goes
<1>2. "overlap" \notin met /\ rq[r] \in RequestType /\ Sound(rq[r]) /\ rq[r].cid \in Connections
  BY <1>1, SlotIsEvents DEF history, Sound
<1>3. UnderWay(r) /\ rq[r].slot = <<>>
  BY <1>1, <1>2, NothingSaid
<1> DEFINE q == [rq[r] EXCEPT !.at =
                   IF rq[r].identity = Nobody \/ Held(rq[r].cid) THEN "serving" ELSE "knocking"]
<1>9. rq' = [rq EXCEPT ![r] = q]
  BY <1>1
<1>4. /\ q.at = (IF rq[r].identity = Nobody \/ Held(rq[r].cid) THEN "serving" ELSE "knocking")
      /\ q.slot = rq[r].slot /\ q.cid = rq[r].cid /\ q.previous = rq[r].previous
      /\ q.identity = rq[r].identity /\ q.parcel = rq[r].parcel
  BY <1>2 DEF RequestType
<1> HIDE DEF q
<1>5. Steps(r) /\ rq'[r] = q
  BY <1>1, <1>3, <1>4, <1>9, RqMoves
<1>6. Passes(r)
  BY <1>1, <1>4, <1>5 DEF Passes, rows, history
<1>7. ASSUME Plain'
      PROVE  /\ q.at = "serving" => \A parcel \in Lasting(rq[r].slot) : parcel.cid # rq[r].cid
             /\ Fresh(r)' /\ Bears(r)' /\ Parting(r)'
  <2>1. Plain /\ Simple
    BY <1>2, <1>6, <1>7, PlainStays DEF Passes, MInv
  <2>2. Fresh(r)'
    BY <1>1, <1>4, <1>5, <2>1 DEF Fresh, Simple, indexes
  <2>3. Bears(r)' /\ Parting(r)'
    BY <1>1, <1>4, <1>5, <2>1 DEF Bears, Parting, Simple
  <2>4. \A parcel \in deposit : parcel.user # Nobody
    BY DEF IInv, Packed, Parcels, RegistersAssumption, Identities
  <2> QED
    BY <1>1, <1>2, <1>4, <2>1, <2>2, <2>3, <2>4, NothingSaid
<1> QED
  BY <1>1, <1>2, <1>3, <1>4, <1>5, <1>6, <1>7, PassesKeep DEF Served

LEMMA EndServiceMirrors ==
    ASSUME IInv, MInv, "overlap" \notin met', NEW r \in Requests, EndService(r) PROVE MInv'
<1>1. /\ rq[r].at = "serving" /\ UNCHANGED <<rows, deposit, lane, inbox, indexes, history>>
      /\ rq' = [rq EXCEPT ![r] = [rq[r] EXCEPT !.at =
           IF rq[r].previous = Nobody THEN "replying" ELSE "tail"]]
  BY DEF EndService, Goes
<1>2. "overlap" \notin met /\ rq[r] \in RequestType /\ UnderWay(r)
  BY <1>1, SlotIsEvents DEF history, UnderWay
<1> DEFINE q == [rq[r] EXCEPT !.at = IF rq[r].previous = Nobody THEN "replying" ELSE "tail"]
<1>7. rq' = [rq EXCEPT ![r] = q]
  BY <1>1
<1>3. /\ q.at = (IF rq[r].previous = Nobody THEN "replying" ELSE "tail")
      /\ q.slot = rq[r].slot /\ q.cid = rq[r].cid /\ q.previous = rq[r].previous
      /\ q.identity = rq[r].identity /\ q.parcel = rq[r].parcel
  BY <1>2 DEF RequestType
<1> HIDE DEF q
<1>4. Steps(r) /\ rq'[r] = q
  BY <1>1, <1>2, <1>3, <1>7, RqMoves
<1>5. Passes(r)
  BY <1>1, <1>3, <1>4 DEF Passes, rows, history
<1>6. ASSUME Plain' PROVE Bears(r)' /\ Parting(r)'
  <2>1. Bears(r)
    BY <1>2, <1>5, <1>6, PlainStays DEF Passes, MInv, Simple
  <2> QED
    BY <1>1, <1>3, <1>4, <2>1 DEF Bears, Parting
<1> QED
  BY <1>1, <1>2, <1>3, <1>4, <1>5, <1>6, PassesKeep DEF Served

LEMMA ClaimDepartureMirrors ==
    ASSUME RegistersAssumption, IInv, MInv, "overlap" \notin met', NEW r \in Requests,
           ClaimDeparture(r)
    PROVE  MInv'
<1> DEFINE taken == \E other \in Requests :
                      rq[other].at \in {"claimed", "writing"} /\ rq[other].previous = rq[r].previous
           q == IF Held(rq[r].cid) /\ ~taken
                THEN [rq[r] EXCEPT !.at = "claimed", !.heir = ownerOf[rq[r].cid]]
                ELSE [rq[r] EXCEPT !.at = "replying"]
<1>1. /\ rq[r].at = "tail" /\ UNCHANGED <<rows, deposit, lane, inbox, indexes, history>>
      /\ rq' = [rq EXCEPT ![r] = q]
  BY DEF ClaimDeparture
<1>2. "overlap" \notin met /\ rq[r] \in RequestType /\ UnderWay(r) /\ rq[r].cid \in Connections
  BY <1>1, SlotIsEvents DEF history, UnderWay, Sound
<1>3. ~taken
  BY <1>1, <1>2 DEF MInv, Alone, UnderWay
<1>4. /\ q.at = (IF Held(rq[r].cid) THEN "claimed" ELSE "replying")
      /\ Held(rq[r].cid) => q.heir = ownerOf[rq[r].cid]
      /\ q.slot = rq[r].slot /\ q.cid = rq[r].cid /\ q.previous = rq[r].previous
      /\ q.identity = rq[r].identity /\ q.parcel = rq[r].parcel
  BY <1>2, <1>3 DEF RequestType
<1> HIDE DEF q
<1>5. Steps(r) /\ rq'[r] = q
  BY <1>1, <1>2, <1>4, RqMoves
<1>6. Passes(r)
  BY <1>1, <1>4, <1>5 DEF Passes, rows, history
<1>7. ASSUME Plain' PROVE Bears(r)' /\ Parting(r)'
  <2>1. Bears(r)
    BY <1>2, <1>6, <1>7, PlainStays DEF Passes, MInv, Simple
  <2> QED
    BY <1>1, <1>4, <1>5, <2>1 DEF Bears, Parting, Held, rows
<1>8. ownerOf[rq[r].cid] \in userRows => Held(rq[r].cid)
  BY DEF Held, IInv, Tree, RowsTyped, RegistersAssumption, Identities
<1> QED
  BY <1>1, <1>2, <1>4, <1>5, <1>6, <1>7, <1>8, PassesKeep DEF Served

LEMMA FolderFailsMirrors ==
    ASSUME IInv, MInv, "overlap" \notin met', NEW r \in Requests, FolderFails(r) PROVE MInv'
<1> DEFINE q == [rq[r] EXCEPT !.at = "replying"]
<1>1. /\ rq[r].at = "knocking" /\ rq' = [rq EXCEPT ![r] = q] /\ met' = met \cup {"refusal"}
      /\ UNCHANGED <<rows, deposit, lane, inbox, indexes, born, carries>>
  BY DEF FolderFails, Goes
<1>2. "overlap" \notin met /\ rq[r] \in RequestType /\ UnderWay(r)
  BY <1>1, SlotIsEvents DEF UnderWay
<1>3. /\ q.at = "replying" /\ q.slot = rq[r].slot /\ q.cid = rq[r].cid
      /\ q.previous = rq[r].previous /\ q.identity = rq[r].identity
  BY <1>2 DEF RequestType
<1> HIDE DEF q
<1>4. Steps(r) /\ rq'[r] = q
  BY <1>1, <1>2, <1>3, RqMoves
<1>5. Passes(r)
  BY <1>1, <1>3, <1>4 DEF Passes, rows
<1>6. ~Plain'
  BY <1>1 DEF Plain
<1> QED
  BY <1>1, <1>2, <1>3, <1>4, <1>5, <1>6, PassesKeep

LEMMA DepositFailsMirrors ==
    ASSUME IInv, MInv, "overlap" \notin met', NEW r \in Requests, DepositFails(r) PROVE MInv'
<1> DEFINE q == [rq[r] EXCEPT !.at = "replying", !.parcel = Nobody]
<1>1. /\ rq[r].at \in {"claimed", "writing"} /\ rq' = [rq EXCEPT ![r] = q]
      /\ met' = met \cup {"refusal"}
      /\ UNCHANGED <<rows, lane, inbox, indexes, born, carries>>
  BY DEF DepositFails
<1>2. "overlap" \notin met /\ rq[r] \in RequestType /\ UnderWay(r)
  BY <1>1, SlotIsEvents DEF UnderWay
<1>3. /\ q.at = "replying" /\ q.slot = rq[r].slot /\ q.cid = rq[r].cid
      /\ q.previous = rq[r].previous /\ q.identity = rq[r].identity
  BY <1>2 DEF RequestType
<1> HIDE DEF q
<1>4. Steps(r) /\ rq'[r] = q
  BY <1>1, <1>2, <1>3, RqMoves
<1>5. Passes(r)
  BY <1>1, <1>3, <1>4 DEF Passes, rows
<1>6. ~Plain'
  BY <1>1 DEF Plain
<1> QED
  BY <1>1, <1>2, <1>3, <1>4, <1>5, <1>6, PassesKeep

LEMMA CopyParcelMirrors ==
    ASSUME RegistersAssumption, IInv, MInv, "overlap" \notin met', NEW r \in Requests, CopyParcel(r)
    PROVE  MInv'
<1> DEFINE cid == rq[r].cid
           heir == rq[r].heir
           carried == IsGuest(rq[r].previous)
           packed == [user |-> heir, cid |-> cid, pages |-> pagesOf[cid], carried |-> carried,
                      store |-> IF carried THEN storeOf[heir] ELSE {}]
           stays == ~Held(cid) \/ (carried /\ heir \notin userRows)
           q == IF stays THEN [rq[r] EXCEPT !.at = "replying"]
                ELSE [rq[r] EXCEPT !.at = "writing", !.parcel = packed]
<1>1. /\ rq[r].at = "claimed" /\ UNCHANGED <<rows, deposit, lane, inbox, indexes, history>>
      /\ rq' = [rq EXCEPT ![r] = q]
  BY DEF CopyParcel
<1>2. "overlap" \notin met /\ rq[r] \in RequestType /\ UnderWay(r) /\ cid \in Connections
  BY <1>1, SlotIsEvents DEF history, UnderWay, Sound
<1>3. /\ q.at = (IF stays THEN "replying" ELSE "writing")
      /\ ~stays => q.parcel = packed
      /\ stays => q.parcel = rq[r].parcel
      /\ q.slot = rq[r].slot /\ q.cid = rq[r].cid /\ q.previous = rq[r].previous
      /\ q.identity = rq[r].identity
  BY <1>2 DEF RequestType
<1>4. packed.user = heir /\ packed.carried = carried /\ packed.store = IF carried THEN storeOf[heir] ELSE {}
  OBVIOUS
<1> HIDE DEF q, packed
<1>5. Steps(r) /\ rq'[r] = q
  BY <1>1, <1>2, <1>3, RqMoves
<1>6. Passes(r)
  BY <1>1, <1>3, <1>5 DEF Passes, rows, history
<1>7. ASSUME Plain'
      PROVE  ~stays /\ rq[r].parcel = Nobody /\ Bears(r)' /\ Parting(r)'
  <2>1. Simple
    BY <1>2, <1>6, <1>7, PlainStays DEF Passes, MInv
  <2>2. Held(cid) /\ heir = ownerOf[cid] /\ rq[r].parcel = Nobody /\ rq[r].previous # Nobody
    BY <1>1, SlotIsEvents, <2>1 DEF Simple, Parting, Bears, Sound
  <2>3. carried /\ heir \in userRows
    <3>1. rq[r].previous \in Connections
      BY <1>2, <2>1, <2>2 DEF Simple, Person
    <3>2. ownerOf[cid] \in userRows
      BY <1>2, <2>2, OwnerIsOneOfItsOwn DEF IInv, Held
    <3> QED
      BY <2>2, <3>1, <3>2 DEF IsGuest
  <2>4. rq'[r].at = "writing" /\ rq'[r].parcel = packed /\ rq'[r].cid = cid
    BY <1>3, <1>5, <2>2, <2>3
  <2>5. Bears(r)'
    BY <1>4, <2>3, <2>4 DEF Bears
  <2>6. Parting(r)'
    BY <1>1, <1>4, <2>2, <2>3, <2>4 DEF Parting, Held, rows
  <2> QED
    BY <2>2, <2>3, <2>5, <2>6
<1> QED
  BY <1>1, <1>2, <1>3, <1>5, <1>6, <1>7, PassesKeep DEF Served

LEMMA SendReplyMirrors ==
    ASSUME IInv, MInv, "overlap" \notin met', NEW r \in Requests, SendReply(r) PROVE MInv'
<1> DEFINE q == [rq[r] EXCEPT !.at = "replied"]
<1>1. /\ rq[r].at = "replying" /\ rq' = [rq EXCEPT ![r] = q] /\ lane' = Append(lane, r)
      /\ UNCHANGED <<rows, deposit, inbox, indexes, history>>
  BY DEF SendReply, Goes
<1>2. "overlap" \notin met /\ rq[r] \in RequestType /\ UnderWay(r)
  BY <1>1, SlotIsEvents DEF UnderWay, history
<1>3. /\ q.at = "replied" /\ q.slot = rq[r].slot /\ q.cid = rq[r].cid
      /\ q.previous = rq[r].previous /\ q.identity = rq[r].identity /\ q.parcel = rq[r].parcel
  BY <1>2 DEF RequestType
<1> HIDE DEF q
<1>4. Steps(r) /\ rq'[r] = q
  BY <1>1, <1>2, <1>3, RqMoves
<1>5. Passes(r)
  BY <1>1, <1>3, <1>4 DEF Passes, rows, history
<1>6. Alone'
  <2>1. Alone /\ lane \in Seq(Requests)
    BY <1>2 DEF MInv, IInv, Wire
  <2>2. \A s \in Requests \ {r} : rq[s].at \in {"new", "done"} /\ rq'[s] = rq[s]
    BY <1>4, <2>1 DEF Alone, Steps, UnderWay
  <2>3. lane = <<>>
    <3>1. SUFFICES ASSUME lane # <<>> PROVE FALSE
      OBVIOUS
    <3>2. 1 \in DOMAIN lane /\ lane[1] \in Requests
      BY <2>1, <3>1
    <3>3. rq[lane[1]].at = "replied"
      BY <2>1, <3>2 DEF Alone
    <3> QED
      BY <1>1, <2>2, <3>2, <3>3
  <2>4. lane' = <<r>>
    BY <1>1, <2>3
  <2>5. Len(lane') <= 1 /\ \A i \in DOMAIN lane' : rq'[lane'[i]].at = "replied"
    BY <1>3, <1>4, <2>4
  <2>6. \A s, t \in Requests : UnderWay(s)' /\ UnderWay(t)' => s = t
    BY <2>2 DEF UnderWay
  <2>7. inbox' = <<>>
    BY <1>1, <1>2, <2>1 DEF Alone
  <2>8. \A s \in Requests :
        /\ rq'[s].at \in {"new", "done", "sent", "knocking", "reading"} => rq'[s].slot = <<>>
        /\ rq'[s].at \in {"knocking", "reading"} => ownerOf'[rq'[s].cid] = Nobody
    BY <1>3, <1>4, <2>1, <2>2 DEF Alone
  <2> QED
    BY <2>5, <2>6, <2>7, <2>8 DEF Alone, Held
<1>7. ASSUME Plain' PROVE Bears(r)' /\ Parting(r)'
  <2>1. Bears(r)
    BY <1>2, <1>5, <1>7, PlainStays DEF Passes, MInv, Simple
  <2> QED
    BY <1>1, <1>3, <1>4, <2>1 DEF Bears, Parting
<1> QED
  BY <1>1, <1>2, <1>3, <1>4, <1>5, <1>6, <1>7, PassesKeepAlone DEF Served

LEMMA OpenFolderMirrors ==
    ASSUME RegistersAssumption, IInv, MInv, "overlap" \notin met', NEW r \in Requests, OpenFolder(r)
    PROVE  MInv'
<1>1. /\ rq[r].at = "knocking" /\ UNCHANGED <<rows, lane, inbox, indexes, history>>
      /\ \/ /\ \E parcel \in deposit :
                 /\ parcel.user = rq[r].identity /\ parcel.cid = rq[r].cid
                 /\ rq' = [rq EXCEPT ![r].at = "reading", ![r].parcel = parcel]
                 /\ deposit' = deposit \ {parcel}
         \/ /\ \A parcel \in deposit : parcel.user # rq[r].identity \/ parcel.cid # rq[r].cid
            /\ Goes(r, "serving") /\ UNCHANGED deposit
  BY DEF OpenFolder
<1>2. "overlap" \notin met /\ rq[r] \in RequestType /\ UnderWay(r) /\ rq[r].slot = <<>>
      /\ rq[r].cid \in Connections
  BY <1>1, SlotIsEvents, NothingSaid DEF UnderWay, history, Sound
<1>3. CASE /\ \A parcel \in deposit : parcel.user # rq[r].identity \/ parcel.cid # rq[r].cid
           /\ Goes(r, "serving") /\ UNCHANGED deposit
  <2> DEFINE q == [rq[r] EXCEPT !.at = "serving"]
  <2>1. rq' = [rq EXCEPT ![r] = q]
    BY <1>3 DEF Goes
  <2>2. /\ q.at = "serving" /\ q.slot = rq[r].slot /\ q.cid = rq[r].cid
        /\ q.previous = rq[r].previous /\ q.identity = rq[r].identity /\ q.parcel = rq[r].parcel
    BY <1>2 DEF RequestType
  <2> HIDE DEF q
  <2>3. Steps(r) /\ rq'[r] = q
    BY <1>1, <1>2, <2>1, <2>2, RqMoves
  <2>4. Passes(r)
    BY <1>1, <2>2, <2>3 DEF Passes, rows, history
  <2>5. ASSUME Plain'
        PROVE  /\ Bears(r)' /\ Parting(r)'
               /\ \A parcel \in Lasting(rq[r].slot) : parcel.cid # rq[r].cid
    <3>1. Plain /\ Bears(r)
      BY <1>2, <2>4, <2>5, PlainStays DEF Passes, MInv, Simple
    <3>2. \A parcel \in deposit : parcel.cid # rq[r].cid
      BY <1>1, <1>2, <1>3, <3>1, NothingSaid
    <3> QED
      BY <1>1, <1>2, <2>2, <2>3, <3>1, <3>2, NothingSaid DEF Bears, Parting
  <2> QED
    BY <1>1, <1>2, <1>3, <2>2, <2>3, <2>4, <2>5, PassesKeep DEF Served
<1>4. CASE \E parcel \in deposit :
             /\ parcel.user = rq[r].identity /\ parcel.cid = rq[r].cid
             /\ rq' = [rq EXCEPT ![r].at = "reading", ![r].parcel = parcel]
             /\ deposit' = deposit \ {parcel}
  <2>1. PICK parcel \in deposit :
             /\ parcel.user = rq[r].identity /\ parcel.cid = rq[r].cid
             /\ rq' = [rq EXCEPT ![r].at = "reading", ![r].parcel = parcel]
             /\ deposit' = deposit \ {parcel}
    BY <1>4
  <2> DEFINE q == [rq[r] EXCEPT !.at = "reading", !.parcel = parcel]
  <2>2. rq' = [rq EXCEPT ![r] = q]
    BY <2>1
  <2>3. /\ q.at = "reading" /\ q.slot = rq[r].slot /\ q.cid = rq[r].cid
        /\ q.previous = rq[r].previous /\ q.identity = rq[r].identity /\ q.parcel = parcel
    BY <1>2 DEF RequestType
  <2> HIDE DEF q
  <2>4. Steps(r) /\ rq'[r] = q
    BY <1>1, <1>2, <2>2, <2>3, RqMoves
  <2>5. Alone /\ Alone'
    BY <1>1, <1>2, <2>3, <2>4, AloneMoves DEF MInv, Alone, Held, rows, IInv, Wire
  <2>6. Now \in Indexes /\ Leads(Now', <<>>, Now) /\ Now' = Now /\ Agrees(Now)
    BY <1>1, <1>2, NowIsTyped, LeadsNowhere, NothingSaid DEF Now, indexes
  <2>7. PICK y : y = Now
    OBVIOUS
  <2>8. Agrees(y)'
    BY <1>1, <2>6, <2>7, AgreesStays DEF rows
  <2>9. ASSUME Plain' PROVE Settled(y, <<>>)' /\ Simple'
    <3>1. Plain /\ Simple /\ Settled(Now, <<>>) /\ Lasting(<<>>) = deposit
      BY <1>1, <1>2, <2>9, NothingSaid DEF MInv, history, Plain
    <3>2. rq[r].previous = Nobody /\ rq[r].parcel = Nobody
      BY <1>1, <1>2, <3>1, NothingSaid DEF Simple, Bears
    <3>3. \A s \in Requests : rq[s].at \notin Served
      BY <1>1, <2>5 DEF Alone, UnderWay, Served
    <3>4. \A user \in userRows : user \in y.placed
      BY <2>7, <3>1, <3>3 DEF Settled, Newcomer, Served
    <3>5. Lasting(<<>>)' = deposit'
      BY DEF Lasting, Ends
    <3>6. \A s \in Requests : rq'[s].at \in {"reading", "serving"} => s = r
      BY <2>4, <2>5, <1>2 DEF Alone, Steps, UnderWay
    <3>7. Lodged(y, <<>>)'
      <4>1. ASSUME NEW other \in deposit'
            PROVE  /\ other \in deposit /\ other.cid # parcel.cid
                   /\ ~Held(other.cid) /\ y.cum[other.cid] = other.user
        BY <2>1, <2>7, <3>1, <4>1 DEF Settled, Lodged
      <4>2. \A other \in deposit' : ownerOf'[other.cid] = Nobody
        BY <1>1, <4>1 DEF Held, rows
      <4>3. \A one, other \in deposit' : one.cid = other.cid => one = other
        BY <3>1, <4>1 DEF Settled, Lodged
      <4>4. ASSUME NEW other \in deposit', NEW s \in Requests, rq'[s].at \in {"reading", "serving"}
            PROVE  other.cid # rq'[s].cid
        <5>1. s = r /\ rq'[r].cid = rq[r].cid
          BY <2>3, <2>4, <3>6, <4>4
        <5> QED
          BY <2>1, <4>1, <5>1
      <4> QED
        BY <3>5, <4>1, <4>2, <4>3, <4>4 DEF Lodged, Held
    <3>8. Owed(<<>>)'
      <4>1. ASSUME NEW user \in Identities, NEW work, Kept(user, work, <<>>)
            PROVE  Kept(user, work, <<>>)'
        <5>1. parcel # Nobody
          BY <2>1, ParcelsAssumption DEF IInv, Packed
        <5>2. CASE parcel.user = user /\ work \in parcel.store
          BY <2>3, <2>4, <5>1, <5>2 DEF Kept
        <5>3. CASE \E other \in deposit : other # parcel /\ other.user = user /\ work \in other.store
          BY <2>1, <3>5, <5>3 DEF Kept
        <5>4. CASE \E s \in Requests : /\ rq[s].parcel # Nobody /\ rq[s].parcel.user = user
                                       /\ work \in rq[s].parcel.store
          BY <2>4, <3>2, <5>4 DEF Steps, Kept
        <5>5. CASE work \in storeOf[user]
          BY <1>1, <5>5 DEF Kept, rows
        <5> QED
          BY <3>1, <4>1, <5>2, <5>3, <5>4, <5>5 DEF Kept
      <4> QED
        BY <1>1, <3>1, <4>1 DEF Settled, Owed, history
    <3>9. Settled(y, <<>>)'
      BY <1>1, <2>7, <3>1, <3>4, <3>7, <3>8 DEF Settled, rows
    <3>10. Rooted' /\ Bare' /\ \A other \in deposit' : other.carried
      BY <1>1, <2>1, <3>1 DEF Simple, Rooted, Bare, rows
    <3>11. Fresh(r)' /\ Person(r)' /\ Parting(r)' /\ Bears(r)'
      BY <1>1, <2>1, <2>3, <2>4, <3>1, <3>2 DEF Simple, Fresh, Person, Parting, Bears, indexes
    <3> QED
      BY <2>4, <2>5, <3>1, <3>9, <3>10, <3>11, SimpleMoves
  <2>10. rq'[r].slot = <<>>
    BY <1>2, <2>3, <2>4
  <2> QED
    BY <2>4, <2>5, <2>6, <2>7, <2>8, <2>9, <2>10, OneLeads
<1> QED
  BY <1>1, <1>3, <1>4

-----------------------------------------------------------------------------
(* A verb of the site: the rows move and the slot says how.                *)

LEMMA EndsNever == ASSUME NEW user PROVE ~Ends(user, <<>>)
BY DEF Ends

LEMMA EndsOnce ==
    ASSUME NEW user, NEW e PROVE Ends(user, <<e>>) <=> e.op = "drop_user" /\ e.user = user
<1>1. DOMAIN <<e>> = {1} /\ <<e>>[1] = e
  OBVIOUS
<1> QED
  BY <1>1 DEF Ends

LEMMA EndsJoins ==
    ASSUME NEW E \in Seq(Events), NEW F \in Seq(Events), NEW user
    PROVE  Ends(user, E \o F) <=> Ends(user, E) \/ Ends(user, F)
<1>1. Len(E) \in Nat /\ Len(F) \in Nat /\ DOMAIN (E \o F) = 1 .. Len(E) + Len(F)
      /\ DOMAIN E = 1 .. Len(E) /\ DOMAIN F = 1 .. Len(F)
  OBVIOUS
<1>2. ASSUME NEW i \in DOMAIN (E \o F), (E \o F)[i].op = "drop_user" /\ (E \o F)[i].user = user
      PROVE  Ends(user, E) \/ Ends(user, F)
  <2>1. CASE i <= Len(E)
    <3>1. i \in DOMAIN E /\ (E \o F)[i] = E[i]
      BY <1>1, <2>1
    <3> QED
      BY <1>2, <3>1 DEF Ends
  <2>2. CASE i > Len(E)
    <3>1. i - Len(E) \in DOMAIN F /\ (E \o F)[i] = F[i - Len(E)]
      BY <1>1, <2>2
    <3> QED
      BY <1>2, <3>1 DEF Ends
  <2> QED
    BY <1>1, <2>1, <2>2
<1>3. ASSUME Ends(user, E) PROVE Ends(user, E \o F)
  <2>1. PICK i \in DOMAIN E : E[i].op = "drop_user" /\ E[i].user = user
    BY <1>3 DEF Ends
  <2>2. i \in DOMAIN (E \o F) /\ (E \o F)[i] = E[i]
    BY <1>1
  <2> QED
    BY <2>1, <2>2 DEF Ends
<1>4. ASSUME Ends(user, F) PROVE Ends(user, E \o F)
  <2>1. PICK i \in DOMAIN F : F[i].op = "drop_user" /\ F[i].user = user
    BY <1>4 DEF Ends
  <2>2. Len(E) + i \in DOMAIN (E \o F) /\ (E \o F)[Len(E) + i] = F[i]
    BY <1>1
  <2> QED
    BY <2>1, <2>2 DEF Ends
<1> QED
  BY <1>2, <1>3, <1>4 DEF Ends

LEMMA ArrivalEndsNobody ==
    ASSUME NEW cid \in Connections, NEW user \in OwnersOf(cid), user \in Identities, NEW other
    PROVE  ~Ends(other, Arrival(cid, user))
<1> DEFINE first == Event("new_user", user, {}, {}, Nobody)
           second == Event("new_connection", user, {cid}, {}, Nobody)
<1>1. first \in Events /\ second \in Events
  BY EventIsTyped DEF Verbs
<1>2. first.op = "new_user" /\ second.op = "new_connection"
  BY DEF Event
<1> HIDE DEF first, second
<1>3. ~Ends(other, <<first>>) /\ ~Ends(other, <<second>>) /\ ~Ends(other, <<>>)
  BY <1>2, EndsOnce, EndsNever
<1>4. <<first>> \in Seq(Events) /\ <<second>> \in Seq(Events) /\ <<>> \in Seq(Events)
  BY <1>1
<1>5. ~Ends(other, <<first>> \o <<second>>) /\ ~Ends(other, <<>> \o <<second>>)
  BY <1>3, <1>4, EndsJoins
<1> QED
  BY <1>5 DEF Arrival, first, second

LEMMA PagesGoneEndNobody ==
    ASSUME NEW user \in Identities, NEW pages \in SUBSET Pages, NEW other
    PROVE  ~Ends(other, PagesGone(user, pages))
<1>1. Event("drop_pages", user, {}, pages, Nobody).op = "drop_pages"
  BY DEF Event
<1>2. ~Ends(other, <<Event("drop_pages", user, {}, pages, Nobody)>>)
  BY <1>1, EndsOnce
<1> QED
  BY <1>2, EndsNever DEF PagesGone

LEMMA DropEnds ==
    ASSUME NEW user \in Identities, NEW pages \in SUBSET Pages, NEW cids \in SUBSET Connections,
           \A cid \in cids : user \in OwnersOf(cid), NEW users \in {{}, {user}}, NEW other
    PROVE  Ends(other, Drop(user, pages, cids, users)) <=> other \in users
<1> DEFINE second == Event("drop_connections", user, cids, {}, Nobody)
           third == Event("drop_user", user, {}, {}, Nobody)
           first == PagesGone(user, pages)
           F == IF cids = {} THEN <<>> ELSE <<second>>
           G == IF users = {} THEN <<>> ELSE <<third>>
<1>1. second \in Events /\ third \in Events /\ Event("drop_pages", user, {}, pages, Nobody) \in Events
  BY EventIsTyped DEF Verbs
<1>2. second.op = "drop_connections" /\ third.op = "drop_user" /\ third.user = user
  BY DEF Event
<1>3. first \in Seq(Events) /\ F \in Seq(Events) /\ G \in Seq(Events)
  BY <1>1 DEF PagesGone
<1>4. ~Ends(other, first)
  BY PagesGoneEndNobody
<1>5. ~Ends(other, F)
  BY <1>2, EndsOnce, EndsNever
<1>6. Ends(other, G) <=> other \in users
  BY <1>2, EndsOnce, EndsNever
<1>7. Drop(user, pages, cids, users) = (first \o F) \o G
  BY DEF Drop
<1> HIDE DEF first, F, G
<1>8. first \o F \in Seq(Events) /\ ~Ends(other, first \o F)
  BY <1>3, <1>4, <1>5, EndsJoins, SeqJoins
<1>9. Ends(other, (first \o F) \o G) <=> Ends(other, first \o F) \/ Ends(other, G)
  BY <1>3, <1>8, EndsJoins
<1> HIDE DEF second, third
<1> QED
  BY <1>6, <1>7, <1>8, <1>9

\* The parcels that last when more is said.
LEMMA LastingJoins ==
    ASSUME NEW E \in Seq(Events), NEW F \in Seq(Events)
    PROVE  Lasting(E \o F) = {parcel \in Lasting(E) : ~Ends(parcel.user, F)}
BY EndsJoins DEF Lasting

\* Its rows move, the slot gets these events, nothing else does.
Speaks(r, said) ==
    /\ Steps(r) /\ rq[r].at = "serving" /\ rq'[r].at = "serving"
    /\ rq'[r].cid = rq[r].cid /\ rq'[r].identity = rq[r].identity
    /\ rq'[r].parcel = rq[r].parcel
    /\ rq'[r].slot = rq[r].slot \o said
    /\ UNCHANGED <<deposit, lane, indexes>>
    /\ met \subseteq met'

LEMMA ServingAlone ==
    ASSUME IInv, Alone, Simple, NEW r \in Requests, rq[r].at = "serving"
    PROVE  /\ \A s \in Requests : rq[s].parcel = Nobody
           /\ \A s \in Requests \ {r} : rq[s].at \in {"new", "done"}
           /\ \A user : Newcomer(user) <=> /\ rq[r].previous # Nobody
                                           /\ ownerOf[rq[r].cid] = user
                                           /\ connectionsOf[user] = {rq[r].cid}
<1>1. \A s \in Requests \ {r} : rq[s].at \in {"new", "done"}
  BY DEF Alone, UnderWay
<1>2. \A s \in Requests : rq[s].parcel = Nobody
  BY <1>1 DEF Simple, Bears
<1>3. \A user : Newcomer(user) <=> /\ rq[r].previous # Nobody
                                   /\ ownerOf[rq[r].cid] = user
                                   /\ connectionsOf[user] = {rq[r].cid}
  BY <1>1 DEF Newcomer
<1> QED
  BY <1>1, <1>2, <1>3

LEMMA SpeaksKeep ==
    ASSUME IInv, MInv, "overlap" \notin met, NEW r \in Requests,
           NEW said \in Seq(Events), Speaks(r, said), NEW slot, slot = rq[r].slot,
           NEW y \in Indexes, Leads(Now, slot, y),
           NEW z \in Indexes, Leads(y, said, z), Agrees(z)',
           Plain' => /\ Settled(z, slot \o said)'
                     /\ Rooted' /\ Bare' /\ Person(r)'
    PROVE  MInv'
<1>1. Alone /\ Steps(r) /\ lane \in Seq(Requests) /\ slot \in Seq(Events)
  BY SlotIsEvents DEF MInv, Speaks, IInv, Wire
<1>2. Alone'
  BY <1>1, AloneMoves DEF Speaks
<1>3. Leads(Now', slot \o said, z)
  <2>1. Now' = Now
    BY DEF Speaks, Now, indexes
  <2> QED
    BY <1>1, <2>1, LeadsOn
<1>4. ASSUME Plain' PROVE Simple'
  <2>1. Simple
    BY <1>4, PlainStays DEF Speaks, MInv
  <2>2. \A parcel \in deposit' : parcel.carried
    BY <2>1 DEF Simple, Speaks
  <2>3. Fresh(r)' /\ Bears(r)' /\ Parting(r)'
    BY <2>1 DEF Simple, Fresh, Bears, Parting, Speaks
  <2> QED
    BY <1>1, <1>4, <2>1, <2>2, <2>3, SimpleMoves
<1>5. PICK events : events = slot \o said
  OBVIOUS
<1>6. rq'[r].slot = events /\ Leads(Now', events, z)
  BY <1>3, <1>5 DEF Speaks
<1>7. Plain' => Settled(z, events)'
  BY <1>5
<1> QED
  BY <1>1, <1>2, <1>4, <1>6, <1>7, OneLeads

\* What the rows brought in leave of the agreement.
Heard(y, cid, user, pages, z) ==
    /\ z.pcm = [page \in Pages |-> IF page \in pages THEN cid ELSE y.pcm[page]]
    /\ z.cum[cid] = user /\ \A c \in Connections \ {cid} : z.cum[c] = y.cum[c]
    /\ y.users \cup {user} \subseteq z.users /\ y.hosted \cup {user} \subseteq z.hosted

LEMMA BroughtAgrees ==
    ASSUME IInv, NEW y \in Indexes, Agrees(y), NEW cid \in Connections, NEW user \in Identities,
           NEW pages \in SUBSET Pages, Brought(cid, user, pages), NEW z,
           Heard(y, cid, user, pages, z)
    PROVE  Agrees(z)'
<1>1. z.pcm = connectionOf'
  BY DEF Agrees, Brought, Heard
<1>2. \A c \in Connections : ownerOf'[c] # Nobody => z.cum[c] = ownerOf'[c]
  BY DEF Agrees, Brought, Held, IInv, Tree, RowsTyped, Heard
<1>3. userRows' \subseteq z.users \cap z.hosted
  BY DEF Agrees, Brought, Heard
<1> QED
  BY <1>1, <1>2, <1>3 DEF Agrees, Held

LEMMA OpensNothing == ASSUME NEW x \in Indexes, NEW cid PROVE Opens(x, cid, {}) = x
<1>1. [page \in Pages |-> IF page \in {} THEN cid ELSE x.pcm[page]] = x.pcm
  BY DEF Indexes
<1>2. x = [cum |-> x.cum, pcm |-> x.pcm, users |-> x.users, placed |-> x.placed,
           hosted |-> x.hosted]
  BY DEF Indexes
<1> QED
  BY <1>1, <1>2 DEF Opens, Index

\* Bringing in the connection of r, its user with it, takes the indexes from y to z.
Arriving(r, y, slot, events, cid, user, pages, z) ==
    /\ Steps(r) /\ Settled(y, slot) /\ Lasting(events) = Lasting(slot)
    /\ rq[r].at \in {"reading", "serving"} /\ rq[r].previous = Nobody
    /\ cid = rq[r].cid /\ cid = rq'[r].cid /\ ~Held(cid)
    /\ Brought(cid, user, pages) /\ deposit' = deposit
    /\ z.cum = Leading(y, cid, user) /\ z.placed = y.placed \cup {user}
    /\ z.hosted = y.hosted \cup {user}

\* The connection is nobody's parcel, and its user is placed with it.
LEMMA ArrivingSettles ==
    ASSUME RegistersAssumption, IInv, Alone, NEW r \in Requests, NEW cid \in Connections,
           NEW user \in Identities, NEW y, NEW slot, NEW events, NEW pages, NEW z,
           Arriving(r, y, slot, events, cid, user, pages, z)
    PROVE  /\ \A other \in userRows' : other \in z.placed
           /\ z.hosted \subseteq userRows'
           /\ Lodged(z, events)'
           /\ Rooted => Rooted'
<1> USE DEF Arriving
<1>1. \A s \in Requests \ {r} : rq[s].at \in {"new", "done"} /\ rq'[s] = rq[s]
  BY DEF Alone, Steps, UnderWay
<1>2. \A other \in userRows : other \in y.placed
  BY <1>1 DEF Settled, Newcomer
<1>3. userRows' = userRows \cup {user}
  BY DEF Brought
<1>4. Lasting(events)' = Lasting(slot)
  BY DEF Lasting
<1>5. ASSUME NEW parcel \in Lasting(slot)
      PROVE  /\ parcel.cid \in Connections /\ parcel.cid # cid
             /\ ownerOf'[parcel.cid] = Nobody /\ z.cum[parcel.cid] = parcel.user
  <2>1. parcel.cid \in Connections
    BY DEF Lasting, IInv, Packed, Parcels
  <2>2. Lodged(y, slot)
    BY DEF Settled
  <2>4. /\ ~Held(parcel.cid) /\ y.cum[parcel.cid] = parcel.user
        /\ \A s \in Requests : rq[s].at \in {"reading", "serving"} => parcel.cid # rq[s].cid
    BY <2>2, Zenon DEF Lodged
  <2>3. parcel.cid # cid /\ ownerOf[parcel.cid] = Nobody /\ y.cum[parcel.cid] = parcel.user
    BY <2>4 DEF Held
  <2> QED
    BY <2>1, <2>3 DEF Brought, Leading, IInv, Tree, RowsTyped
<1>6. \A s \in Requests : rq'[s].at \in {"reading", "serving"} => rq'[s].cid = cid
  BY <1>1
<1>7. Lodged(z, events)'
  BY <1>4, <1>5, <1>6 DEF Settled, Lodged, Held
<1>8. Rooted => Rooted'
  BY DEF Rooted, Brought, IInv, Tree, RowsTyped
<1> QED
  BY <1>2, <1>3, <1>7, <1>8 DEF Settled

LEMMA NewConnectionMirrors ==
    ASSUME RegistersAssumption, IInv, MInv, "overlap" \notin met', NEW r \in Requests,
           NewConnection(r)
    PROVE  MInv'
<1>1. PICK cid : cid = rq[r].cid
  OBVIOUS
<1>2. PICK user \in {cid, Host(r)} :
        /\ rq[r].at = "serving" /\ ~Held(cid) /\ Brought(cid, user, {})
        /\ met' = met \cup Relapse(r) /\ Says(r, Arrival(cid, user))
        /\ UNCHANGED <<storeOf, deposit, lane, inbox, indexes, born, carries>>
  BY <1>1 DEF NewConnection, Serving
<1>3. /\ "overlap" \notin met /\ rq[r] \in RequestType /\ UnderWay(r) /\ cid \in Connections
      /\ rq[r].identity \in OwnersOf(cid) \cup {Nobody} /\ Alone /\ rq[r].slot \in Seq(Events)
  BY <1>1, <1>2, SlotIsEvents DEF UnderWay, Sound, MInv
<1>4. user \in OwnersOf(cid) /\ user \in Identities
  BY <1>1, <1>2, <1>3 DEF Host, OwnersOf, Identities
<1>5. PICK slot \in Seq(Events), said \in Seq(Events) :
        slot = rq[r].slot /\ said = Arrival(cid, user)
  <2>1. Arrival(cid, user) \in Seq(Announced) /\ Announced \subseteq Events
    BY <1>3, <1>4, ArrivalIsAnnounced DEF Announced
  <2> QED
    BY <1>3, <2>1, SeqWidens
<1>6. PICK y \in Indexes : /\ Leads(Now, slot, y) /\ Agrees(y)
                           /\ Plain => Settled(y, slot)
  BY <1>3, <1>5, OneFollows
<1>7. PICK z \in Indexes : z = Arrived(y, cid, user) /\ Leads(y, said, z)
  BY <1>3, <1>4, <1>5, <1>6, ArrivalTold
<1>8. /\ z.cum = Leading(y, cid, user) /\ z.pcm = y.pcm /\ z.users = y.users \cup {user}
      /\ z.placed = y.placed \cup {user} /\ z.hosted = y.hosted \cup {user}
  BY <1>7 DEF Arrived, Index
<1> DEFINE q == [rq[r] EXCEPT !.verbs = @ + 1, !.slot = @ \o said]
<1>9. /\ q.at = "serving" /\ q.slot = slot \o said /\ q.cid = cid /\ q.previous = rq[r].previous
      /\ q.identity = rq[r].identity /\ q.parcel = rq[r].parcel
  BY <1>1, <1>2, <1>3, <1>5 DEF RequestType
<1>10. rq' = [rq EXCEPT ![r] = q]
  BY <1>2, <1>5 DEF Says
<1> HIDE DEF q
<1>11. Steps(r) /\ rq'[r] = q
  BY <1>2, <1>3, <1>9, <1>10, RqMoves
<1>12. Speaks(r, said)
  BY <1>1, <1>2, <1>5, <1>9, <1>11 DEF Speaks
<1>13. Agrees(z)'
  <2>1. z.pcm = [page \in Pages |-> IF page \in {} THEN cid ELSE y.pcm[page]]
    BY <1>8 DEF Indexes
  <2>2. Heard(y, cid, user, {}, z)
    BY <1>3, <1>6, <1>8, <2>1 DEF Leading, Heard
  <2> QED
    BY <1>2, <1>3, <1>4, <1>6, <2>2, BroughtAgrees
<1>14. ASSUME Plain' PROVE Settled(z, slot \o said)' /\ Rooted' /\ Bare' /\ Person(r)'
  <2>1. Plain /\ Simple /\ Settled(y, slot) /\ rq[r].previous = Nobody
    BY <1>2, <1>3, <1>6, <1>14 DEF Plain, MInv, Relapse
  <2>2. Lasting(slot \o said) = Lasting(slot)
    <3>1. \A other : ~Ends(other, said)
      BY <1>3, <1>4, <1>5, ArrivalEndsNobody
    <3> QED
      BY <3>1, LastingJoins
  <2>3. PICK events : events = slot \o said
    OBVIOUS
  <2>4. /\ \A other \in userRows' : other \in z.placed
        /\ z.hosted \subseteq userRows' /\ Lodged(z, events)' /\ Rooted'
    <3>1. Rooted /\ Arriving(r, y, slot, events, cid, user, {}, z)
      BY <1>1, <1>2, <1>8, <1>9, <1>11, <2>1, <2>2, <2>3 DEF Simple, Arriving
    <3> QED
      BY <1>3, <1>4, <3>1, ArrivingSettles
  <2>5. Owed(events)'
    <3>1. ASSUME NEW other \in Identities, NEW work, Kept(other, work, slot)
          PROVE  Kept(other, work, events)'
      <4>1. Lasting(events)' = Lasting(slot)
        BY <1>2, <2>2, <2>3 DEF Lasting
      <4>2. \A s \in Requests : rq'[s].parcel = rq[s].parcel
        BY <1>9, <1>11 DEF Steps
      <4> QED
        BY <1>2, <3>1, <4>1, <4>2 DEF Kept
    <3> QED
      BY <1>2, <2>1, <3>1 DEF Settled, Owed
  <2>6. Bare' /\ Person(r)'
    BY <1>2, <1>9, <1>11, <2>1 DEF Simple, Bare, Person, Brought
  <2> QED
    BY <2>3, <2>4, <2>5, <2>6 DEF Settled
<1> QED
  BY <1>3, <1>5, <1>6, <1>7, <1>12, <1>13, <1>14, SpeaksKeep

LEMMA SaysSpeaks ==
    ASSUME IInv, MInv, NEW r \in Requests, rq[r].at = "serving",
           NEW said \in Seq(Events), Says(r, said), UNCHANGED <<deposit, lane, inbox, indexes>>,
           met \subseteq met', "overlap" \notin met'
    PROVE  /\ Speaks(r, said) /\ rq'[r].previous = rq[r].previous
           /\ \A s \in Requests : rq'[s].parcel = rq[s].parcel
<1> DEFINE q == [rq[r] EXCEPT !.verbs = @ + 1, !.slot = @ \o said]
<1>1. rq[r] \in RequestType /\ UnderWay(r)
  BY SlotIsEvents DEF UnderWay
<1>2. /\ q.at = "serving" /\ q.slot = rq[r].slot \o said /\ q.cid = rq[r].cid
      /\ q.previous = rq[r].previous /\ q.identity = rq[r].identity /\ q.parcel = rq[r].parcel
  BY <1>1 DEF RequestType
<1>3. rq' = [rq EXCEPT ![r] = q]
  BY DEF Says
<1> HIDE DEF q
<1>4. Steps(r) /\ rq'[r] = q
  BY <1>1, <1>2, <1>3, RqMoves
<1> QED
  BY <1>2, <1>4 DEF Speaks, Steps

LEMMA DroppedSays ==
    ASSUME NEW r \in Requests, rq[r].slot \in Seq(Events), NEW said \in Seq(Events),
           Speaks(r, said), NEW user
    PROVE  Dropped(r, user)' <=> Dropped(r, user) \/ Ends(user, said)
<1>1. Ends(user, rq[r].slot \o said) <=> Ends(user, rq[r].slot) \/ Ends(user, said)
  BY EndsJoins
<1>2. Dropped(r, user) <=> Ends(user, rq[r].slot)
  BY DEF Dropped, Ends
<1>3. Dropped(r, user)' <=> Ends(user, rq'[r].slot)
  BY DEF Dropped, Ends
<1> QED
  BY <1>1, <1>2, <1>3 DEF Speaks

\* Who serves alone: what the indexes will say, and what it takes to keep agreeing.
LEMMA ServingFollows ==
    ASSUME RegistersAssumption, IInv, MInv, "overlap" \notin met', met \subseteq met',
           NEW r \in Requests, rq[r].at = "serving"
    PROVE  /\ "overlap" \notin met /\ Alone /\ UnderWay(r)
           /\ rq[r].cid \in Connections /\ rq[r].slot \in Seq(Events) /\ rq[r] \in RequestType
           /\ Host(r) \in OwnersOf(rq[r].cid) /\ Host(r) \in Identities
           /\ Held(rq[r].cid) =>
                /\ ownerOf[rq[r].cid] \in OwnersOf(rq[r].cid)
                /\ ownerOf[rq[r].cid] \in Identities /\ ownerOf[rq[r].cid] \in userRows
           /\ \E y \in Indexes : /\ Leads(Now, rq[r].slot, y) /\ Agrees(y)
                                 /\ Plain => Settled(y, rq[r].slot)
           /\ Plain' => Plain /\ Simple
<1>1. "overlap" \notin met /\ UnderWay(r) /\ rq[r].slot \in Seq(Events) /\ rq[r] \in RequestType
      /\ rq[r].cid \in Connections /\ rq[r].identity \in OwnersOf(rq[r].cid) \cup {Nobody}
  BY SlotIsEvents DEF UnderWay, Sound
<1>2. Host(r) \in OwnersOf(rq[r].cid) /\ Host(r) \in Identities
  BY <1>1 DEF Host, OwnersOf, Identities
<1>3. Held(rq[r].cid) => /\ ownerOf[rq[r].cid] \in OwnersOf(rq[r].cid)
                         /\ ownerOf[rq[r].cid] \in Identities /\ ownerOf[rq[r].cid] \in userRows
  BY <1>1, OwnerIsOneOfItsOwn DEF Held, IInv, Tree, RowsTyped
<1>4. \E y \in Indexes : /\ Leads(Now, rq[r].slot, y) /\ Agrees(y)
                         /\ Plain => Settled(y, rq[r].slot)
  BY <1>1, OneFollows
<1>5. Alone /\ (Plain' => Plain /\ Simple)
  BY <1>1, PlainStays DEF MInv
<1> QED
  BY <1>1, <1>2, <1>3, <1>4, <1>5

\* The stores stay, and the parcels with what is said.
LEMMA OwedStays ==
    ASSUME NEW slot, NEW events, Owed(slot), Lasting(events) = Lasting(slot),
           UNCHANGED <<storeOf, carries, deposit>>,
           \A s \in Requests : rq'[s].parcel = rq[s].parcel
    PROVE  Owed(events)'
<1>1. ASSUME NEW user \in Identities, NEW work, Kept(user, work, slot)
      PROVE  Kept(user, work, events)'
  <2>1. Lasting(events)' = Lasting(slot)
    BY DEF Lasting
  <2> QED
    BY <1>1, <2>1 DEF Kept
<1> QED
  BY <1>1 DEF Owed

LEMMA NewPageMirrors ==
    ASSUME RegistersAssumption, IInv, MInv, "overlap" \notin met', NEW r \in Requests,
           NEW page \in Pages, NewPage(r, page)
    PROVE  MInv'
<1>1. PICK cid, user, held : /\ cid = rq[r].cid /\ held = Held(cid)
                             /\ user = IF Held(cid) THEN ownerOf[cid] ELSE Host(r)
  OBVIOUS
<1>2. PICK told : told = <<Event("new_page", user, {cid}, {page}, Nobody)>>
  OBVIOUS
<1>3. PICK arrival : arrival = IF Held(cid) THEN <<>> ELSE Arrival(cid, user)
  OBVIOUS
<1>4. /\ rq[r].at = "serving" /\ Brought(cid, user, {page})
      /\ met' = met \cup (IF Held(cid) THEN {} ELSE Relapse(r))
      /\ Says(r, arrival \o told)
      /\ UNCHANGED <<storeOf, deposit, lane, inbox, indexes, carries>>
  BY <1>1, <1>2, <1>3, Zenon DEF NewPage, Serving
<1>5. /\ "overlap" \notin met /\ Alone /\ cid \in Connections /\ rq[r].slot \in Seq(Events)
      /\ user \in OwnersOf(cid) /\ user \in Identities /\ met \subseteq met'
      /\ Held(cid) => user \in userRows
      /\ Plain' => Plain /\ Simple
  BY <1>1, <1>4, ServingFollows
<1>6. PICK slot \in Seq(Events) : slot = rq[r].slot
  BY <1>5
<1>7. PICK y \in Indexes : /\ Leads(Now, slot, y) /\ Agrees(y)
                           /\ Plain => Settled(y, slot)
  BY <1>4, <1>5, <1>6, ServingFollows
<1>8. PICK x \in Indexes : /\ x = IF Held(cid) THEN y ELSE Arrived(y, cid, user)
                           /\ Leads(y, arrival, x) /\ arrival \in Seq(Events)
  <2>1. CASE Held(cid)
    BY <1>3, <1>7, <2>1, LeadsNowhere
  <2>2. CASE ~Held(cid)
    BY <1>3, <1>5, <1>7, <2>2, ArrivalTold
  <2> QED
    BY <2>1, <2>2
<1>9. PICK z \in Indexes : z = Opens(x, cid, {page}) /\ Leads(x, told, z) /\ told \in Seq(Events)
  BY <1>2, <1>5, PagesTold
<1>10. PICK said \in Seq(Events) : said = arrival \o told
  BY <1>8, <1>9, SeqJoins
<1>11. Leads(y, said, z)
  BY <1>8, <1>9, <1>10, LeadsOn
<1>12. Speaks(r, said) /\ rq'[r].previous = rq[r].previous
       /\ \A s \in Requests : rq'[s].parcel = rq[s].parcel
  BY <1>4, <1>5, <1>10, SaysSpeaks
<1>13. /\ x.cum = (IF Held(cid) THEN y.cum ELSE Leading(y, cid, user)) /\ x.pcm = y.pcm
       /\ x.users = (IF Held(cid) THEN y.users ELSE y.users \cup {user})
       /\ x.placed = (IF Held(cid) THEN y.placed ELSE y.placed \cup {user})
       /\ x.hosted = (IF Held(cid) THEN y.hosted ELSE y.hosted \cup {user})
  BY <1>8 DEF Arrived, Index
<1>14. /\ z.cum = x.cum /\ z.users = x.users /\ z.placed = x.placed /\ z.hosted = x.hosted
       /\ z.pcm = [p \in Pages |-> IF p \in {page} THEN cid ELSE y.pcm[p]]
  BY <1>9, <1>13 DEF Opens, Index
<1>15. Agrees(z)'
  <2>1. z.cum[cid] = user /\ \A c \in Connections \ {cid} : z.cum[c] = y.cum[c]
    BY <1>1, <1>5, <1>7, <1>13, <1>14 DEF Agrees, Leading
  <2>2. y.users \cup {user} \subseteq z.users /\ y.hosted \cup {user} \subseteq z.hosted
    BY <1>5, <1>7, <1>13, <1>14 DEF Agrees
  <2>3. Heard(y, cid, user, {page}, z)
    BY <1>14, <2>1, <2>2 DEF Heard
  <2> QED
    BY <1>4, <1>5, <1>7, <2>3, BroughtAgrees
<1>16. \A other : ~Ends(other, said)
  <2>1. \A other : ~Ends(other, told)
    BY <1>2, EndsOnce DEF Event
  <2>2. \A other : ~Ends(other, arrival)
    BY <1>3, <1>5, ArrivalEndsNobody, EndsNever
  <2> QED
    BY <1>8, <1>9, <1>10, <2>1, <2>2, EndsJoins
<1>17. PICK events \in Seq(Events) : events = slot \o said
  BY <1>10, SeqJoins
<1>18. Lasting(events) = Lasting(slot)
  <2>1. Lasting(slot \o said) = {parcel \in Lasting(slot) : ~Ends(parcel.user, said)}
    BY LastingJoins
  <2> QED
    BY <1>16, <1>17, <2>1
<1>19. CASE ~Held(cid)
  <2>1. ASSUME Plain' PROVE Settled(z, events)' /\ Rooted' /\ Bare' /\ Person(r)'
    <3>1. Plain /\ Simple /\ Settled(y, slot) /\ rq[r].previous = Nobody
      BY <1>4, <1>5, <1>7, <1>19, <2>1 DEF Plain, Relapse
    <3>2. Rooted /\ Arriving(r, y, slot, events, cid, user, {page}, z)
      BY <1>1, <1>4, <1>12, <1>13, <1>14, <1>18, <1>19, <3>1 DEF Simple, Arriving, Speaks
    <3>3. /\ \A other \in userRows' : other \in z.placed
          /\ z.hosted \subseteq userRows' /\ Lodged(z, events)' /\ Rooted'
      BY <1>5, <3>2, ArrivingSettles
    <3>4. Owed(events)'
      BY <1>4, <1>12, <1>18, <3>1, OwedStays DEF Settled
    <3>5. Bare' /\ Person(r)'
      BY <1>4, <1>12, <3>1 DEF Simple, Bare, Person, Brought
    <3> QED
      BY <3>3, <3>4, <3>5 DEF Settled
  <2> QED
    BY <1>5, <1>6, <1>7, <1>11, <1>12, <1>15, <1>17, <2>1, SpeaksKeep
<1>20. CASE Held(cid)
  <2>1. UNCHANGED <<userRows, connectionsOf, ownerOf>>
    BY <1>1, <1>4, <1>5, <1>20 DEF Brought, IInv, Tree, RowsTyped, EdgesAgree
  <2>2. z.cum = y.cum /\ z.placed = y.placed /\ z.hosted = y.hosted
    BY <1>13, <1>14, <1>20
  <2>3. ASSUME Plain' PROVE Settled(z, events)' /\ Rooted' /\ Bare' /\ Person(r)'
    <3>1. Plain /\ Simple /\ Settled(y, slot)
      BY <1>5, <1>7, <2>3
    <3>2. \A s \in Requests \ {r} : rq'[s] = rq[s]
      BY <1>12 DEF Speaks, Steps
    <3>3. ASSUME NEW other, Newcomer(other) PROVE Newcomer(other)'
      BY <1>12, <2>1, <3>2, <3>3 DEF Newcomer, Speaks
    <3>4. Lasting(events)' = Lasting(slot)
      BY <1>4, <1>18 DEF Lasting
    <3>5. Lodged(y, slot)
      BY <3>1 DEF Settled
    <3>6. \A s \in Requests : rq'[s].at \in {"reading", "serving"} =>
             rq[s].at \in {"reading", "serving"} /\ rq'[s].cid = rq[s].cid
      BY <1>12, <3>2 DEF Speaks
    <3>7. Lodged(z, events)'
      BY <2>1, <2>2, <3>4, <3>5, <3>6 DEF Lodged, Held
    <3>8. Owed(events)'
      BY <1>4, <1>12, <1>18, <3>1, OwedStays DEF Settled
    <3>9. Rooted' /\ Bare'
      BY <1>4, <2>1, <3>1 DEF Simple, Rooted, Bare
    <3>10. \A other : Dropped(r, other)' <=> Dropped(r, other)
      BY <1>5, <1>12, <1>16, DroppedSays
    <3>11. Person(r)'
      <4>1. PICK owner : owner = ownerOf[cid]
        OBVIOUS
      <4>2. ownerOf'[rq'[r].cid] = owner /\ (Dropped(r, owner)' <=> Dropped(r, owner))
        BY <1>1, <1>12, <2>1, <3>10, <4>1 DEF Speaks
      <4>3. Dropped(r, ownerOf[rq[r].cid])' <=> Dropped(r, owner)'
        BY <4>2
      <4> QED
        BY <1>1, <1>12, <1>20, <3>1, <4>1, <4>2, <4>3 DEF Simple, Person, Speaks, Steps, Held
    <3> QED
      BY <2>1, <2>2, <3>1, <3>3, <3>7, <3>8, <3>9, <3>11 DEF Settled
  <2> QED
    BY <1>5, <1>6, <1>7, <1>11, <1>12, <1>15, <1>17, <2>3, SpeaksKeep
<1> QED
  BY <1>19, <1>20

\* A drop of the site: rows of the user go, with all they hold, and he with the last of them.
Dropping(r, user, pages, cids, users) ==
    /\ rq[r].at = "serving" /\ user \in userRows
    /\ cids \subseteq connectionsOf[user]
    /\ \A cid \in cids : pagesOf[cid] \subseteq pages
    /\ users = IF connectionsOf[user] \subseteq cids THEN {user} ELSE {}
    /\ Taken(pages, cids, users) /\ carries' = Forgiven(users)
    /\ Says(r, Drop(user, pages, cids, users))
    /\ UNCHANGED <<deposit, lane, inbox, indexes, met>>

LEMMA DroppingAgrees ==
    ASSUME RegistersAssumption, IInv, NEW y \in Indexes, Agrees(y), NEW r, NEW user \in Identities,
           NEW pages \in SUBSET Pages, NEW cids \in SUBSET Connections, NEW users,
           Dropping(r, user, pages, cids, users)
    PROVE  Agrees(Gone(y, pages, users))'
<1> DEFINE z == Gone(y, pages, users)
<1>1. /\ z.cum = [cid \in Connections |-> IF y.cum[cid] \in users THEN Nobody ELSE y.cum[cid]]
      /\ z.pcm = [page \in Pages |-> IF page \in pages THEN Nobody ELSE y.pcm[page]]
      /\ z.users = y.users \ users /\ z.hosted = y.hosted \ users
  BY DEF Gone, Index
<1> HIDE DEF z
<1>2. z.pcm = connectionOf'
  BY <1>1 DEF Agrees, Dropping, Taken
<1>3. ASSUME NEW c \in Connections, ownerOf'[c] # Nobody PROVE z.cum[c] = ownerOf'[c]
  <2>1. c \notin cids /\ ownerOf'[c] = ownerOf[c] /\ y.cum[c] = ownerOf[c]
    BY <1>3 DEF Dropping, Taken, Agrees, Held
  <2>2. ownerOf[c] = user => c \in connectionsOf[user]
    BY DEF IInv, Tree, EdgesAgree
  <2>3. ownerOf[c] \notin users
    BY <2>1, <2>2 DEF Dropping
  <2> QED
    BY <1>1, <2>1, <2>3
<1>4. userRows' \subseteq z.users \cap z.hosted
  BY <1>1 DEF Agrees, Dropping, Taken
<1> QED
  BY <1>2, <1>3, <1>4 DEF Agrees, Held, z

LEMMA DroppingSettles ==
    ASSUME RegistersAssumption, IInv, Alone, Simple, NEW r \in Requests,
           NEW y, NEW slot \in Seq(Events), Settled(y, slot), NEW user \in Identities,
           NEW pages \in SUBSET Pages, NEW cids \in SUBSET Connections, NEW users,
           Dropping(r, user, pages, cids, users),
           NEW said \in Seq(Events), \A other : Ends(other, said) <=> other \in users,
           Speaks(r, said), rq'[r].previous = rq[r].previous,
           \A s \in Requests : rq'[s].parcel = rq[s].parcel
    PROVE  Settled(Gone(y, pages, users), slot \o said)' /\ Rooted' /\ Bare' /\ Person(r)'
<1> DEFINE z == Gone(y, pages, users)
<1>1. /\ z.cum = [cid \in Connections |-> IF y.cum[cid] \in users THEN Nobody ELSE y.cum[cid]]
      /\ z.placed = y.placed \ users /\ z.hosted = y.hosted \ users
  BY DEF Gone, Index
<1> HIDE DEF z
<1>2. /\ userRows' = userRows \ users /\ users \subseteq {user} /\ rq[r].cid \in Connections
      /\ \A other \in Identities : connectionsOf'[other] = connectionsOf[other] \ cids
      /\ \A c \in Connections : ownerOf'[c] = IF c \in cids THEN Nobody ELSE ownerOf[c]
      /\ \A other \in Identities : storeOf'[other] = IF other \in users THEN {} ELSE storeOf[other]
  BY SlotIsEvents DEF Dropping, Taken, Sound, IInv, Tree, RowsTyped
<1>3. ASSUME NEW other \in Identities, other # user PROVE connectionsOf[other] \cap cids = {}
  BY <1>3 DEF Dropping, IInv, Tree, EdgesAgree
<1>4. \A s \in Requests \ {r} : rq[s].at \in {"new", "done"} /\ rq'[s] = rq[s]
  BY DEF Alone, Speaks, Steps, UnderWay
<1>5. ASSUME NEW other \in userRows', Newcomer(other) PROVE Newcomer(other)'
  <2>1. /\ rq[r].previous # Nobody /\ ownerOf[rq[r].cid] = other
        /\ connectionsOf[other] = {rq[r].cid} /\ other \in Identities
    BY <1>2, <1>5, ServingAlone DEF Dropping, IInv, Tree, RowsTyped
  <2>2. rq[r].cid \notin cids
    <3>1. CASE other = user
      BY <1>2, <1>5, <2>1, <3>1 DEF Dropping
    <3>2. CASE other # user
      BY <1>3, <2>1, <3>2
    <3> QED
      BY <3>1, <3>2
  <2>3. ownerOf'[rq'[r].cid] = other /\ connectionsOf'[other] = {rq'[r].cid}
    BY <1>2, <2>1, <2>2 DEF Speaks
  <2> QED
    BY <2>1, <2>3 DEF Newcomer, Speaks
<1>6. PICK events \in Seq(Events) : events = slot \o said
  BY SeqJoins
<1>7. Lasting(events)' = {parcel \in Lasting(slot) : parcel.user \notin users}
  <2>1. Lasting(slot \o said) = {parcel \in Lasting(slot) : ~Ends(parcel.user, said)}
    BY LastingJoins
  <2>2. Lasting(events)' = Lasting(events)
    BY DEF Lasting, Dropping
  <2> QED
    BY <1>6, <2>1, <2>2
<1>8. Lodged(z, events)'
  <2>1. Lodged(y, slot)
    BY DEF Settled
  <2>2. ASSUME NEW parcel \in Lasting(slot), parcel.user \notin users
        PROVE  ownerOf'[parcel.cid] = Nobody /\ z.cum[parcel.cid] = parcel.user
    <3>1. parcel.cid \in Connections
      BY DEF Lasting, IInv, Packed, Parcels
    <3>2. ownerOf[parcel.cid] = Nobody /\ y.cum[parcel.cid] = parcel.user
      BY <2>1 DEF Lodged, Held
    <3> QED
      BY <1>1, <1>2, <2>2, <3>1, <3>2
  <2>3. \A s \in Requests : rq'[s].at \in {"reading", "serving"} =>
           rq[s].at \in {"reading", "serving"} /\ rq'[s].cid = rq[s].cid
    BY <1>4 DEF Speaks
  <2> QED
    BY <1>7, <2>1, <2>2, <2>3 DEF Lodged, Held
<1>9. Owed(events)'
  <2>1. ASSUME NEW other \in Identities, other \notin users, NEW work, Kept(other, work, slot)
        PROVE  Kept(other, work, events)'
    BY <1>2, <1>7, <2>1 DEF Kept
  <2>2. ASSUME NEW other \in Identities
        PROVE  carries'[other] = IF other \in users THEN {} ELSE carries[other]
    BY DEF Dropping, Forgiven
  <2> QED
    BY <2>1, <2>2 DEF Settled, Owed
<1>10. Rooted'
  <2>1. ASSUME NEW other \in userRows' PROVE connectionsOf'[other] # {}
    <3>1. other \in Identities /\ other \in userRows /\ connectionsOf[other] # {}
      BY <1>2 DEF Simple, Rooted, IInv, Tree, RowsTyped
    <3>2. CASE other = user
      BY <1>2, <3>1, <3>2 DEF Dropping
    <3>3. CASE other # user
      BY <1>2, <1>3, <3>1, <3>3
    <3> QED
      BY <3>2, <3>3
  <2> QED
    BY <2>1 DEF Rooted
<1>11. Bare'
  BY <1>2 DEF Simple, Bare
<1>12. Person(r)'
  <2>1. SUFFICES ASSUME rq'[r].previous # Nobody, ownerOf'[rq'[r].cid] # Nobody
                 PROVE  /\ rq'[r].previous \in Connections
                        /\ ownerOf'[rq'[r].cid] \in Persons /\ ~Dropped(r, ownerOf[rq[r].cid])'
    BY DEF Person, Held
  <2>2. PICK owner : owner = ownerOf[rq[r].cid]
    OBVIOUS
  <2>3. ownerOf'[rq'[r].cid] = owner /\ rq[r].cid \notin cids /\ owner # Nobody
    BY <1>2, <2>1, <2>2 DEF Speaks
  <2>4. rq[r].previous \in Connections /\ owner \in Persons /\ ~Dropped(r, owner)
    BY <2>1, <2>2, <2>3 DEF Simple, Person, Held, Dropping, UnderWay
  <2>5. owner \notin users
    <3>1. rq[r].cid \in connectionsOf[owner]
      BY <1>2, <2>2, <2>4 DEF IInv, Tree, EdgesAgree, Identities
    <3> QED
      BY <1>2, <2>3, <3>1 DEF Dropping
  <2>6. ~Dropped(r, owner)'
    BY <2>4, <2>5, SlotIsEvents, DroppedSays
  <2>7. Dropped(r, ownerOf[rq[r].cid])' <=> Dropped(r, owner)'
    BY <2>3
  <2> QED
    BY <2>3, <2>4, <2>6, <2>7
<1>13. \A other \in userRows' : other \in z.placed \/ Newcomer(other)'
  BY <1>1, <1>2, <1>5 DEF Settled
<1>14. z.hosted \subseteq userRows'
  BY <1>1, <1>2 DEF Settled
<1>15. Settled(z, events)'
  BY <1>8, <1>9, <1>13, <1>14 DEF Settled
<1> QED
  BY <1>6, <1>10, <1>11, <1>12, <1>15 DEF z

LEMMA DroppingMirrors ==
    ASSUME RegistersAssumption, IInv, MInv, "overlap" \notin met', NEW r \in Requests,
           NEW user \in Identities, NEW pages \in SUBSET Pages, NEW cids \in SUBSET Connections,
           NEW users, Dropping(r, user, pages, cids, users)
    PROVE  MInv'
<1>1. /\ rq[r].at = "serving" /\ UNCHANGED <<deposit, lane, inbox, indexes>> /\ met \subseteq met'
      /\ Says(r, Drop(user, pages, cids, users))
      /\ users \in {{}, {user}} /\ \A other \in users : connectionsOf[other] \subseteq cids
      /\ \A cid \in cids : pagesOf[cid] \subseteq pages
  BY DEF Dropping
<1>2. \A cid \in cids : user \in OwnersOf(cid)
  <2>1. SUFFICES ASSUME NEW cid \in cids PROVE user \in OwnersOf(cid)
    OBVIOUS
  <2>2. ownerOf[cid] = user
    BY DEF Dropping, IInv, Tree, EdgesAgree
  <2> QED
    BY <2>2, OwnerIsOneOfItsOwn DEF RegistersAssumption, Identities, IInv
<1>3. /\ "overlap" \notin met /\ Alone /\ rq[r].slot \in Seq(Events)
      /\ Plain' => Plain /\ Simple
  BY <1>1, ServingFollows
<1>4. PICK slot \in Seq(Events) : slot = rq[r].slot
  BY <1>3
<1>5. PICK y \in Indexes : /\ Leads(Now, slot, y) /\ Agrees(y)
                           /\ Plain => Settled(y, slot)
  BY <1>1, <1>3, <1>4, ServingFollows
<1>6. /\ Gone(y, pages, users) \in Indexes
      /\ Leads(y, Drop(user, pages, cids, users), Gone(y, pages, users))
      /\ Drop(user, pages, cids, users) \in Seq(Events)
  BY <1>1, <1>2, <1>5, DropTold
<1>7. PICK z \in Indexes, said \in Seq(Events) :
        z = Gone(y, pages, users) /\ said = Drop(user, pages, cids, users)
  BY <1>6
<1>8. /\ Speaks(r, said) /\ rq'[r].previous = rq[r].previous
      /\ \A s \in Requests : rq'[s].parcel = rq[s].parcel
  BY <1>1, <1>7, SaysSpeaks
<1>9. Agrees(z)'
  <2>1. Agrees(Gone(y, pages, users))'
    BY <1>5, DroppingAgrees
  <2> QED
    BY <1>7, <2>1
<1>10. ASSUME Plain' PROVE Settled(z, slot \o said)' /\ Rooted' /\ Bare' /\ Person(r)'
  <2>1. \A other : Ends(other, said) <=> other \in users
    BY <1>1, <1>2, <1>7, DropEnds
  <2>2. Settled(Gone(y, pages, users), slot \o said)' /\ Rooted' /\ Bare' /\ Person(r)'
    BY <1>3, <1>5, <1>8, <1>10, <2>1, DroppingSettles
  <2> QED
    BY <1>7, <2>2
<1> QED
  BY <1>3, <1>4, <1>5, <1>6, <1>7, <1>8, <1>9, <1>10, SpeaksKeep

LEMMA DropPageMirrors ==
    ASSUME RegistersAssumption, IInv, MInv, "overlap" \notin met', NEW r \in Requests,
           NEW page \in Pages, DropPage(r, page)
    PROVE  MInv'
<1> DEFINE cid == connectionOf[page]
           user == ownerOf[cid]
           cids == IF pagesOf[cid] = {page} THEN {cid} ELSE {}
           users == IF cids # {} /\ connectionsOf[user] = {cid} THEN {user} ELSE {}
<1>1. /\ Serving(r) /\ cid # Nobody /\ Taken({page}, cids, users) /\ carries' = Forgiven(users)
      /\ Says(r, <<Event("drop_pages", user, {}, {page}, Nobody)>>
                   \o (IF cids = {} THEN <<>>
                       ELSE <<Event("drop_connections", user, cids, {}, Nobody)>>)
                   \o (IF users = {} THEN <<>>
                       ELSE <<Event("drop_user", user, {}, {}, Nobody)>>))
      /\ UNCHANGED <<deposit, lane, inbox, indexes, born, met>>
  BY Zenon DEF DropPage
<1>2. cid \in Connections /\ page \in pagesOf[cid]
  BY <1>1 DEF IInv, Tree, EdgesAgree, RowsTyped
<1>3. user # Nobody /\ user \in Identities /\ user \in userRows /\ cid \in connectionsOf[user]
  BY <1>2 DEF IInv, Tree, EdgesAgree, RowsTyped
<1>4. cids \subseteq connectionsOf[user] /\ \A c \in cids : pagesOf[c] \subseteq {page}
  BY <1>3
<1>5. users = IF connectionsOf[user] \subseteq cids THEN {user} ELSE {}
  BY <1>3
<1>6. PagesGone(user, {page}) = <<Event("drop_pages", user, {}, {page}, Nobody)>>
  BY DEF PagesGone
<1> HIDE DEF cid, user, cids, users
<1>7. Says(r, Drop(user, {page}, cids, users))
  BY <1>1, <1>6 DEF Drop
<1>8. Dropping(r, user, {page}, cids, users)
  BY <1>1, <1>3, <1>4, <1>5, <1>7 DEF Dropping, Serving
<1>9. cids \in SUBSET Connections
  BY <1>2 DEF cids
<1> QED
  BY <1>3, <1>8, <1>9, DroppingMirrors

LEMMA DropConnectionMirrors ==
    ASSUME RegistersAssumption, IInv, MInv, "overlap" \notin met', NEW r \in Requests,
           NEW cid \in Connections, DropConnection(r, cid)
    PROVE  MInv'
<1> DEFINE user == ownerOf[cid]
           users == IF connectionsOf[user] = {cid} THEN {user} ELSE {}
<1>1. /\ Serving(r) /\ Held(cid) /\ Taken(pagesOf[cid], {cid}, users) /\ carries' = Forgiven(users)
      /\ Says(r, PagesGone(user, pagesOf[cid])
                   \o <<Event("drop_connections", user, {cid}, {}, Nobody)>>
                   \o (IF users = {} THEN <<>>
                       ELSE <<Event("drop_user", user, {}, {}, Nobody)>>))
      /\ UNCHANGED <<deposit, lane, inbox, indexes, born, met>>
  BY Zenon DEF DropConnection
<1>2. user \in Identities /\ user \in userRows /\ cid \in connectionsOf[user]
      /\ pagesOf[cid] \in SUBSET Pages
  BY <1>1 DEF IInv, Tree, EdgesAgree, RowsTyped, Held
<1>3. users = IF connectionsOf[user] \subseteq {cid} THEN {user} ELSE {}
  BY <1>2
<1> HIDE DEF user, users
<1>4. Says(r, Drop(user, pagesOf[cid], {cid}, users))
  BY <1>1 DEF Drop
<1>5. Dropping(r, user, pagesOf[cid], {cid}, users)
  BY <1>1, <1>2, <1>3, <1>4 DEF Dropping, Serving
<1> QED
  BY <1>2, <1>5, DroppingMirrors

LEMMA DropUserMirrors ==
    ASSUME RegistersAssumption, IInv, MInv, "overlap" \notin met', NEW r \in Requests,
           NEW user \in Identities, DropUser(r, user)
    PROVE  MInv'
<1> DEFINE cids == connectionsOf[user]
           pages == PagesUnder(cids)
<1>1. /\ Serving(r) /\ user \in userRows /\ Taken(pages, cids, {user})
      /\ carries' = Forgiven({user})
      /\ Says(r, PagesGone(user, pages)
                   \o (IF cids = {} THEN <<>>
                       ELSE <<Event("drop_connections", user, cids, {}, Nobody)>>)
                   \o <<Event("drop_user", user, {}, {}, Nobody)>>)
      /\ UNCHANGED <<deposit, lane, inbox, indexes, born, met>>
  BY Zenon DEF DropUser
<1>2. cids \in SUBSET Connections /\ pages \in SUBSET Pages /\ \A c \in cids : pagesOf[c] \subseteq pages
  BY DEF IInv, Tree, RowsTyped, PagesUnder
<1>3. Says(r, Drop(user, pages, cids, {user}))
  BY <1>1 DEF Drop
<1> HIDE DEF pages
<1>4. Dropping(r, user, pages, cids, {user})
  BY <1>1, <1>2, <1>3 DEF Dropping, Serving
<1> QED
  BY <1>2, <1>4, DroppingMirrors

LEMMA WorkMirrors ==
    ASSUME RegistersAssumption, IInv, MInv, "overlap" \notin met', NEW r \in Requests, Work(r)
    PROVE  MInv'
<1>1. PICK cid, user : cid = rq[r].cid /\ user = ownerOf[cid]
  OBVIOUS
<1>2. /\ rq[r].at = "serving" /\ Held(cid) /\ Says(r, <<>>)
      /\ storeOf' = [storeOf EXCEPT ![user] = @ \cup {user}]
      /\ carries' = [carries EXCEPT ![user] = @ \cup {user}]
      /\ UNCHANGED <<userRows, connectionsOf, ownerOf, pagesOf, connectionOf, deposit, lane,
                     inbox, indexes, born, met>>
  BY <1>1, Zenon DEF Work, Serving
<1>3. /\ "overlap" \notin met /\ Alone /\ rq[r].slot \in Seq(Events) /\ cid \in Connections
      /\ user \in Identities /\ user \in userRows
      /\ Plain' => Plain /\ Simple
  BY <1>1, <1>2, ServingFollows
<1>4. PICK slot \in Seq(Events) : slot = rq[r].slot
  BY <1>3
<1>5. PICK y \in Indexes : /\ Leads(Now, slot, y) /\ Agrees(y)
                           /\ Plain => Settled(y, slot)
  BY <1>2, <1>3, <1>4, ServingFollows
<1>6. PICK said \in Seq(Events) : said = <<>>
  <2>1. <<>> \in Seq(Events)
    OBVIOUS
  <2> QED
    BY <2>1
<1>7. /\ Speaks(r, said) /\ rq'[r].previous = rq[r].previous
      /\ \A s \in Requests : rq'[s].parcel = rq[s].parcel
  BY <1>2, <1>6, SaysSpeaks
<1>8. slot \o said = slot /\ Leads(y, said, y)
  BY <1>6, LeadsNowhere
<1>9. Agrees(y)'
  BY <1>2, <1>5, AgreesStays
<1>10. ASSUME Plain' PROVE Settled(y, slot)' /\ Rooted' /\ Bare' /\ Person(r)'
  <2>1. Plain /\ Simple /\ Settled(y, slot)
    BY <1>3, <1>5, <1>10
  <2>2. \A s \in Requests \ {r} : rq'[s] = rq[s]
    BY <1>7 DEF Speaks, Steps
  <2>3. ASSUME NEW other, Newcomer(other) PROVE Newcomer(other)'
    BY <1>2, <1>7, <2>2, <2>3 DEF Newcomer, Speaks
  <2>4. Lasting(slot)' = Lasting(slot)
    BY <1>2 DEF Lasting
  <2>5. Lodged(y, slot)'
    <3>1. Lodged(y, slot)
      BY <2>1 DEF Settled
    <3>2. \A s \in Requests : rq'[s].at \in {"reading", "serving"} =>
             rq[s].at \in {"reading", "serving"} /\ rq'[s].cid = rq[s].cid
      BY <1>7, <2>2 DEF Speaks
    <3> QED
      BY <1>2, <2>4, <3>1, <3>2 DEF Lodged, Held
  <2>6. Owed(slot)'
    <3>1. ASSUME NEW other \in Identities, NEW work, Kept(other, work, slot)
          PROVE  Kept(other, work, slot)'
      <4>1. work \in storeOf[other] => work \in storeOf'[other]
        BY <1>2, <1>3 DEF IInv, StoresTyped
      <4> QED
        BY <1>7, <2>4, <3>1, <4>1 DEF Kept
    <3>2. ASSUME NEW other \in Identities, NEW work \in carries'[other]
          PROVE  work \in carries[other] \/ work \in storeOf'[other]
      BY <1>2, <1>3 DEF IInv, StoresTyped
    <3> QED
      BY <2>1, <3>1, <3>2 DEF Settled, Owed, Kept
  <2>7. Rooted' /\ Bare'
    BY <1>2, <1>3, <2>1 DEF Simple, Rooted, Bare, IInv, StoresTyped
  <2>8. Person(r)'
    <3>1. PICK owner : owner = user
      OBVIOUS
    <3>2. ~Ends(owner, said)
      BY <1>6, EndsNever
    <3>3. Dropped(r, owner)' <=> Dropped(r, owner)
      BY <1>3, <1>7, <3>2, DroppedSays
    <3>4. Dropped(r, ownerOf[rq[r].cid])' <=> Dropped(r, owner)'
      BY <1>1, <1>2, <1>7, <3>1 DEF Speaks
    <3>5. ownerOf'[rq'[r].cid] = owner /\ ownerOf[rq[r].cid] = owner /\ UnderWay(r)
      BY <1>1, <1>2, <1>7, <3>1 DEF Speaks, Steps
    <3> QED
      BY <1>1, <1>2, <1>7, <2>1, <3>3, <3>4, <3>5 DEF Simple, Person
  <2> QED
    BY <1>2, <2>1, <2>3, <2>5, <2>6, <2>7, <2>8 DEF Settled
<1>11. Plain' => /\ Settled(y, slot \o said)'
                 /\ Rooted' /\ Bare' /\ Person(r)'
  BY <1>8, <1>10
<1> QED
  BY <1>3, <1>4, <1>5, <1>7, <1>8, <1>9, <1>11, SpeaksKeep

-----------------------------------------------------------------------------
(* The logins.                                                             *)

LEMMA LastIsJoined ==
    ASSUME NEW S, NEW s \in Seq(S), NEW e \in S PROVE Append(s, e) = s \o <<e>>
OBVIOUS

LEMMA LoggedInSpeaks ==
    ASSUME RegistersAssumption, IInv, MInv, "overlap" \notin met', NEW r \in Requests,
           rq[r].at = "serving", NEW user \in Persons, NEW previous \in Identities,
           NEW cid, cid = rq[r].cid, LoggedIn(r, cid, user, previous),
           NEW said, said = <<Event("connection_user_changed", user, {cid}, {}, previous)>>
    PROVE  /\ said \in Seq(Events) /\ \A other : ~Ends(other, said)
           /\ Speaks(r, said) /\ rq'[r].previous = previous
           /\ \A s \in Requests : rq'[s].parcel = rq[s].parcel
<1> DEFINE e == Event("connection_user_changed", user, {cid}, {}, previous)
           q == [rq[r] EXCEPT !.verbs = @ + 1, !.previous = previous, !.slot = Append(@, e)]
<1>1. rq[r] \in RequestType /\ UnderWay(r) /\ rq[r].slot \in Seq(Events) /\ cid \in Connections
  BY SlotIsEvents DEF UnderWay, Sound
<1>2. user \in OwnersOf(cid) /\ user \in Identities
  BY DEF OwnersOf, Identities
<1>3. e \in Events
  BY <1>1, <1>2, EventIsTyped DEF Verbs
<1>4. e.op = "connection_user_changed"
  BY DEF Event
<1>5. said \in Seq(Events) /\ \A other : ~Ends(other, said)
  BY <1>3, <1>4, EndsOnce
<1>6. rq' = [rq EXCEPT ![r] = q] /\ UNCHANGED <<deposit, lane, inbox, indexes, met>>
  BY DEF LoggedIn
<1> HIDE DEF e
<1>7. Append(rq[r].slot, e) = rq[r].slot \o said
  <2>1. said = <<e>>
    BY DEF e
  <2>2. Append(rq[r].slot, e) = rq[r].slot \o <<e>>
    BY <1>1, <1>3, LastIsJoined
  <2> QED
    BY <2>1, <2>2
<1>8. /\ q.at = "serving" /\ q.slot = rq[r].slot \o said /\ q.cid = rq[r].cid
      /\ q.previous = previous /\ q.identity = rq[r].identity /\ q.parcel = rq[r].parcel
  BY <1>1, <1>7 DEF RequestType
<1> HIDE DEF q
<1>9. Steps(r) /\ rq'[r] = q
  BY <1>1, <1>6, <1>8, RqMoves
<1> QED
  BY <1>5, <1>6, <1>8, <1>9 DEF Speaks, Steps

LEMMA LogInAgrees ==
    ASSUME RegistersAssumption, IInv, NEW y \in Indexes, Agrees(y), NEW cid \in Connections,
           NEW user \in Identities, NEW previous,
           ownerOf' = [ownerOf EXCEPT ![cid] = user], connectionOf' = connectionOf,
           userRows' \subseteq userRows \cup {user},
           previous \in Connections => previous \notin userRows'
    PROVE  Agrees(LogsIn(y, cid, user, previous))'
<1> DEFINE z == LogsIn(y, cid, user, previous)
           left == {previous} \cap Connections
<1>1. /\ z.cum = Leading(y, cid, user) /\ z.pcm = y.pcm /\ z.users = (y.users \cup {user}) \ left
      /\ z.hosted = (y.hosted \ left) \cup {user}
  BY DEF LogsIn, Index
<1> HIDE DEF z
<1>2. z.pcm = connectionOf'
  BY <1>1 DEF Agrees
<1>3. \A c \in Connections : ownerOf'[c] # Nobody => z.cum[c] = ownerOf'[c]
  BY <1>1 DEF Agrees, Held, Leading, IInv, Tree, RowsTyped
<1>4. userRows' \subseteq z.users \cap z.hosted
  BY <1>1 DEF Agrees
<1> QED
  BY <1>2, <1>3, <1>4 DEF Agrees, Held, z

\* The guest of cid becomes the person, or joins him.
GuestLogsIn(r, cid, user) ==
    /\ rq[r].at = "serving" /\ cid = rq[r].cid /\ ownerOf[cid] = cid /\ rq[r].previous = Nobody
    /\ userRows' = (userRows \cup {user}) \ {cid}
    /\ \A other \in Identities :
         connectionsOf'[other] = IF other = user THEN connectionsOf[user] \cup {cid}
                                 ELSE connectionsOf[other] \ {cid}
    /\ ownerOf' = [ownerOf EXCEPT ![cid] = user]
    /\ \A other \in Identities \ {user} :
         storeOf'[other] = IF other = cid THEN {} ELSE storeOf[other]
    /\ ~Dropped(r, user) /\ deposit' = deposit

LEMMA LogInSettles ==
    ASSUME RegistersAssumption, IInv, Alone, Simple, NEW r \in Requests, NEW cid \in Connections,
           NEW user \in Persons, GuestLogsIn(r, cid, user),
           NEW y, NEW slot, Settled(y, slot), NEW events, Lasting(events) = Lasting(slot),
           NEW said \in Seq(Events), \A other : ~Ends(other, said),
           Speaks(r, said), rq'[r].previous = cid
    PROVE  /\ \A other \in userRows' :
                other \in LogsIn(y, cid, user, cid).placed \/ Newcomer(other)'
           /\ LogsIn(y, cid, user, cid).hosted \subseteq userRows'
           /\ Lodged(LogsIn(y, cid, user, cid), events)'
           /\ Rooted' /\ Bare' /\ Person(r)'
<1> DEFINE z == LogsIn(y, cid, user, cid)
<1>1. /\ z.cum = Leading(y, cid, user) /\ z.placed = y.placed \ {cid}
      /\ z.hosted = (y.hosted \ {cid}) \cup {user}
  BY DEF LogsIn, Index
<1> HIDE DEF z
<1>2. user # cid /\ user \in Identities /\ user # Nobody /\ cid # Nobody /\ cid \in Identities
  BY DEF RegistersAssumption, Identities
<1>3. \A s \in Requests \ {r} : rq[s].at \in {"new", "done"} /\ rq'[s] = rq[s]
  BY DEF Alone, Speaks, Steps, UnderWay
<1>4. \A other \in userRows : other \in y.placed
  BY ServingAlone DEF Settled, GuestLogsIn
<1>5. ASSUME NEW other \in userRows' PROVE other \in z.placed \/ Newcomer(other)'
  <2>1. CASE other \in userRows
    BY <1>1, <1>4, <1>5, <2>1 DEF GuestLogsIn
  <2>2. CASE other \notin userRows
    <3>1. other = user
      BY <1>5, <2>2 DEF GuestLogsIn
    <3>2. connectionsOf[user] = {}
      BY <1>2, <2>2, <3>1 DEF IInv, Tree, EdgesAgree, RowsTyped
    <3>3. connectionsOf'[user] = {cid} /\ ownerOf'[cid] = user
      BY <1>2, <3>2 DEF GuestLogsIn, IInv, Tree, RowsTyped
    <3> QED
      BY <1>2, <3>1, <3>3 DEF Newcomer, Speaks, GuestLogsIn
  <2> QED
    BY <2>1, <2>2
<1>6. z.hosted \subseteq userRows'
  BY <1>1, <1>2 DEF Settled, GuestLogsIn
<1>7. Lodged(z, events)'
  <2>1. Lodged(y, slot)
    BY DEF Settled
  <2>2. Lasting(events)' = Lasting(slot)
    BY DEF Lasting, GuestLogsIn
  <2>3. ASSUME NEW parcel \in Lasting(slot)
        PROVE  /\ parcel.cid # cid /\ ownerOf'[parcel.cid] = Nobody
               /\ z.cum[parcel.cid] = parcel.user
    <3>1. parcel.cid \in Connections
      BY DEF Lasting, IInv, Packed, Parcels
    <3>2. /\ ~Held(parcel.cid) /\ y.cum[parcel.cid] = parcel.user
          /\ \A s \in Requests : rq[s].at \in {"reading", "serving"} => parcel.cid # rq[s].cid
      BY <2>1, Zenon DEF Lodged
    <3>3. parcel.cid # cid
      BY <3>2 DEF GuestLogsIn
    <3> QED
      BY <1>1, <3>1, <3>2, <3>3 DEF GuestLogsIn, Leading, Held, IInv, Tree, RowsTyped
  <2>4. \A s \in Requests : rq'[s].at \in {"reading", "serving"} => rq'[s].cid = cid
    BY <1>3 DEF Speaks, GuestLogsIn
  <2> QED
    BY <2>1, <2>2, <2>3, <2>4 DEF Lodged, Held
<1>8. Rooted'
  <2>1. ASSUME NEW other \in userRows' PROVE connectionsOf'[other] # {}
    <3>1. CASE other = user
      BY <1>2, <3>1 DEF GuestLogsIn
    <3>2. CASE other # user
      <4>1. other \in userRows /\ other # cid /\ other \in Identities /\ connectionsOf[other] # {}
        BY <3>2 DEF GuestLogsIn, Simple, Rooted, IInv, Tree, RowsTyped
      <4>2. cid \notin connectionsOf[other]
        BY <4>1 DEF GuestLogsIn, IInv, Tree, EdgesAgree
      <4>3. connectionsOf'[other] = connectionsOf[other] \ {cid}
        BY <3>2, <4>1 DEF GuestLogsIn
      <4> QED
        BY <4>1, <4>2, <4>3
    <3> QED
      BY <3>1, <3>2
  <2> QED
    BY <2>1 DEF Rooted
<1>9. Bare'
  BY <1>2 DEF GuestLogsIn, Simple, Bare
<1>10. Person(r)'
  <2>1. ~Dropped(r, user)'
    BY SlotIsEvents, DroppedSays DEF GuestLogsIn
  <2>2. ownerOf'[rq'[r].cid] = user
    BY DEF GuestLogsIn, Speaks, IInv, Tree, RowsTyped
  <2>4. Dropped(r, ownerOf[rq[r].cid])' <=> Dropped(r, user)'
    BY <2>2
  <2> QED
    BY <2>1, <2>2, <2>4 DEF Person
<1> QED
  BY <1>5, <1>6, <1>7, <1>8, <1>9, <1>10 DEF z

\* The person has what he had, or what the guest had as well.
Bequeathed(cid, user) ==
    /\ carries'[cid] = {}
    /\ \A other \in Identities \ {cid} : storeOf[other] \subseteq storeOf'[other]
    /\ \A other \in Identities \ {cid, user} : carries'[other] \subseteq carries[other]
    /\ \/ carries'[user] \subseteq carries[user]
       \/ carries'[user] \subseteq carries[user] \cup carries[cid] /\ storeOf[cid] \subseteq storeOf'[user]

LEMMA LogInOwes ==
    ASSUME RegistersAssumption, IInv, Alone, Simple, NEW r \in Requests, NEW cid \in Connections,
           NEW user \in Persons, GuestLogsIn(r, cid, user), Bequeathed(cid, user),
           NEW y, NEW slot, Settled(y, slot), NEW events, Lasting(events) = Lasting(slot)
    PROVE  Owed(events)'
<1>1. Lasting(events)' = Lasting(slot)
  BY DEF Lasting, GuestLogsIn
<1>2. \A s \in Requests : rq[s].parcel = Nobody
  BY ServingAlone DEF GuestLogsIn
<1>3. ASSUME NEW parcel \in Lasting(slot) PROVE parcel.user # cid
  <2>1. Lodged(y, slot)
    BY DEF Settled
  <2>2. \A s \in Requests : rq[s].at \in {"reading", "serving"} => parcel.cid # rq[s].cid
    BY <2>1, Zenon DEF Lodged
  <2>3. parcel.cid # cid
    BY <2>2 DEF GuestLogsIn
  <2>4. parcel.user \in OwnersOf(parcel.cid)
    BY DEF Lasting, IInv, Packed, Parcels
  <2> QED
    BY <2>3, <2>4 DEF OwnersOf, RegistersAssumption
<1>4. ASSUME NEW other \in Identities, other # cid, NEW work \in carries[other]
      PROVE  Kept(other, work, events)'
  <2>1. Kept(other, work, slot)
    BY DEF Settled, Owed
  <2>2. storeOf[other] \subseteq storeOf'[other]
    BY <1>4 DEF Bequeathed
  <2> QED
    BY <1>1, <1>2, <2>1, <2>2 DEF Kept
<1>5. ASSUME NEW work \in carries[cid] PROVE work \in storeOf[cid]
  <2>1. Kept(cid, work, slot)
    BY DEF Settled, Owed, Identities
  <2> QED
    BY <1>2, <1>3, <2>1 DEF Kept
<1>6. ASSUME NEW other \in Identities, NEW work \in carries'[other]
      PROVE  Kept(other, work, events)'
  <2>1. other # cid
    BY <1>6 DEF Bequeathed
  <2>2. CASE work \in carries[other]
    BY <1>4, <2>1, <2>2
  <2>3. CASE work \notin carries[other]
    <3>1. other = user /\ work \in carries[cid] /\ storeOf[cid] \subseteq storeOf'[user]
      BY <1>6, <2>1, <2>3 DEF Bequeathed
    <3>2. work \in storeOf'[other]
      BY <1>5, <3>1
    <3> QED
      BY <3>2 DEF Kept
  <2> QED
    BY <2>2, <2>3
<1> QED
  BY <1>6 DEF Owed

LEMMA LogInKeeps ==
    ASSUME RegistersAssumption, IInv, MInv, "overlap" \notin met', NEW r \in Requests,
           rq[r].at = "serving", NEW cid, cid = rq[r].cid, NEW user \in Persons,
           NEW previous \in Identities, LoggedIn(r, cid, user, previous),
           userRows' \subseteq userRows \cup {user},
           previous \in Connections => previous \notin userRows',
           Plain' => previous = cid /\ GuestLogsIn(r, cid, user) /\ Bequeathed(cid, user)
    PROVE  MInv'
<1>1. /\ ownerOf' = [ownerOf EXCEPT ![cid] = user]
      /\ UNCHANGED <<connectionOf, deposit, lane, inbox, indexes, met>>
  BY DEF LoggedIn
<1>2. /\ "overlap" \notin met /\ Alone /\ rq[r].slot \in Seq(Events) /\ cid \in Connections
      /\ Plain' => Plain /\ Simple
  BY <1>1, ServingFollows
<1>3. user \in OwnersOf(cid) /\ user \in Identities
  BY DEF OwnersOf, Identities
<1>4. PICK slot \in Seq(Events) : slot = rq[r].slot
  BY <1>2
<1>5. PICK y \in Indexes : /\ Leads(Now, slot, y) /\ Agrees(y)
                           /\ Plain => Settled(y, slot)
  BY <1>1, <1>2, <1>4, ServingFollows
<1>6. PICK told : told = <<Event("connection_user_changed", user, {cid}, {}, previous)>>
  OBVIOUS
<1>7. PICK said \in Seq(Events) :
        /\ said = told /\ \A other : ~Ends(other, said)
        /\ Speaks(r, said) /\ rq'[r].previous = previous
  BY <1>6, LoggedInSpeaks
<1>8. PICK z \in Indexes : z = LogsIn(y, cid, user, previous) /\ Leads(y, said, z)
  BY <1>2, <1>3, <1>5, <1>6, <1>7, LoginTold
<1>9. Agrees(z)'
  <2>1. Agrees(LogsIn(y, cid, user, previous))'
    BY <1>1, <1>2, <1>3, <1>5, LogInAgrees
  <2> QED
    BY <1>8, <2>1
<1>10. ASSUME Plain' PROVE Settled(z, slot \o said)' /\ Rooted' /\ Bare' /\ Person(r)'
  <2>1. Simple /\ Settled(y, slot) /\ previous = cid /\ GuestLogsIn(r, cid, user)
        /\ Bequeathed(cid, user)
    BY <1>2, <1>5, <1>10
  <2>2. PICK events : events = slot \o said
    OBVIOUS
  <2>3. Lasting(events) = Lasting(slot)
    <3>1. Lasting(slot \o said) = {parcel \in Lasting(slot) : ~Ends(parcel.user, said)}
      BY LastingJoins
    <3> QED
      BY <1>7, <2>2, <3>1
  <2>4. Owed(events)'
    BY <1>2, <2>1, <2>3, LogInOwes
  <2>5. /\ \A other \in userRows' :
              other \in LogsIn(y, cid, user, cid).placed \/ Newcomer(other)'
        /\ LogsIn(y, cid, user, cid).hosted \subseteq userRows'
        /\ Lodged(LogsIn(y, cid, user, cid), events)'
        /\ Rooted' /\ Bare' /\ Person(r)'
    BY <1>2, <1>7, <2>1, <2>3, LogInSettles
  <2>6. z = LogsIn(y, cid, user, cid)
    BY <1>8, <2>1
  <2>7. Settled(z, events)'
    BY <2>4, <2>5, <2>6 DEF Settled
  <2> QED
    BY <2>2, <2>5, <2>7
<1> QED
  BY <1>2, <1>4, <1>5, <1>7, <1>8, <1>9, <1>10, SpeaksKeep

\* In a plain world who logs in is the guest of his connection.
LEMMA GuestOfHisOwn ==
    ASSUME RegistersAssumption, IInv, Simple, NEW r \in Requests, rq[r].at = "serving",
           NEW cid, cid = rq[r].cid, Held(cid), IsGuest(ownerOf[cid])
    PROVE  /\ cid \in Connections /\ ownerOf[cid] = cid /\ rq[r].previous = Nobody
           /\ cid \in Identities /\ connectionsOf[cid] = {cid}
<1>1. cid \in Connections /\ UnderWay(r)
  BY SlotIsEvents DEF UnderWay, Sound
<1>2. ownerOf[cid] \in OwnersOf(cid)
  BY <1>1, OwnerIsOneOfItsOwn DEF IInv, Held
<1>3. ownerOf[cid] = cid
  BY <1>2 DEF OwnersOf, RegistersAssumption, IsGuest
<1>4. rq[r].previous = Nobody
  BY <1>1, <1>3 DEF Simple, Person, RegistersAssumption
<1>5. connectionsOf[cid] = {cid}
  BY <1>1, <1>3 DEF IInv, Tree, EdgesAgree, GuestHasOneConnection, Identities
<1> QED
  BY <1>1, <1>3, <1>4, <1>5 DEF Identities

LEMMA TransferMirrors ==
    ASSUME RegistersAssumption, IInv, MInv, "overlap" \notin met', NEW r \in Requests,
           NEW user \in Persons, Transfer(r, user)
    PROVE  MInv'
<1>1. PICK cid, guest : cid = rq[r].cid /\ guest = ownerOf[cid]
  OBVIOUS
<1>2. /\ rq[r].at = "serving" /\ Held(cid) /\ IsGuest(guest) /\ user \notin userRows
      /\ userRows' = (userRows \ {guest}) \cup {user}
      /\ connectionsOf' = [connectionsOf EXCEPT ![user] = connectionsOf[guest], ![guest] = {}]
      /\ storeOf' = [storeOf EXCEPT ![user] = storeOf[guest], ![guest] = {}]
      /\ carries' = [carries EXCEPT ![user] = @ \cup carries[guest], ![guest] = {}]
      /\ LoggedIn(r, cid, user, guest)
  BY <1>1, Zenon DEF Transfer, Serving
<1>3. guest \in Identities /\ user \in Identities /\ guest # user
  BY <1>2 DEF IsGuest, Identities, RegistersAssumption
<1>4. userRows' \subseteq userRows \cup {user} /\ guest \notin userRows'
  BY <1>2, <1>3
<1>5. ASSUME Plain' PROVE guest = cid /\ GuestLogsIn(r, cid, user) /\ Bequeathed(cid, user)
  <2>1. Plain /\ Simple
    <3>1. met \subseteq met'
      BY <1>2 DEF LoggedIn
    <3> QED
      BY <1>2, <1>5, <3>1, ServingFollows
  <2>2. /\ cid \in Connections /\ ownerOf[cid] = cid /\ rq[r].previous = Nobody
        /\ connectionsOf[cid] = {cid} /\ guest = cid
    BY <1>1, <1>2, <2>1, GuestOfHisOwn
  <2>3. connectionsOf[user] = {} /\ storeOf[user] = {}
    <3>1. \A c \in Connections : ownerOf[c] # user
      BY <1>2, <1>3 DEF IInv, Tree, EdgesAgree, RegistersAssumption, Identities
    <3>2. connectionsOf[user] = {}
      BY <1>3, <3>1 DEF IInv, Tree, EdgesAgree, RowsTyped
    <3> QED
      BY <1>2, <1>3, <2>1, <3>2 DEF Simple, Bare
  <2>4. \A other \in Identities : other # cid => cid \notin connectionsOf[other]
    BY <2>2 DEF IInv, Tree, EdgesAgree
  <2>5. \A other \in Identities :
          connectionsOf'[other] = IF other = user THEN connectionsOf[user] \cup {cid}
                                  ELSE connectionsOf[other] \ {cid}
    <3>1. connectionsOf' = [connectionsOf EXCEPT ![user] = {cid}, ![cid] = {}]
          /\ connectionsOf \in [Identities -> SUBSET Connections] /\ cid \in Identities
      BY <1>2, <1>3, <2>2 DEF IInv, Tree, RowsTyped
    <3>2. connectionsOf'[user] = {cid} /\ connectionsOf'[cid] = {}
          /\ \A other \in Identities \ {user, cid} : connectionsOf'[other] = connectionsOf[other]
      BY <1>3, <2>2, <3>1
    <3> QED
      BY <2>2, <2>3, <2>4, <3>2
  <2>6. \A other \in Identities \ {user} :
          storeOf'[other] = IF other = cid THEN {} ELSE storeOf[other]
    BY <1>2, <1>3, <2>2 DEF IInv, StoresTyped
  <2>7. userRows' = (userRows \cup {user}) \ {cid}
    BY <1>2, <1>3, <2>2
  <2>8. ~Dropped(r, user) /\ ownerOf' = [ownerOf EXCEPT ![cid] = user] /\ deposit' = deposit
    BY <1>2, <2>1 DEF LoggedIn, Plain
  <2>9. GuestLogsIn(r, cid, user)
    BY <1>1, <1>2, <2>2, <2>5, <2>6, <2>7, <2>8 DEF GuestLogsIn
  <2>10. /\ storeOf'[user] = storeOf[cid] /\ carries'[user] = carries[user] \cup carries[cid]
         /\ carries'[cid] = {}
         /\ \A other \in Identities \ {cid, user} : carries'[other] = carries[other]
    BY <1>2, <1>3, <2>2 DEF IInv, StoresTyped
  <2>11. Bequeathed(cid, user)
    BY <2>3, <2>6, <2>10 DEF Bequeathed
  <2> QED
    BY <2>2, <2>9, <2>11
<1> QED
  BY <1>1, <1>2, <1>3, <1>4, <1>5, LogInKeeps

LEMMA JoinMirrors ==
    ASSUME RegistersAssumption, IInv, MInv, "overlap" \notin met', NEW r \in Requests,
           NEW user \in Persons, Join(r, user)
    PROVE  MInv'
<1>1. PICK cid, previous : cid = rq[r].cid /\ previous = ownerOf[cid]
  OBVIOUS
<1>2. PICK emptied : emptied = IF previous # user /\ connectionsOf[previous] = {cid}
                               THEN {previous} ELSE {}
  OBVIOUS
<1>3. /\ rq[r].at = "serving" /\ Held(cid)
      /\ IF IsGuest(previous) THEN "login" \in Happens /\ user \in userRows
         ELSE "switch" \in Happens
      /\ userRows' = (userRows \cup {user}) \ emptied
      /\ connectionsOf' = [other \in Identities |->
                             IF other = user THEN connectionsOf[user] \cup {cid}
                             ELSE connectionsOf[other] \ {cid}]
      /\ storeOf' = [other \in Identities |-> IF other \in emptied THEN {} ELSE storeOf[other]]
      /\ carries' = IF IsGuest(previous) THEN Forgiven({previous}) ELSE carries
      /\ LoggedIn(r, cid, user, previous)
  BY <1>1, <1>2, Zenon DEF Join, Serving
<1>4. met \subseteq met'
  BY <1>3 DEF LoggedIn
<1>5. previous \in Identities /\ user \in Identities /\ cid \in Connections /\ cid \in connectionsOf[previous]
  <2>1. previous \in Identities /\ cid \in Connections
    BY <1>1, <1>3, <1>4, ServingFollows
  <2> QED
    BY <1>1, <2>1 DEF IInv, Tree, EdgesAgree, Identities
<1>6. previous \in Connections => previous \notin userRows'
  <2>1. SUFFICES ASSUME previous \in Connections PROVE previous \notin userRows'
    OBVIOUS
  <2>2. connectionsOf[previous] = {cid}
    BY <1>5, <2>1 DEF IInv, Tree, GuestHasOneConnection
  <2>3. previous # user
    BY <2>1 DEF RegistersAssumption
  <2> QED
    BY <1>2, <1>3, <2>2, <2>3
<1>7. ASSUME Plain' PROVE previous = cid /\ GuestLogsIn(r, cid, user) /\ Bequeathed(cid, user)
  <2>1. Plain /\ Simple
    BY <1>3, <1>4, <1>7, ServingFollows
  <2>2. IsGuest(previous) /\ user \in userRows
    BY <1>3, <2>1 DEF Plain
  <2>3. /\ ownerOf[cid] = cid /\ rq[r].previous = Nobody /\ connectionsOf[cid] = {cid}
        /\ previous = cid
    BY <1>1, <1>3, <2>1, <2>2, GuestOfHisOwn
  <2>4. emptied = {cid} /\ cid # user
    BY <1>2, <1>5, <2>3 DEF RegistersAssumption
  <2>5. ~Dropped(r, user) /\ ownerOf' = [ownerOf EXCEPT ![cid] = user] /\ deposit' = deposit
    BY <1>3, <2>1 DEF LoggedIn, Plain
  <2>6. GuestLogsIn(r, cid, user)
    BY <1>1, <1>3, <2>3, <2>4, <2>5 DEF GuestLogsIn
  <2>7. Bequeathed(cid, user)
    BY <1>3, <1>5, <2>2, <2>3, <2>4 DEF Bequeathed, Forgiven
  <2> QED
    BY <2>3, <2>6, <2>7
<1> QED
  BY <1>1, <1>3, <1>5, <1>6, <1>7, LogInKeeps

-----------------------------------------------------------------------------
(* The parcel comes home, and the rows that parked one go.                 *)

LEMMA InstallFailsMirrors ==
    ASSUME MInv, "overlap" \notin met', NEW r \in Requests, InstallFails(r) PROVE MInv'
<1>1. rq[r].at = "reading" /\ Held(rq[r].cid) /\ UNCHANGED history
  BY Zenon DEF InstallFails
<1>2. ~Held(rq[r].cid)
  BY <1>1 DEF MInv, Alone, history
<1> QED
  BY <1>1, <1>2

LEMMA InstallMirrors ==
    ASSUME RegistersAssumption, IInv, MInv, "overlap" \notin met', NEW r \in Requests, Install(r)
    PROVE  MInv'
<1>1. PICK cid, user, parcel, resident, told :
        /\ cid = rq[r].cid /\ user = rq[r].identity /\ parcel = rq[r].parcel
        /\ resident = (user \in userRows)
        /\ told = IF parcel.pages = {} THEN <<>>
                  ELSE <<Event("new_page", user, {cid}, parcel.pages, Nobody)>>
  OBVIOUS
<1>2. PICK arrival : arrival = Arrival(cid, user)
  OBVIOUS
<1>3. /\ rq[r].at = "reading" /\ ~Held(cid) /\ Brought(cid, user, parcel.pages)
      /\ storeOf' = IF parcel.carried /\ ~resident
                    THEN [storeOf EXCEPT ![user] = parcel.store] ELSE storeOf
      /\ carries' = IF parcel.carried /\ resident
                    THEN [carries EXCEPT ![user] = @ \ (parcel.store \ storeOf[user])] ELSE carries
      /\ rq' = [rq EXCEPT ![r].at = "serving", ![r].parcel = Nobody,
                          ![r].slot = @ \o arrival \o told]
      /\ UNCHANGED <<deposit, lane, inbox, indexes, born, met>>
  BY <1>1, <1>2, Zenon DEF Install
<1>4. /\ "overlap" \notin met /\ rq[r] \in RequestType /\ UnderWay(r) /\ Alone
      /\ cid \in Connections /\ rq[r].slot = <<>> /\ parcel \in Packed
      /\ parcel.user = user /\ lane \in Seq(Requests)
      /\ rq[r].identity \in OwnersOf(cid) \cup {Nobody}
  BY <1>1, <1>3, SlotIsEvents DEF UnderWay, MInv, Alone, Sound, IInv, Wire
<1>5. parcel.user \in Identities /\ parcel.pages \in SUBSET Pages /\ parcel.store \in SUBSET Identities
  BY <1>4 DEF Packed, Parcels
<1>6. user \in OwnersOf(cid) /\ user \in Identities
  BY <1>1, <1>4, <1>5 DEF RegistersAssumption, Identities
<1>7. Agrees(Now) /\ Now \in Indexes /\ (Plain => Settled(Now, <<>>) /\ Lasting(<<>>) = deposit)
  BY <1>3, <1>4, NothingSaid, NowIsTyped
<1>8. PICK y \in Indexes : y = Now
  BY <1>7
<1>9. PICK x \in Indexes : /\ x = Arrived(y, cid, user) /\ Leads(y, arrival, x)
                           /\ arrival \in Seq(Events)
  BY <1>2, <1>4, <1>6, <1>7, <1>8, ArrivalTold
<1>10. PICK z \in Indexes : /\ z = Opens(x, cid, parcel.pages) /\ Leads(x, told, z)
                            /\ told \in Seq(Events)
  <2>1. CASE parcel.pages = {}
    <3>1. told = <<>> /\ Opens(x, cid, parcel.pages) = x
      BY <1>1, <2>1, OpensNothing
    <3> QED
      BY <3>1, LeadsNowhere
  <2>2. CASE parcel.pages # {}
    BY <1>1, <1>4, <1>5, <1>6, <2>2, PagesTold
  <2> QED
    BY <2>1, <2>2
<1>11. PICK events \in Seq(Events) : events = arrival \o told
  BY <1>9, <1>10, SeqJoins
<1>12. Leads(y, events, z)
  BY <1>9, <1>10, <1>11, LeadsOn
<1>13. (<<>> \o arrival) \o told = events
  BY <1>9, <1>11
<1> DEFINE q == [rq[r] EXCEPT !.at = "serving", !.parcel = Nobody, !.slot = @ \o arrival \o told]
<1>14. /\ q.at = "serving" /\ q.slot = events /\ q.cid = cid /\ q.previous = rq[r].previous
       /\ q.identity = user /\ q.parcel = Nobody
  BY <1>1, <1>4, <1>13 DEF RequestType
<1>15. rq' = [rq EXCEPT ![r] = q]
  BY <1>3
<1> HIDE DEF q
<1>16. Steps(r) /\ rq'[r] = q
  BY <1>3, <1>4, <1>14, <1>15, RqMoves
<1>17. Alone'
  BY <1>3, <1>4, <1>14, <1>16, AloneMoves
<1>18. /\ x.cum = Leading(y, cid, user) /\ x.pcm = y.pcm /\ x.users = y.users \cup {user}
       /\ x.placed = y.placed \cup {user} /\ x.hosted = y.hosted \cup {user}
  BY <1>9 DEF Arrived, Index
<1>19. /\ z.cum = x.cum /\ z.users = x.users /\ z.placed = x.placed /\ z.hosted = x.hosted
       /\ z.pcm = [page \in Pages |-> IF page \in parcel.pages THEN cid ELSE y.pcm[page]]
  BY <1>10, <1>18 DEF Opens, Index
<1>20. Agrees(z)'
  <2>1. z.cum[cid] = user /\ \A c \in Connections \ {cid} : z.cum[c] = y.cum[c]
    BY <1>4, <1>18, <1>19 DEF Leading
  <2>2. Agrees(y) /\ y.users \cup {user} \subseteq z.users /\ y.hosted \cup {user} \subseteq z.hosted
    BY <1>7, <1>8, <1>18, <1>19
  <2>3. z.pcm = [page \in Pages |-> IF page \in parcel.pages THEN cid ELSE y.pcm[page]]
    BY <1>19
  <2>4. Heard(y, cid, user, parcel.pages, z)
    BY <2>1, <2>2, <2>3 DEF Heard
  <2> QED
    BY <1>3, <1>4, <1>5, <1>6, <2>2, <2>4, BroughtAgrees
<1>21. Now' = y
  BY <1>3, <1>8 DEF Now, indexes
<1>22. ASSUME Plain' PROVE Settled(z, events)' /\ Simple'
  <2>1. Plain /\ Simple /\ Settled(y, <<>>) /\ Lasting(<<>>) = deposit
    BY <1>3, <1>4, <1>7, <1>8, <1>22 DEF Plain, MInv
  <2>2. rq[r].previous = Nobody /\ parcel.carried
    <3>1. parcel # Nobody
      BY <1>4, ParcelsAssumption DEF Packed
    <3> QED
      BY <1>1, <1>3, <2>1, <3>1 DEF Simple, Fresh, Bears
  <2>3. \A other : ~Ends(other, events)
    <3>1. \A other : ~Ends(other, told)
      BY <1>1, EndsOnce, EndsNever DEF Event
    <3>2. \A other : ~Ends(other, arrival)
      BY <1>2, <1>4, <1>6, ArrivalEndsNobody
    <3> QED
      BY <1>9, <1>10, <1>11, <3>1, <3>2, EndsJoins
  <2>4. Lasting(events) = Lasting(<<>>)
    BY <2>1, <2>3 DEF Lasting
  <2>5. Rooted /\ Arriving(r, y, <<>>, events, cid, user, parcel.pages, z)
    BY <1>1, <1>3, <1>14, <1>16, <1>18, <1>19, <2>1, <2>2, <2>4 DEF Simple, Arriving
  <2>6. /\ \A other \in userRows' : other \in z.placed
        /\ z.hosted \subseteq userRows' /\ Lodged(z, events)' /\ Rooted'
    BY <1>4, <1>6, <2>5, ArrivingSettles
  <2>7. \A s \in Requests \ {r} : rq[s].parcel = Nobody
    <3>1. \A s \in Requests \ {r} : rq[s].at \in {"new", "done"}
      BY <1>4 DEF Alone, UnderWay
    <3> QED
      BY <2>1, <3>1 DEF Simple, Bears
  <2>8. ASSUME NEW other \in Identities, NEW work \in carries'[other]
        PROVE  Kept(other, work, events)'
    <3>1. Lasting(events)' = Lasting(<<>>)
      BY <1>3, <2>4 DEF Lasting
    <3>2. work \in carries[other]
      BY <1>3, <1>6, <2>8 DEF IInv, StoresTyped
    <3>3. Kept(other, work, <<>>)
      BY <2>1, <3>2 DEF Settled, Owed
    <3>4. CASE work \in storeOf[other]
      <4>1. other = user => resident
        BY <1>1, <2>1, <3>4 DEF Simple, Bare
      <4>2. work \in storeOf'[other]
        BY <1>3, <1>6, <3>4, <4>1 DEF IInv, StoresTyped
      <4> QED
        BY <4>2 DEF Kept
    <3>5. CASE \E one \in Lasting(<<>>) : one.user = other /\ work \in one.store
      BY <3>1, <3>5 DEF Kept
    <3>6. CASE work \notin storeOf[other] /\ other = user /\ work \in parcel.store
      <4>1. ~resident
        BY <1>3, <1>6, <2>2, <2>8, <3>6 DEF IInv, StoresTyped
      <4>2. work \in storeOf'[other]
        BY <1>3, <1>6, <2>2, <3>6, <4>1 DEF IInv, StoresTyped
      <4> QED
        BY <4>2 DEF Kept
    <3> QED
      BY <1>1, <1>4, <2>7, <3>3, <3>4, <3>5, <3>6 DEF Kept
  <2>9. Bare'
    BY <1>3, <1>6, <2>1 DEF Simple, Bare, Brought, IInv, StoresTyped
  <2>10. Fresh(r)' /\ Bears(r)' /\ Person(r)' /\ Parting(r)'
    BY <1>14, <1>16, <2>2 DEF Fresh, Bears, Person, Parting
  <2>11. \A one \in deposit' : one.carried
    BY <1>3, <2>1 DEF Simple
  <2>12. Simple'
    BY <1>4, <1>16, <2>1, <2>6, <2>9, <2>10, <2>11, SimpleMoves
  <2>13. Owed(events)'
    BY <2>8 DEF Owed
  <2> QED
    BY <2>6, <2>12, <2>13 DEF Settled
<1>23. rq'[r].slot = events /\ Leads(Now', events, z)
  BY <1>12, <1>14, <1>16, <1>21
<1> QED
  BY <1>4, <1>16, <1>17, <1>20, <1>22, <1>23, OneLeads

\* The parcel of cid is on disk, its rows go, those of guests and of the emptied too.
Releasing(r, parcel, cid, heir, guests, emptied) ==
    /\ rq[r].at = "writing" /\ parcel = rq[r].parcel /\ cid = parcel.cid /\ heir = parcel.user
    /\ guests = {rq[r].previous} \cap Connections \cap userRows
    /\ emptied = IF heir \in userRows \ guests /\ connectionsOf[heir] \ {cid} = {}
                 THEN {heir} ELSE {}
    /\ deposit' = {other \in deposit : other.user # heir \/ other.cid # cid} \cup {parcel}
    /\ Held(cid) /\ Taken(pagesOf[cid], {cid}, guests \cup emptied)
    /\ UNCHANGED <<lane, inbox, indexes, history>>

LEMMA ReleasingAgrees ==
    ASSUME IInv, NEW y \in Indexes, Agrees(y), NEW r \in Requests, NEW parcel,
           NEW cid \in Connections, NEW heir, NEW guests, NEW emptied,
           Releasing(r, parcel, cid, heir, guests, emptied),
           NEW z, z.cum = y.cum, z.users = y.users, z.hosted = y.hosted \ emptied,
           z.pcm = [page \in Pages |-> IF page \in pagesOf[cid] THEN Nobody ELSE y.pcm[page]]
    PROVE  Agrees(z)'
<1>1. z.pcm = connectionOf'
  BY DEF Agrees, Releasing, Taken
<1>2. \A c \in Connections : ownerOf'[c] # Nobody => z.cum[c] = ownerOf'[c]
  BY DEF Agrees, Releasing, Taken, Held
<1>3. userRows' \subseteq z.users \cap z.hosted
  BY DEF Agrees, Releasing, Taken
<1> QED
  BY <1>1, <1>2, <1>3 DEF Agrees, Held

\* In a plain world a person parks his guest's connection: the guest has no row.
LEMMA ReleasingIsPlain ==
    ASSUME RegistersAssumption, IInv, Simple, NEW r \in Requests, NEW parcel,
           NEW cid \in Connections, NEW heir, NEW guests, NEW emptied,
           Releasing(r, parcel, cid, heir, guests, emptied)
    PROVE  /\ cid = rq[r].cid /\ heir = ownerOf[cid] /\ heir \in Persons /\ heir \in userRows
           /\ ~Dropped(r, heir) /\ rq[r].previous # Nobody
           /\ parcel.store = storeOf[heir] /\ parcel.carried
           /\ guests = {} /\ emptied = IF connectionsOf[heir] = {cid} THEN {heir} ELSE {}
           /\ cid \in connectionsOf[heir]
<1>1. cid = rq[r].cid /\ parcel \in Packed /\ UnderWay(r) /\ rq[r].previous # Nobody
      /\ rq[r].previous \in OwnersOf(cid) \cup {Nobody}
  BY SlotIsEvents DEF Releasing, Sound, UnderWay
<1>2. heir = ownerOf[cid] /\ parcel.store = storeOf[heir] /\ parcel.carried
  BY <1>1, ParcelsAssumption DEF Releasing, Simple, Parting, Bears, Packed
<1>3. rq[r].previous \in Connections /\ heir \in Persons /\ ~Dropped(r, heir)
  BY <1>1, <1>2 DEF Simple, Person, Releasing
<1>4. heir \in userRows /\ cid \in connectionsOf[heir]
  BY <1>2, <1>3, OwnerIsOneOfItsOwn DEF Releasing, Held, IInv, Tree, EdgesAgree, Identities
<1>5. rq[r].previous = cid
  BY <1>1, <1>3 DEF OwnersOf, RegistersAssumption
<1>6. cid \notin userRows
  <2>1. connectionsOf[cid] \subseteq {cid} /\ cid \in Identities /\ cid # heir
    BY <1>3 DEF IInv, Tree, GuestHasOneConnection, Identities, RegistersAssumption
  <2>2. cid \notin connectionsOf[cid]
    BY <1>2, <2>1 DEF IInv, Tree, EdgesAgree
  <2> QED
    BY <2>1, <2>2 DEF Simple, Rooted
<1>7. guests = {}
  BY <1>5, <1>6 DEF Releasing
<1>8. emptied = IF connectionsOf[heir] = {cid} THEN {heir} ELSE {}
  BY <1>4, <1>7 DEF Releasing
<1> QED
  BY <1>1, <1>2, <1>3, <1>4, <1>7, <1>8

\* ... and what was said of y says no more of z than that the emptied are let go.
LetGo(r, cid, emptied, y, slot, z, events) ==
    /\ Steps(r) /\ Agrees(y) /\ slot = rq[r].slot
    /\ \A other : Ends(other, events) <=> Ends(other, slot)
    /\ z.cum = y.cum /\ z.placed = y.placed /\ z.hosted = y.hosted \ emptied
    /\ rq'[r].at = "replying" /\ rq'[r].cid = rq[r].cid /\ rq'[r].parcel = Nobody

LEMMA ReleasingSettles ==
    ASSUME RegistersAssumption, IInv, Alone, Simple, NEW r \in Requests, NEW parcel,
           NEW cid \in Connections, NEW heir, NEW guests, NEW emptied,
           Releasing(r, parcel, cid, heir, guests, emptied),
           NEW y, NEW slot, NEW z, NEW events,
           LetGo(r, cid, emptied, y, slot, z, events), Settled(y, slot)
    PROVE  Settled(z, events)' /\ Simple'
<1>0. /\ Steps(r) /\ Agrees(y) /\ slot = rq[r].slot
      /\ \A other : Ends(other, events) <=> Ends(other, slot)
      /\ z.cum = y.cum /\ z.placed = y.placed /\ z.hosted = y.hosted \ emptied
      /\ rq'[r].at = "replying" /\ rq'[r].cid = rq[r].cid /\ rq'[r].parcel = Nobody
  BY DEF LetGo
<1>1. /\ cid = rq[r].cid /\ heir = ownerOf[cid] /\ heir \in Persons /\ heir \in userRows
      /\ ~Dropped(r, heir) /\ rq[r].previous # Nobody
      /\ parcel.store = storeOf[heir] /\ parcel.carried /\ parcel = rq[r].parcel
      /\ guests = {} /\ emptied = IF connectionsOf[heir] = {cid} THEN {heir} ELSE {}
      /\ cid \in connectionsOf[heir] /\ parcel.cid = cid /\ parcel.user = heir
  <2>1. parcel = rq[r].parcel /\ parcel.cid = cid /\ parcel.user = heir
    BY DEF Releasing
  <2>2. /\ cid = rq[r].cid /\ heir = ownerOf[cid] /\ heir \in Persons /\ heir \in userRows
        /\ ~Dropped(r, heir) /\ rq[r].previous # Nobody
        /\ parcel.store = storeOf[heir] /\ parcel.carried
        /\ guests = {} /\ emptied = IF connectionsOf[heir] = {cid} THEN {heir} ELSE {}
        /\ cid \in connectionsOf[heir]
    BY ReleasingIsPlain
  <2> QED
    BY <2>1, <2>2
<1>2. /\ userRows' = userRows \ emptied /\ emptied \subseteq {heir} /\ heir \in Identities
      /\ \A other \in Identities :
           /\ connectionsOf'[other] = IF other \in emptied THEN {} ELSE connectionsOf[other] \ {cid}
           /\ storeOf'[other] = IF other \in emptied THEN {} ELSE storeOf[other]
      /\ \A c \in Connections : ownerOf'[c] = IF c = cid THEN Nobody ELSE ownerOf[c]
      /\ deposit' = {other \in deposit : other.user # heir \/ other.cid # cid} \cup {parcel}
      /\ carries' = carries
  BY <1>1 DEF Releasing, Taken, Identities, history
<1>3. \A s \in Requests \ {r} : rq[s].at \in {"new", "done"} /\ rq'[s] = rq[s]
  BY <1>0 DEF Alone, Steps, UnderWay
<1>4. ASSUME NEW other \in userRows' PROVE other \in z.placed
  <2>1. other \in userRows /\ other \notin emptied
    BY <1>2
  <2>2. ~Newcomer(other)
    <3>1. SUFFICES ASSUME Newcomer(other) PROVE FALSE
      OBVIOUS
    <3>2. ownerOf[rq[r].cid] = other /\ connectionsOf[other] = {rq[r].cid}
      BY <1>3, <3>1 DEF Newcomer
    <3> QED
      BY <1>1, <2>1, <3>2
  <2> QED
    BY <1>0, <2>1, <2>2 DEF Settled
<1>5. z.hosted \subseteq userRows'
  BY <1>0, <1>2 DEF Settled
<1>6. Lodged(y, slot)
  BY DEF Settled
<1>7. ASSUME NEW other \in Lasting(slot)
      PROVE  /\ other.cid \in Connections /\ other.cid # cid /\ ownerOf'[other.cid] = Nobody
             /\ z.cum[other.cid] = other.user /\ other \in deposit'
  <2>1. other.cid \in Connections /\ other \in deposit
    BY DEF Lasting, IInv, Packed, Parcels
  <2>2. ~Held(other.cid) /\ y.cum[other.cid] = other.user
    BY <1>6, Zenon DEF Lodged
  <2>3. other.cid # cid
    BY <2>2 DEF Releasing
  <2> QED
    BY <1>0, <1>2, <2>1, <2>2, <2>3 DEF Held
<1>8. Lasting(events)' = Lasting(slot) \cup {parcel}
  <2>1. ~Ends(heir, slot)
    BY <1>0, <1>1 DEF Dropped, Ends
  <2>2. Lasting(events)' = {other \in deposit' : ~Ends(other.user, slot)}
    BY <1>0 DEF Lasting
  <2>3. \A other \in deposit' : other = parcel \/ other \in deposit
    BY <1>2
  <2>4. \A other \in Lasting(slot) : other \in deposit' /\ ~Ends(other.user, slot)
    BY <1>7 DEF Lasting
  <2>5. parcel \in deposit' /\ ~Ends(parcel.user, slot)
    BY <1>1, <1>2, <2>1
  <2> QED
    BY <2>2, <2>3, <2>4, <2>5 DEF Lasting
<1>9. ownerOf'[parcel.cid] = Nobody /\ z.cum[parcel.cid] = parcel.user
  <2>1. Held(cid)
    BY DEF Releasing
  <2>2. y.cum[cid] = ownerOf[cid]
    BY <1>0, <2>1, Zenon DEF Agrees
  <2> QED
    BY <1>0, <1>1, <1>2, <2>2
<1>10. \A s \in Requests : rq'[s].at \notin {"reading", "serving"}
  BY <1>0, <1>3
<1>11. Lodged(z, events)'
  <2>1. \A one, other \in Lasting(slot) : other.cid = one.cid => other = one
    BY <1>6 DEF Lodged
  <2> QED
    BY <1>1, <1>7, <1>8, <1>9, <1>10, <2>1 DEF Lodged, Held
<1>12. Owed(events)'
  <2>1. ASSUME NEW other \in Identities, NEW work, Kept(other, work, slot)
        PROVE  Kept(other, work, events)'
    <3>1. CASE work \in storeOf[other]
      <4>1. CASE other \in emptied
        <5>1. parcel \in Lasting(events)' /\ parcel.user = other /\ work \in parcel.store
          BY <1>1, <1>2, <1>8, <3>1, <4>1
        <5> QED
          BY <5>1 DEF Kept
      <4>2. CASE other \notin emptied
        BY <1>2, <3>1, <4>2 DEF Kept
      <4> QED
        BY <4>1, <4>2
    <3>2. CASE \E one \in Lasting(slot) : one.user = other /\ work \in one.store
      BY <1>8, <3>2 DEF Kept
    <3>3. CASE \E s \in Requests : /\ rq[s].parcel # Nobody /\ rq[s].parcel.user = other
                                   /\ work \in rq[s].parcel.store
      <4>1. \A s \in Requests \ {r} : rq[s].parcel = Nobody
        BY <1>3 DEF Simple, Bears
      <4>2. parcel.user = other /\ work \in parcel.store
        BY <1>1, <3>3, <4>1
      <4> QED
        BY <1>8, <4>2 DEF Kept
    <3> QED
      BY <2>1, <3>1, <3>2, <3>3 DEF Kept
  <2> QED
    BY <1>2, <2>1 DEF Settled, Owed
<1>13. Rooted'
  <2>1. ASSUME NEW other \in userRows' PROVE connectionsOf'[other] # {}
    <3>1. other \in Identities /\ other \in userRows /\ other \notin emptied /\ connectionsOf[other] # {}
      BY <1>2 DEF Simple, Rooted, IInv, Tree, RowsTyped
    <3>2. connectionsOf'[other] = connectionsOf[other] \ {cid}
      BY <1>2, <3>1
    <3>3. CASE other = heir
      BY <1>1, <3>1, <3>2, <3>3
    <3>4. CASE other # heir
      <4>1. cid \notin connectionsOf[other]
        BY <1>1, <3>1, <3>4 DEF IInv, Tree, EdgesAgree
      <4> QED
        BY <3>1, <3>2, <4>1
    <3> QED
      BY <3>3, <3>4
  <2> QED
    BY <2>1 DEF Rooted
<1>14. Bare'
  BY <1>2 DEF Simple, Bare
<1>15. \A other \in deposit' : other.carried
  BY <1>1, <1>2 DEF Simple
<1>16. Fresh(r)' /\ Bears(r)' /\ Parting(r)'
  BY <1>0 DEF Fresh, Bears, Parting
<1>17. Person(r)'
  <2>1. ownerOf'[rq'[r].cid] = Nobody
    BY <1>0, <1>1, <1>2
  <2> QED
    BY <2>1 DEF Person, Held
<1> QED
  BY <1>0, <1>4, <1>5, <1>11, <1>12, <1>13, <1>14, <1>15, <1>16, <1>17, SimpleMoves DEF Settled

LEMMA ReleaseLoginMirrors ==
    ASSUME RegistersAssumption, IInv, MInv, "overlap" \notin met', NEW r \in Requests,
           ReleaseLogin(r)
    PROVE  MInv'
<1>1. PICK parcel : parcel = rq[r].parcel
  OBVIOUS
<1>2. PICK cid, heir, guests :
        /\ cid = parcel.cid /\ heir = parcel.user
        /\ guests = {rq[r].previous} \cap Connections \cap userRows
  OBVIOUS
<1>3. PICK emptied :
        emptied = IF heir \in userRows \ guests /\ connectionsOf[heir] \ {cid} = {}
                  THEN {heir} ELSE {}
  OBVIOUS
<1>4. PICK told, freed :
        /\ told = PagesGone(heir, pagesOf[cid])
        /\ freed = IF emptied = {} THEN <<>>
                   ELSE <<Event("user_rows_released", heir, {}, {}, Nobody)>>
  OBVIOUS
<1>5. /\ rq[r].at = "writing"
      /\ deposit' = {other \in deposit : other.user # heir \/ other.cid # cid} \cup {parcel}
      /\ IF Held(cid)
         THEN /\ Taken(pagesOf[cid], {cid}, guests \cup emptied)
              /\ rq' = [rq EXCEPT ![r].at = "replying", ![r].parcel = Nobody,
                                  ![r].slot = @ \o told \o freed]
         ELSE /\ rq' = [rq EXCEPT ![r].at = "replying", ![r].parcel = Nobody]
              /\ UNCHANGED rows
      /\ UNCHANGED <<lane, inbox, indexes, history>>
  BY <1>1, <1>2, <1>3, <1>4, Zenon DEF ReleaseLogin
<1>6. /\ "overlap" \notin met /\ rq[r] \in RequestType /\ UnderWay(r) /\ Alone
      /\ cid \in Connections /\ rq[r].slot \in Seq(Events) /\ parcel \in Packed
      /\ cid = rq[r].cid /\ lane \in Seq(Requests)
  BY <1>1, <1>2, <1>5, SlotIsEvents DEF UnderWay, MInv, Sound, history, IInv, Wire
<1>7. heir \in Identities
  BY <1>2, <1>6 DEF Packed, Parcels
<1>8. PICK slot \in Seq(Events) : slot = rq[r].slot
  BY <1>6
<1>9. PICK y \in Indexes : /\ Leads(Now, slot, y) /\ Agrees(y)
                           /\ Plain => Settled(y, slot)
  BY <1>6, <1>8, OneFollows
<1>10. Now' = Now
  BY <1>5 DEF Now, indexes
<1>11. Plain' => Plain /\ Simple
  BY <1>5, <1>6 DEF history, Plain, MInv
<1>12. CASE ~Held(cid)
  <2> DEFINE q == [rq[r] EXCEPT !.at = "replying", !.parcel = Nobody]
  <2>1. q.at = "replying" /\ q.slot = slot
    BY <1>6, <1>8 DEF RequestType
  <2>2. rq' = [rq EXCEPT ![r] = q]
    BY <1>5, <1>12
  <2> HIDE DEF q
  <2>3. Steps(r) /\ rq'[r] = q
    BY <1>5, <1>6, <2>1, <2>2, RqMoves
  <2>4. Alone'
    BY <1>5, <1>6, <2>1, <2>3, AloneMoves
  <2>5. Agrees(y)'
    BY <1>5, <1>9, <1>12, AgreesStays DEF rows
  <2>6. ~Plain'
    BY <1>5, <1>6, <1>11, <1>12 DEF Simple, Parting
  <2>7. rq'[r].slot = slot /\ Leads(Now', slot, y)
    BY <1>9, <1>10, <2>1, <2>3
  <2> QED
    BY <1>6, <2>3, <2>4, <2>5, <2>6, <2>7, OneLeads
<1>13. CASE Held(cid)
  <2>1. Releasing(r, parcel, cid, heir, guests, emptied)
    BY <1>1, <1>2, <1>3, <1>5, <1>13 DEF Releasing
  <2>2. pagesOf[cid] \in SUBSET Pages
    BY <1>6 DEF IInv, Tree, RowsTyped
  <2>3. PICK x \in Indexes : /\ x = Drops(y, {}, pagesOf[cid]) /\ Leads(y, told, x)
                             /\ told \in Seq(Events)
    BY <1>4, <1>7, <2>2, GoneTold
  <2>4. PICK z \in Indexes : /\ z = (IF emptied = {} THEN x ELSE Releases(x, heir))
                             /\ Leads(x, freed, z) /\ freed \in Seq(Events)
    <3>1. CASE emptied = {}
      BY <1>4, <3>1, LeadsNowhere
    <3>2. CASE emptied # {}
      BY <1>4, <1>7, <3>2, ReleaseTold
    <3> QED
      BY <3>1, <3>2
  <2>5. slot \o told \in Seq(Events) /\ Leads(Now, slot \o told, x)
    BY <1>9, <2>3, LeadsOn, SeqJoins
  <2>6. PICK events \in Seq(Events) : events = (slot \o told) \o freed
    BY <2>4, <2>5, SeqJoins
  <2>7. Leads(Now', events, z)
    BY <1>10, <2>4, <2>5, <2>6, LeadsOn
  <2> DEFINE q == [rq[r] EXCEPT !.at = "replying", !.parcel = Nobody, !.slot = @ \o told \o freed]
  <2>8. q.at = "replying" /\ q.slot = events /\ q.cid = cid /\ q.parcel = Nobody
    BY <1>6, <1>8, <2>6 DEF RequestType
  <2>9. rq' = [rq EXCEPT ![r] = q]
    BY <1>5, <1>13
  <2> HIDE DEF q
  <2>10. Steps(r) /\ rq'[r] = q
    BY <1>5, <1>6, <2>8, <2>9, RqMoves
  <2>11. Alone'
    BY <1>5, <1>6, <2>8, <2>10, AloneMoves
  <2>12. /\ x.cum = y.cum /\ x.users = y.users /\ x.placed = y.placed /\ x.hosted = y.hosted
         /\ x.pcm = [page \in Pages |-> IF page \in pagesOf[cid] THEN Nobody ELSE y.pcm[page]]
    BY <2>3 DEF Drops, Without, Index
  <2>13. /\ z.cum = y.cum /\ z.users = y.users /\ z.placed = y.placed
         /\ z.hosted = y.hosted \ emptied /\ z.pcm = x.pcm
    <3>1. CASE emptied = {}
      BY <2>4, <2>12, <3>1
    <3>2. CASE emptied # {}
      BY <1>3, <2>4, <2>12, <3>2 DEF Releases, Index
    <3> QED
      BY <3>1, <3>2
  <2>14. Agrees(z)'
    <3>1. /\ z.cum = y.cum /\ z.users = y.users /\ z.hosted = y.hosted \ emptied
          /\ z.pcm = [page \in Pages |-> IF page \in pagesOf[cid] THEN Nobody ELSE y.pcm[page]]
      BY <2>12, <2>13
    <3>2. Agrees(y) /\ cid \in Connections
      BY <1>6, <1>9
    <3> QED
      BY <2>1, <3>1, <3>2, ReleasingAgrees
  <2>15. \A other : Ends(other, events) <=> Ends(other, slot)
    <3>1. \A other : ~Ends(other, told)
      BY <1>4, <1>7, <2>2, PagesGoneEndNobody
    <3>2. \A other : ~Ends(other, freed)
      BY <1>4, EndsOnce, EndsNever DEF Event
    <3>3. \A other : Ends(other, slot \o told) <=> Ends(other, slot)
      BY <2>3, <3>1, EndsJoins
    <3> QED
      BY <2>4, <2>5, <2>6, <3>2, <3>3, EndsJoins
  <2>16. ASSUME Plain' PROVE Settled(z, events)' /\ Simple'
    <3>1. Simple /\ Settled(y, slot)
      BY <1>9, <1>11, <2>16
    <3>2. LetGo(r, cid, emptied, y, slot, z, events)
      BY <1>6, <1>8, <1>9, <2>8, <2>10, <2>13, <2>15 DEF LetGo
    <3> QED
      BY <1>6, <2>1, <3>1, <3>2, ReleasingSettles
  <2>17. rq'[r].slot = events
    BY <2>8, <2>10
  <2> QED
    BY <1>6, <2>7, <2>10, <2>11, <2>14, <2>16, <2>17, OneLeads
<1> QED
  BY <1>12, <1>13

-----------------------------------------------------------------------------
(* The replies are folded while nobody is served.                          *)

Idle == \A r \in Requests : rq[r].at \in {"new", "done"} /\ rq[r].slot = <<>>

LEMMA IdleLeads ==
    ASSUME Idle', lane' = <<>>, NEW events, inbox' = events,
           NEW z \in Indexes, Leads(Now', events, z), Agrees(z)',
           Plain' => Settled(z, events)' /\ Simple'
    PROVE  MInv'
<1>1. \A r \in Requests : ~UnderWay(r)'
  BY DEF Idle, UnderWay
<1>2. ASSUME NEW said \in Seq(Events), Unsaid(said)' PROVE said = events
  BY <1>1, <1>2 DEF Unsaid
<1>3. Follows(events)'
  BY DEF Follows
<1>4. Alone'
  <2>1. \A r \in Requests :
          /\ rq'[r].at \notin {"knocking", "reading"} /\ rq'[r].slot = <<>>
    BY DEF Idle
  <2> QED
    BY <1>1, <2>1 DEF Alone
<1> QED
  BY <1>2, <1>3, <1>4 DEF MInv

LEMMA IdleIsSimple ==
    ASSUME Idle', Rooted', Bare', \A parcel \in deposit' : parcel.carried,
           \A r \in Requests : rq'[r].parcel = Nobody
    PROVE  Simple'
<1>1. ASSUME NEW r \in Requests PROVE Fresh(r)' /\ Bears(r)' /\ Person(r)' /\ Parting(r)'
  <2>1. rq'[r].at \in {"new", "done"}
    BY DEF Idle
  <2>2. Fresh(r)' /\ Person(r)' /\ Parting(r)'
    BY <2>1 DEF Fresh, Person, Parting, UnderWay
  <2> QED
    BY <2>2 DEF Bears
<1> QED
  BY <1>1 DEF Simple

LEMMA NobodyIsThere ==
    ASSUME IInv, Alone, \A r \in Requests : ~UnderWay(r)
    PROVE  Idle /\ lane = <<>> /\ (Simple => \A r \in Requests : rq[r].parcel = Nobody)
           /\ \A user : ~Newcomer(user)
<1>1. \A r \in Requests : rq[r].at \in {"new", "done"}
  BY DEF UnderWay
<1>2. Idle
  BY <1>1 DEF Idle, Alone
<1>3. lane = <<>>
  <2>1. SUFFICES ASSUME lane # <<>> PROVE FALSE
    OBVIOUS
  <2>2. lane \in Seq(Requests)
    BY DEF IInv, Wire
  <2>3. 1 \in DOMAIN lane /\ lane[1] \in Requests
    BY <2>1, <2>2
  <2>4. rq[lane[1]].at = "replied"
    BY <2>3, Zenon DEF Alone
  <2> QED
    BY <1>1, <2>3, <2>4
<1>4. Simple => \A r \in Requests : rq[r].parcel = Nobody
  BY <1>1 DEF Simple, Bears
<1>5. \A user : ~Newcomer(user)
  BY <1>1 DEF Newcomer
<1> QED
  BY <1>2, <1>3, <1>4, <1>5

LEMMA EndsOff ==
    ASSUME NEW E \in Seq(Events), E # <<>>, NEW user
    PROVE  Ends(user, E) <=>
             (Head(E).op = "drop_user" /\ Head(E).user = user) \/ Ends(user, Tail(E))
<1>1. Head(E) \in Events /\ Tail(E) \in Seq(Events) /\ E = <<Head(E)>> \o Tail(E)
  OBVIOUS
<1>2. PICK e, F : e = Head(E) /\ F = Tail(E)
  OBVIOUS
<1>3. e \in Events /\ <<e>> \in Seq(Events) /\ F \in Seq(Events) /\ E = <<e>> \o F
  BY <1>1, <1>2
<1>4. Ends(user, <<e>> \o F) <=> Ends(user, <<e>>) \/ Ends(user, F)
  BY <1>3, EndsJoins
<1> QED
  BY <1>2, <1>3, <1>4, EndsOnce

\* A fold takes from the deposit what the drop it folds deletes.
LEMMA FoldDeletes ==
    ASSUME Fold, ~Arrive
    PROVE  /\ inbox # <<>> /\ inbox' = Tail(inbox) /\ UNCHANGED <<rows, rq, lane, history>>
           /\ deposit' = {parcel \in deposit :
                            ~(Head(inbox).op = "drop_user" /\ Head(inbox).user = parcel.user)}
<1>1. CASE OnDropUser
  BY <1>1 DEF OnDropUser, Folding, Folded
<1>2. CASE ~OnDropUser
  <2>1. /\ inbox # <<>> /\ Folded /\ Head(inbox).op # "drop_user" /\ deposit' = deposit
    BY <1>2 DEF Fold, OnNewUser, OnNewConnection, OnNewPage, OnDrop, OnConnectionUserChanged,
                OnUserRowsReleased, Folding
  <2> QED
    BY <2>1 DEF Folded
<1> QED
  BY <1>1, <1>2

LEMMA FoldSettles ==
    ASSUME IInv, Fold, ~Arrive, NEW y, Settled(y, inbox), \A user : ~Newcomer(user),
           NEW events, events = Tail(inbox)
    PROVE  Settled(y, events)'
<1>1. /\ inbox # <<>> /\ inbox' = Tail(inbox) /\ UNCHANGED <<rows, rq, lane, history>>
      /\ deposit' = {parcel \in deposit :
                       ~(Head(inbox).op = "drop_user" /\ Head(inbox).user = parcel.user)}
  BY FoldDeletes
<1>3. \A user : Ends(user, inbox) <=>
                  (Head(inbox).op = "drop_user" /\ Head(inbox).user = user) \/ Ends(user, events)
  BY <1>1, EndsOff, InboxIsEvents
<1>4. Lasting(events)' = Lasting(inbox)
  <2>1. Lasting(events)' = {parcel \in deposit' : ~Ends(parcel.user, events)}
    BY DEF Lasting, Ends
  <2> QED
    BY <1>1, <1>3, <2>1 DEF Lasting
<1>5. Lodged(y, events)'
  BY <1>1, <1>4 DEF Settled, Lodged, Held, rows
<1>6. Owed(events)'
  <2>1. \A user, work : Kept(user, work, events)' <=> Kept(user, work, inbox)
    BY <1>1, <1>4 DEF Kept, rows
  <2> QED
    BY <1>1, <2>1 DEF Settled, Owed, history
<1>7. \A user \in userRows' : user \in y.placed
  BY <1>1 DEF Settled, rows
<1>8. y.hosted \subseteq userRows'
  BY <1>1 DEF Settled, rows
<1> QED
  BY <1>1, <1>5, <1>6, <1>7, <1>8 DEF Settled

LEMMA FoldMirrors ==
    ASSUME RegistersAssumption, IInv, MInv, "overlap" \notin met', Fold, ~Arrive
    PROVE  MInv'
<1>1. /\ inbox # <<>> /\ inbox' = Tail(inbox) /\ UNCHANGED <<rows, rq, lane, history>>
      /\ deposit' = {parcel \in deposit :
                       ~(Head(inbox).op = "drop_user" /\ Head(inbox).user = parcel.user)}
  BY FoldDeletes
<1>2. "overlap" \notin met /\ Alone
  BY <1>1 DEF MInv, history
<1>3. \A r \in Requests : ~UnderWay(r)
  BY <1>1, <1>2 DEF Alone
<1>4. /\ Idle /\ lane = <<>> /\ (Simple => \A r \in Requests : rq[r].parcel = Nobody)
      /\ \A user : ~Newcomer(user)
  BY <1>2, <1>3, NobodyIsThere
<1>5. inbox \in Seq(Events) /\ Unsaid(inbox)
  BY <1>3, InboxIsEvents DEF Unsaid
<1>6. PICK y \in Indexes : Leads(Now, inbox, y) /\ Agrees(y) /\ (Plain => Settled(y, inbox))
  BY <1>2, <1>5 DEF MInv, Follows
<1>7. PICK w \in Indexes : Tells(Now, Head(inbox), w) /\ Leads(w, Tail(inbox), y)
  BY <1>1, <1>5, <1>6, LeadsOff
<1>8. Now' = w
  BY <1>7, FoldTells
<1>9. PICK events : events = inbox'
  OBVIOUS
<1>10. Leads(Now', events, y)
  BY <1>1, <1>7, <1>8, <1>9
<1>11. Agrees(y)'
  BY <1>1, <1>6, AgreesStays DEF rows
<1>12. Idle' /\ lane' = <<>>
  BY <1>1, <1>4 DEF Idle
<1>13. ASSUME Plain' PROVE Settled(y, events)' /\ Simple'
  <2>1. Settled(y, inbox) /\ Simple
    BY <1>1, <1>2, <1>6, <1>13 DEF MInv, Plain, history
  <2>2. Settled(y, events)'
    BY <1>1, <1>4, <1>9, <2>1, FoldSettles
  <2>3. \A r \in Requests : rq'[r].parcel = Nobody
    BY <1>1, <1>4, <2>1
  <2>4. Rooted' /\ Bare' /\ \A parcel \in deposit' : parcel.carried
    BY <1>1, <2>1 DEF Simple, Rooted, Bare, rows
  <2>5. Simple'
    BY <1>12, <2>3, <2>4, IdleIsSimple
  <2> QED
    BY <2>2, <2>5
<1> QED
  BY <1>9, <1>10, <1>11, <1>12, <1>13, IdleLeads

LEMMA IdleSettles ==
    ASSUME NEW y, NEW events, Settled(y, events), \A user : ~Newcomer(user),
           UNCHANGED <<rows, deposit, carries>>, \A s \in Requests : rq[s].parcel = Nobody,
           \A s \in Requests : rq'[s].parcel = Nobody /\ rq'[s].at \notin {"reading", "serving"},
           NEW z, z.cum = y.cum, z.hosted = y.hosted, y.placed \subseteq z.placed
    PROVE  Settled(z, events)'
<1>1. Lasting(events)' = Lasting(events)
  BY DEF Lasting, Ends
<1>2. Lodged(z, events)'
  BY <1>1 DEF Settled, Lodged, Held, rows
<1>3. Owed(events)'
  <2>1. \A user, work : Kept(user, work, events)' <=> Kept(user, work, events)
    BY <1>1 DEF Kept, rows
  <2> QED
    BY <2>1 DEF Settled, Owed
<1> QED
  BY <1>2, <1>3 DEF Settled, rows

LEMMA ArriveMirrors ==
    ASSUME RegistersAssumption, IInv, MInv, "overlap" \notin met', Arrive PROVE MInv'
<1>1. PICK r : r = Head(lane)
  OBVIOUS
<1>2. /\ inbox = <<>> /\ lane # <<>> /\ inbox' = rq[r].slot /\ lane' = Tail(lane)
      /\ rq' = [rq EXCEPT ![r].at = "done", ![r].slot = <<>>]
      /\ UNCHANGED <<rows, deposit, indexes, history>>
  BY <1>1 DEF Arrive
<1>3. "overlap" \notin met /\ Alone /\ lane \in Seq(Requests)
  BY <1>2 DEF MInv, history, IInv, Wire
<1>4. r \in Requests /\ rq[r].at = "replied" /\ lane' = <<>>
  <2>1. 1 \in DOMAIN lane /\ r = lane[1] /\ r \in Requests /\ Len(lane) <= 1
    BY <1>1, <1>2, <1>3 DEF Alone
  <2>2. rq[lane[1]].at = "replied"
    BY <1>3, <2>1, Zenon DEF Alone
  <2> QED
    BY <1>2, <1>3, <2>1, <2>2
<1>5. rq[r] \in RequestType /\ rq[r].slot \in Seq(Events) /\ UnderWay(r)
      /\ rq \in [Requests -> RequestType]
  BY <1>4, SlotIsEvents DEF UnderWay, IInv, RequestsOK
<1> DEFINE q == [rq[r] EXCEPT !.at = "done", !.slot = <<>>]
<1>6. q.at = "done" /\ q.slot = <<>> /\ q.parcel = rq[r].parcel
  BY <1>5 DEF RequestType
<1>7. rq' = [rq EXCEPT ![r] = q]
  BY <1>2
<1> HIDE DEF q
<1>8. rq'[r] = q /\ \A s \in Requests \ {r} : rq'[s] = rq[s] /\ rq[s].at \in {"new", "done"}
  BY <1>3, <1>4, <1>5, <1>7 DEF Alone, UnderWay
<1>9. Idle'
  BY <1>3, <1>6, <1>8 DEF Idle, Alone
<1>10. PICK events \in Seq(Events) : events = rq[r].slot
  BY <1>5
<1>11. PICK y \in Indexes : Leads(Now, events, y) /\ Agrees(y) /\ (Plain => Settled(y, events))
  BY <1>3, <1>4, <1>5, <1>10, OneFollows
<1>12. Leads(Now', events, y)
  BY <1>2, <1>11 DEF Now, indexes
<1>13. Agrees(y)'
  BY <1>2, <1>11, AgreesStays DEF rows
<1>14. ASSUME Plain' PROVE Settled(y, events)' /\ Simple'
  <2>1. Settled(y, events) /\ Simple
    BY <1>2, <1>3, <1>11, <1>14 DEF MInv, Plain, history
  <2>2. \A s \in Requests : rq[s].parcel = Nobody
    BY <1>4, <1>8, <2>1 DEF Simple, Bears
  <2>3. \A s \in Requests : rq'[s].parcel = Nobody
    BY <1>6, <1>8, <2>2
  <2>4. \A user : ~Newcomer(user)
    BY <1>4, <1>8 DEF Newcomer
  <2>5. Rooted' /\ Bare' /\ \A parcel \in deposit' : parcel.carried
    BY <1>2, <2>1 DEF Simple, Rooted, Bare, rows
  <2>6. Simple'
    BY <1>9, <2>3, <2>5, IdleIsSimple
  <2>7. Settled(y, events)'
    <3>1. /\ UNCHANGED <<rows, deposit, carries>>
          /\ \A s \in Requests : rq'[s].parcel = Nobody /\ rq'[s].at \notin {"reading", "serving"}
      BY <1>2, <1>9, <2>3 DEF Idle, history
    <3> QED
      BY <2>1, <2>2, <2>4, <3>1, IdleSettles
  <2> QED
    BY <2>6, <2>7
<1> QED
  BY <1>2, <1>4, <1>9, <1>10, <1>11, <1>12, <1>13, <1>14, IdleLeads

\* A browser's request comes in: nobody is served, what its cookie says is placed.
LEMMA SendMirrors ==
    ASSUME RegistersAssumption, IInv, MInv, "overlap" \notin met', NEW r \in Requests,
           NEW cid \in Connections, Send(r, cid)
    PROVE  MInv'
<1>1. PICK user, known : user = connection_user_map[cid] /\ known = {user} \ {Nobody}
  OBVIOUS
<1>2. /\ rq[r].at = "new" /\ inbox = <<>>
      /\ rq' = [rq EXCEPT ![r].at = "sent", ![r].cid = cid, ![r].identity = user]
      /\ user_map' = user_map \cup known /\ user_worker_map' = user_worker_map \cup known
      /\ met' = met \cup {"overlap" : other \in {q \in Requests : UnderWay(q)}}
      /\ UNCHANGED <<rows, deposit, lane, inbox, connection_user_map, page_connection_map,
                     hosted_users, born, carries>>
  BY <1>1, Zenon DEF Send
<1>3. "overlap" \notin met /\ met' = met /\ Alone /\ \A s \in Requests : ~UnderWay(s)
  BY <1>2 DEF MInv
<1>4. /\ Idle /\ lane = <<>> /\ (Simple => \A s \in Requests : rq[s].parcel = Nobody)
      /\ \A other : ~Newcomer(other)
  BY <1>3, NobodyIsThere
<1>5. /\ rq[r] \in RequestType /\ rq[r].previous = Nobody /\ rq[r].slot = <<>>
      /\ rq \in [Requests -> RequestType]
  BY <1>2, <1>4, SlotIsEvents DEF Sound, Idle, IInv, RequestsOK
<1> DEFINE q == [rq[r] EXCEPT !.at = "sent", !.cid = cid, !.identity = user]
<1>6. /\ q.at = "sent" /\ q.slot = <<>> /\ q.cid = cid /\ q.identity = user
      /\ q.previous = Nobody /\ q.parcel = rq[r].parcel
  BY <1>5 DEF RequestType
<1>7. rq' = [rq EXCEPT ![r] = q]
  BY <1>2
<1> HIDE DEF q
<1>8. rq'[r] = q /\ \A s \in Requests \ {r} : rq'[s] = rq[s]
  BY <1>5, <1>7
<1>9. \A s \in Requests \ {r} : rq'[s].at \in {"new", "done"} /\ rq'[s].slot = <<>>
  BY <1>4, <1>8 DEF Idle
<1>10. Alone'
  <2>1. \A s, t \in Requests : UnderWay(s)' /\ UnderWay(t)' => s = t
    BY <1>9 DEF UnderWay
  <2>2. lane' = <<>> /\ inbox' = <<>>
    BY <1>2, <1>4
  <2>3. \A s \in Requests : rq'[s].slot = <<>> /\ rq'[s].at \notin {"knocking", "reading"}
    BY <1>6, <1>8, <1>9
  <2> QED
    BY <2>1, <2>2, <2>3 DEF Alone
<1>11. PICK x \in Indexes : x = Now /\ Agrees(x) /\ (Plain => Settled(x, <<>>))
  <2>1. Unsaid(<<>>) /\ <<>> \in Seq(Events)
    BY <1>2, <1>3 DEF Unsaid
  <2>2. PICK y \in Indexes : Leads(Now, <<>>, y) /\ Agrees(y) /\ (Plain => Settled(y, <<>>))
    BY <1>3, <2>1 DEF MInv, Follows
  <2> QED
    BY <2>2, LeadsBack
<1>12. PICK z : z = Now'
  OBVIOUS
<1>13. /\ z.cum = x.cum /\ z.pcm = x.pcm /\ z.hosted = x.hosted
       /\ z.users = x.users \cup known /\ z.placed = x.placed \cup known
  BY <1>2, <1>11, <1>12 DEF Now, Index
<1>14. z \in Indexes /\ Leads(Now', <<>>, z)
  <2>1. IInv'
    BY SendStep
  <2>2. z \in Indexes
    BY <1>12, <2>1 DEF IInv, IndexesTyped, Now, Index, Indexes
  <2> QED
    BY <1>12, <2>2, LeadsNowhere
<1>15. Agrees(z)'
  BY <1>2, <1>11, <1>13 DEF Agrees, Held, rows
<1>16. ASSUME Plain' PROVE Settled(z, <<>>)' /\ Simple'
  <2>1. Settled(x, <<>>) /\ Simple
    BY <1>3, <1>11, <1>16 DEF MInv, Plain
  <2>2. \A s \in Requests : rq[s].parcel = Nobody
    BY <1>4, <2>1
  <2>3. \A s \in Requests : rq'[s].parcel = Nobody /\ rq'[s].at \notin {"reading", "serving"}
    BY <1>6, <1>8, <1>9, <2>2
  <2>4. Settled(z, <<>>)'
    BY <1>2, <1>4, <1>13, <2>1, <2>2, <2>3, IdleSettles
  <2>5. Rooted' /\ Bare' /\ \A parcel \in deposit' : parcel.carried
    BY <1>2, <2>1 DEF Simple, Rooted, Bare, rows
  <2>6. ASSUME NEW s \in Requests PROVE Fresh(s)' /\ Bears(s)' /\ Person(s)' /\ Parting(s)'
    <3>1. CASE s = r
      <4>1. Fresh(r)' /\ Parting(r)'
        BY <1>1, <1>2, <1>6, <1>8 DEF Fresh, Parting
      <4>2. Bears(r)' /\ Person(r)'
        BY <1>6, <1>8, <2>3 DEF Bears, Person
      <4> QED
        BY <3>1, <4>1, <4>2
    <3>2. CASE s # r
      <4>1. rq'[s].at \in {"new", "done"} /\ rq'[s].parcel = Nobody
        BY <1>9, <2>3, <3>2
      <4> QED
        BY <4>1 DEF Fresh, Bears, Person, Parting, UnderWay
    <3> QED
      BY <3>1, <3>2
  <2> QED
    BY <2>4, <2>5, <2>6 DEF Simple
<1>17. UnderWay(r)' /\ rq'[r].slot = <<>>
  BY <1>6, <1>8 DEF UnderWay
<1>18. ASSUME NEW said \in Seq(Events), Unsaid(said)' PROVE said = <<>>
  BY <1>10, <1>17, <1>18 DEF Unsaid, Alone
<1>19. Follows(<<>>)'
  BY <1>14, <1>15, <1>16 DEF Follows
<1> QED
  BY <1>10, <1>16, <1>18, <1>19 DEF MInv

-----------------------------------------------------------------------------
(* The invariant                                                           *)

LEMMA InitMirrors == ASSUME RegistersAssumption, Init PROVE MInv
<1>1. IInv
  BY InitIsSound
<1>2. /\ \A r \in Requests : rq[r].at = "new" /\ rq[r].slot = <<>> /\ rq[r].parcel = Nobody
      /\ lane = <<>> /\ inbox = <<>> /\ deposit = {} /\ userRows = {} /\ hosted_users = {}
      /\ \A user \in Identities : storeOf[user] = {} /\ carries[user] = {}
      /\ page_connection_map = connectionOf /\ \A cid \in Connections : ownerOf[cid] = Nobody
  BY DEF Init
<1>3. Alone
  BY <1>2 DEF Alone, UnderWay
<1>4. PICK x \in Indexes : x = Now /\ x.pcm = page_connection_map /\ x.hosted = hosted_users
  BY <1>1, NowIsTyped DEF Now, Index
<1>5. Leads(Now, <<>>, x)
  BY <1>4, LeadsNowhere
<1>6. Agrees(x)
  BY <1>2, <1>4 DEF Agrees, Held
<1>7. Settled(x, <<>>)
  BY <1>2, <1>4 DEF Settled, Lodged, Owed, Lasting
<1>8. \A said : Unsaid(said) => said = <<>>
  BY <1>2 DEF Unsaid, UnderWay
<1>9. Follows(<<>>)
  BY <1>5, <1>6, <1>7 DEF Follows
<1>10. Simple
  <2>1. \A r \in Requests : Fresh(r) /\ Bears(r) /\ Person(r) /\ Parting(r)
    BY <1>2 DEF Fresh, Bears, Person, Parting, UnderWay
  <2> QED
    BY <1>2, <2>1 DEF Simple, Rooted, Bare
<1> QED
  BY <1>3, <1>8, <1>9, <1>10 DEF MInv

LEMMA StutterMirrors == ASSUME MInv, UNCHANGED vars PROVE MInv'
<1>1. /\ userRows' = userRows /\ connectionsOf' = connectionsOf /\ storeOf' = storeOf
      /\ ownerOf' = ownerOf /\ pagesOf' = pagesOf /\ connectionOf' = connectionOf
      /\ deposit' = deposit /\ rq' = rq /\ lane' = lane /\ inbox' = inbox
      /\ carries' = carries /\ met' = met /\ connection_user_map' = connection_user_map
      /\ Now' = Now
  BY DEF vars, rows, indexes, history, Now
<1>2. Alone' <=> Alone
  BY <1>1 DEF Alone, UnderWay, Held
<1>3. \A said : Unsaid(said)' <=> Unsaid(said)
  BY <1>1 DEF Unsaid, UnderWay
<1>4. Plain' <=> Plain
  BY <1>1 DEF Plain
<1>5. \A r : Dropped(r, ownerOf[rq[r].cid])' <=> Dropped(r, ownerOf[rq[r].cid])
  BY <1>1 DEF Dropped
<1>6. Simple => Simple'
  <2>1. ASSUME NEW r \in Requests, Fresh(r), Bears(r), Person(r), Parting(r)
        PROVE  Fresh(r)' /\ Bears(r)' /\ Person(r)' /\ Parting(r)'
    <3>1. Fresh(r)' /\ Bears(r)' /\ Parting(r)'
      BY <1>1, <2>1 DEF Fresh, Bears, Parting, Held
    <3>2. Person(r)'
      BY <1>1, <1>5, <2>1 DEF Person, UnderWay, Held
    <3> QED
      BY <3>1, <3>2
  <2> QED
    BY <1>1, <2>1 DEF Simple, Rooted, Bare
<1>7. \A said : Lasting(said)' = Lasting(said)
  BY <1>1 DEF Lasting
<1>8. ASSUME NEW y, NEW said, Settled(y, said) PROVE Settled(y, said)'
  <2>1. \A user : Newcomer(user)' <=> Newcomer(user)
    BY <1>1 DEF Newcomer
  <2>2. Lodged(y, said)'
    BY <1>1, <1>7, <1>8 DEF Settled, Lodged, Held
  <2>3. Owed(said)'
    <3>1. \A user, work : Kept(user, work, said)' <=> Kept(user, work, said)
      BY <1>1, <1>7 DEF Kept
    <3> QED
      BY <1>1, <1>8, <3>1 DEF Settled, Owed
  <2> QED
    BY <1>1, <1>8, <2>1, <2>2, <2>3 DEF Settled
<1>9. \A y : Agrees(y)' <=> Agrees(y)
  BY <1>1 DEF Agrees, Held
<1>10. ASSUME NEW said, Follows(said) PROVE Follows(said)'
  <2>1. PICK y \in Indexes : Leads(Now, said, y) /\ Agrees(y) /\ (Plain => Settled(y, said))
    BY <1>10 DEF Follows
  <2>2. Leads(Now', said, y) /\ Agrees(y)' /\ (Plain' => Settled(y, said)')
    BY <1>1, <1>4, <1>8, <1>9, <2>1
  <2> QED
    BY <2>2 DEF Follows
<1> QED
  BY <1>1, <1>2, <1>3, <1>4, <1>6, <1>10 DEF MInv

LEMMA NextMirrors == ASSUME RegistersAssumption, IInv, MInv, [Next]_vars PROVE MInv'
<1>1. SUFFICES ASSUME "overlap" \notin met' PROVE MInv'
  BY DEF MInv
<1>2. CASE Fold
  BY <1>1, <1>2, ArriveMirrors, FoldMirrors
<1>3. ASSUME NEW r \in Requests, Service(r) PROVE MInv'
  BY <1>1, <1>3, ReceiveMirrors, OpenFolderMirrors, InstallMirrors, InstallFailsMirrors,
     FolderFailsMirrors, EndServiceMirrors, ClaimDepartureMirrors, CopyParcelMirrors,
     ReleaseLoginMirrors, DepositFailsMirrors, SendReplyMirrors DEF Service
<1>4. ASSUME NEW r \in Requests, Verb(r) PROVE MInv'
  BY <1>1, <1>4, NewConnectionMirrors, WorkMirrors, NewPageMirrors, DropPageMirrors,
     DropConnectionMirrors, DropUserMirrors, TransferMirrors, JoinMirrors DEF Verb
<1>5. ASSUME NEW r \in Requests, NEW cid \in Connections, Send(r, cid) PROVE MInv'
  BY <1>1, <1>5, SendMirrors
<1>6. CASE UNCHANGED vars
  BY <1>6, StutterMirrors
<1> QED
  BY <1>2, <1>3, <1>4, <1>5, <1>6 DEF Next

LEMMA AllIsFolded ==
    ASSUME MInv, "overlap" \notin met, Quiet
    PROVE  Agrees(Now) /\ (Plain => Settled(Now, <<>>) /\ \A user : ~Newcomer(user))
<1>1. Unsaid(<<>>) /\ <<>> \in Seq(Events)
  BY DEF Quiet, Unsaid
<1>2. PICK y \in Indexes : Leads(Now, <<>>, y) /\ Agrees(y) /\ (Plain => Settled(y, <<>>))
  BY <1>1 DEF MInv, Follows
<1>3. y = Now
  BY <1>2, LeadsBack
<1>4. \A user : ~Newcomer(user)
  BY DEF Quiet, UnderWay, Newcomer
<1> QED
  BY <1>2, <1>3, <1>4

\* When requests did not overlap and every reply is folded, the page index is the
\* page rows, every connection there is leads to its owner and whoever is in
\* memory is known above, whatever verbs the site calls and whatever the deposit
\* refuses (spa_commander.py, the indexes as a projection of the rows).
THEOREM MirrorsAgree == Spec => []MirrorAgrees
<1>1. IInv /\ MInv => MirrorAgrees
  <2> SUFFICES ASSUME MInv, Quiet, "overlap" \notin met
               PROVE  /\ page_connection_map = connectionOf
                      /\ \A cid \in Connections : Held(cid) => connection_user_map[cid] = ownerOf[cid]
                      /\ userRows \subseteq user_map \cap hosted_users
    BY DEF MirrorAgrees
  <2>1. Agrees(Now)
    BY AllIsFolded
  <2> QED
    BY <2>1 DEF Agrees, Now, Index
<1> QED
  BY <1>1, InitIsSound, NextKeeps, InitMirrors, NextMirrors, RegistersAssumption, PTL DEF Spec

\* As long as the site only logs guests in, whoever is placed on the worker when
\* all is folded, whoever its handler believes on board and whoever it has in
\* memory are the same (envelope_handler.py, on_connection_user_changed and
\* on_user_rows_released).
THEOREM PeopleAgree ==
    ASSUME Happens \cap {"switch", "again"} = {} PROVE Spec => []OneSetOfPeople
<1>1. IInv /\ MInv => OneSetOfPeople
  <2> SUFFICES ASSUME MInv, Quiet, met = {}
               PROVE  userRows \subseteq user_worker_map /\ hosted_users \subseteq userRows
    BY DEF OneSetOfPeople, RowsArePlaced, OnBoardIsHeld
  <2>1. Settled(Now, <<>>) /\ \A user : ~Newcomer(user)
    BY AllIsFolded DEF Plain
  <2> QED
    BY <2>1 DEF Settled, Now, Index
<1> QED
  BY <1>1, InitIsSound, NextKeeps, InitMirrors, NextMirrors, RegistersAssumption, PTL DEF Spec

\* ... and the work of everybody who has not been dropped is in his store or in a
\* parcel of his, on disk or being carried, in the middle of a login too
\* (spa_worker.py, freeze_connection and _install_carried_store).
THEOREM WorkFollows ==
    ASSUME Happens \cap {"switch", "again"} = {} PROVE Spec => []NoWorkLost
<1>1. ASSUME IInv, MInv, met = {}, NEW user \in Identities, NEW work \in carries[user]
      PROVE  work \in storeOf[user] \/ work \in Parked(user) \/ work \in Carried(user)
  <2>1. PICK events \in Seq(Events) : Unsaid(events)
    <3>1. CASE \E r \in Requests : UnderWay(r)
      BY <1>1, <3>1, SlotIsEvents DEF Unsaid
    <3>2. CASE \A r \in Requests : ~UnderWay(r)
      BY <1>1, <3>2, InboxIsEvents DEF Unsaid
    <3> QED
      BY <3>1, <3>2
  <2>2. Owed(events)
    BY <1>1, <2>1 DEF MInv, Follows, Plain, Settled
  <2>3. Kept(user, work, events)
    BY <1>1, <2>2 DEF Owed
  <2>4. CASE \E parcel \in Lasting(events) : parcel.user = user /\ work \in parcel.store
    BY <2>4 DEF Lasting, Parked
  <2>5. CASE \E r \in Requests : /\ rq[r].parcel # Nobody /\ rq[r].parcel.user = user
                                 /\ work \in rq[r].parcel.store
    BY <2>5 DEF Carried
  <2> QED
    BY <2>3, <2>4, <2>5 DEF Kept
<1>2. IInv /\ MInv => NoWorkLost
  <2>1. ASSUME IInv, MInv, met = {}, NEW user \in Identities
        PROVE  carries[user] \subseteq storeOf[user] \cup Parked(user) \cup Carried(user)
    BY <1>1, <2>1
  <2> QED
    BY <2>1 DEF NoWorkLost
<1> QED
  BY <1>2, InitIsSound, NextKeeps, InitMirrors, NextMirrors, RegistersAssumption, PTL DEF Spec
=============================================================================
