------------------------------ MODULE Registers ------------------------------
(***************************************************************************)
(* The tree of users, connections and pages one worker keeps               *)
(* (register_registry.py, spa_worker.py), the login that moves a           *)
(* connection from its guest to a person and parks it in the deposit, and  *)
(* the indexes of the vertex (spa_commander.py), of the group and of the   *)
(* handler, which learn of the tree from the events the replies carry      *)
(* (envelope_handler.py).                                                  *)
(*                                                                         *)
(* A request is served on a task or thread of its own.  The verbs of the   *)
(* hosted site run under dispatch_lock, each in one step, and the steps of *)
(* different requests interleave.  The guest of a connection is named      *)
(* after it (GUEST_PREFIX + cid): here he IS the connection's id.  A store *)
(* is the set of the identities whose work it contains, and the site never *)
(* gives two pages the same id.                                            *)
(***************************************************************************)
EXTENDS Naturals, Sequences, FiniteSets

CONSTANTS
    Connections,  \* the ids the site gives its connections
    Persons,      \* the identities one logs in as
    Pages,        \* the ids the site gives its pages
    Requests,     \* the requests browsers send
    Nobody,       \* no identity, no connection, no parcel
    Happens,      \* what the site does and the disk may do
    MaxVerbs,     \* bound: the verbs the site calls in one request
    MaxUnderWay   \* bound: the requests under way at the same time

\* login   a guest logs in
\* switch  a person's connection logs in again, as himself or as another
\* again   a request drops a user and then logs in as him
\* refusal the deposit refuses a read or a write, or its folder stays locked
\* together requests of several verbs overlap and meet refusals too
ASSUME RegistersAssumption ==
    /\ Connections \cap Persons = {}
    /\ Nobody \notin Connections \cup Persons
    /\ Happens \subseteq {"login", "switch", "again", "refusal", "together"}
    /\ MaxVerbs \in Nat /\ MaxUnderWay \in Nat

Identities == Persons \cup Connections
IsGuest(user) == user \in Connections
\* Whom a connection can belong to: a person, or its own guest.
OwnersOf(cid) == Persons \cup {cid}

VARIABLES
    userRows,       \* user_items: who has a row in the worker
    connectionsOf,  \* a user row's connections
    storeOf,        \* a user row's store
    ownerOf,        \* connection_items: a connection row's user, Nobody without a row
    pagesOf,        \* a connection row's pages
    connectionOf,   \* page_items: a page row's connection, Nobody without a row
    deposit,        \* the connection parcels of the freezer
    rq,             \* per request: where it is, its cookie, its slot
    lane,           \* the requests whose replies are on their way up, in order
    inbox,          \* the events of the envelope being folded
    connection_user_map, page_connection_map, user_map,  \* the vertex
    user_worker_map,  \* the group: whom it places on this worker
    hosted_users,     \* the handler: who is on board
    born,           \* history: the connection each page was opened under
    carries,        \* history: whose work an identity's store has to contain
    met             \* history: which of overlap, refusal and relapse has happened

rows == <<userRows, connectionsOf, storeOf, ownerOf, pagesOf, connectionOf>>
indexes == <<connection_user_map, page_connection_map, user_map, user_worker_map, hosted_users>>
history == <<born, carries, met>>
vars == <<rows, deposit, rq, lane, inbox, indexes, history>>

Phases == {"new", "sent", "knocking", "reading", "serving", "tail", "claimed", "writing",
           "replying", "replied", "done"}
Verbs == {"new_user", "new_connection", "new_page", "drop_pages", "drop_connections",
          "drop_user", "connection_user_changed", "user_rows_released"}
Events == {event \in [op : Verbs, user : Identities, cids : SUBSET Connections,
                      pages : SUBSET Pages, previous : Identities \cup {Nobody}] :
             event.op \in {"new_connection", "connection_user_changed"} =>
                 \A cid \in event.cids : event.user \in OwnersOf(cid)}
Parcels == {parcel \in [user : Identities, cid : Connections, pages : SUBSET Pages,
                        carried : BOOLEAN, store : SUBSET Identities] :
              parcel.user \in OwnersOf(parcel.cid)}
ASSUME ParcelsAssumption == Nobody \notin Parcels

Event(op, user, cids, pages, previous) ==
    [op |-> op, user |-> user, cids |-> cids, pages |-> pages, previous |-> previous]

Init ==
    /\ userRows = {}
    /\ connectionsOf = [user \in Identities |-> {}]
    /\ storeOf = [user \in Identities |-> {}]
    /\ ownerOf = [cid \in Connections |-> Nobody]
    /\ pagesOf = [cid \in Connections |-> {}]
    /\ connectionOf = [page \in Pages |-> Nobody]
    /\ deposit = {}
    /\ rq = [r \in Requests |->
               [at |-> "new", cid |-> Nobody, identity |-> Nobody,
                verbs |-> 0, slot |-> <<>>, previous |-> Nobody, heir |-> Nobody,
                parcel |-> Nobody]]
    /\ lane = <<>> /\ inbox = <<>>
    /\ connection_user_map = [cid \in Connections |-> Nobody]
    /\ page_connection_map = [page \in Pages |-> Nobody]
    /\ user_map = {} /\ user_worker_map = {} /\ hosted_users = {}
    /\ born = [page \in Pages |-> Nobody]
    /\ carries = [user \in Identities |-> {}]
    /\ met = {}
-----------------------------------------------------------------------------
(* The register's two gestures, both edges of the tree in each.            *)

\* Rows come in: these pages of cid, cid under user, user himself.
Brought(cid, user, pages) ==
    /\ userRows' = userRows \cup {user}
    /\ connectionsOf' = [connectionsOf EXCEPT ![user] = @ \cup {cid}]
    /\ ownerOf' = [ownerOf EXCEPT ![cid] = user]
    /\ pagesOf' = [pagesOf EXCEPT ![cid] = @ \cup pages]
    /\ connectionOf' = [page \in Pages |-> IF page \in pages THEN cid ELSE connectionOf[page]]

\* Mutant: a connection that goes stays on its user's list.
TakenLeavingTheEdge(pages, cids, users) ==
    /\ userRows' = userRows \ users
    /\ connectionsOf' = [user \in Identities |->
                           IF user \in users THEN {} ELSE connectionsOf[user]]
    /\ storeOf' = [user \in Identities |-> IF user \in users THEN {} ELSE storeOf[user]]
    /\ ownerOf' = [cid \in Connections |-> IF cid \in cids THEN Nobody ELSE ownerOf[cid]]
    /\ pagesOf' = [cid \in Connections |->
                     IF cid \in cids THEN {} ELSE pagesOf[cid] \ pages]
    /\ connectionOf' = [page \in Pages |->
                          IF page \in pages THEN Nobody ELSE connectionOf[page]]

\* Rows go: these pages, these connections, these users with their stores.
Taken(pages, cids, users) ==
    /\ userRows' = userRows \ users
    /\ connectionsOf' = [user \in Identities |->
                           IF user \in users THEN {} ELSE connectionsOf[user] \ cids]
    /\ storeOf' = [user \in Identities |-> IF user \in users THEN {} ELSE storeOf[user]]
    /\ ownerOf' = [cid \in Connections |-> IF cid \in cids THEN Nobody ELSE ownerOf[cid]]
    /\ pagesOf' = [cid \in Connections |->
                     IF cid \in cids THEN {} ELSE pagesOf[cid] \ pages]
    /\ connectionOf' = [page \in Pages |->
                          IF page \in pages THEN Nobody ELSE connectionOf[page]]

Held(cid) == ownerOf[cid] # Nobody
PagesUnder(cids) == UNION {pagesOf[cid] : cid \in cids}
\* What bringing a connection in announces, the user first when he is unseen.
Arrival(cid, user) ==
    (IF user \in userRows THEN <<>> ELSE <<Event("new_user", user, {}, {}, Nobody)>>)
        \o <<Event("new_connection", user, {cid}, {}, Nobody)>>
\* Mutant: the pages a connection takes along are not announced.
PagesGoneUnsaid(user, pages) == <<>>

PagesGone(user, pages) ==
    IF pages = {} THEN <<>> ELSE <<Event("drop_pages", user, {}, pages, Nobody)>>

\* The person's work has gone with him: nothing is owed any more.
Forgiven(users) == [user \in Identities |-> IF user \in users THEN {} ELSE carries[user]]
-----------------------------------------------------------------------------
(* The vertex routes a request and the worker puts its row in order.       *)

UnderWay(r) == rq[r].at \notin {"new", "done"}
\* Bound, unless "together": a request of several verbs stays alone, and meets
\* no refusal.
OneVerbEach == "together" \notin Happens => \A r \in Requests : rq[r].verbs <= 1
VerbsEach == IF "together" \in Happens \/ met = {} THEN MaxVerbs ELSE 1
Goes(r, phase) == rq' = [rq EXCEPT ![r].at = phase]

\* A connection is new, or a browser has it in its cookie from an answer.
Presentable(cid) ==
    \/ \A r \in Requests : rq[r].cid # cid
    \/ \E r \in Requests : rq[r].cid = cid /\ rq[r].at = "done"

\* A browser's request arrives: the vertex reads whose its cookie is and places
\* him; one with no cookie is given its connection by the site.  An envelope is
\* folded in one breath, so a request never arrives in the middle of one.
Send(r, cid) ==
    LET user == connection_user_map[cid]
        known == {user} \ {Nobody}
    IN  /\ rq[r].at = "new"
        /\ inbox = <<>>
        /\ Presentable(cid)
        /\ Cardinality({other \in Requests : UnderWay(other)}) < IF OneVerbEach THEN MaxUnderWay ELSE 1
        /\ rq' = [rq EXCEPT ![r].at = "sent", ![r].cid = cid, ![r].identity = user]
        /\ user_map' = user_map \cup known
        /\ user_worker_map' = user_worker_map \cup known
        /\ met' = met \cup {"overlap" : other \in {q \in Requests : UnderWay(q)}}
        /\ UNCHANGED <<rows, deposit, lane, inbox, connection_user_map, page_connection_map,
                       hosted_users, born, carries>>

\* An anonymous request touches no register; a connection already held is home.
Receive(r) ==
    /\ rq[r].at = "sent"
    /\ Goes(r, IF rq[r].identity = Nobody \/ Held(rq[r].cid) THEN "serving" ELSE "knocking")
    /\ UNCHANGED <<rows, deposit, lane, inbox, indexes, history>>

FolderFree(user) ==
    \A r \in Requests :
        /\ rq[r].at = "reading" => rq[r].identity # user
        /\ rq[r].at = "writing" => rq[r].heir # user

\* Mutant: whatever is parked for the user is taken for this connection's.
OpenFolderOfTheUser(r) ==
    /\ rq[r].at = "knocking"
    /\ FolderFree(rq[r].identity)
    /\ \/ /\ \E parcel \in deposit :
               /\ parcel.user = rq[r].identity
               /\ rq' = [rq EXCEPT ![r].at = "reading", ![r].parcel = parcel]
               /\ deposit' = deposit \ {parcel}
       \/ /\ \A parcel \in deposit : parcel.user # rq[r].identity
          /\ Goes(r, "serving")
          /\ UNCHANGED deposit
    /\ UNCHANGED <<rows, lane, inbox, indexes, history>>

\* The folder is his: a parcel of this connection leaves the deposit, and it
\* is still being read when the next verb of somebody else runs.
OpenFolder(r) ==
    /\ rq[r].at = "knocking"
    /\ FolderFree(rq[r].identity)
    /\ \/ /\ \E parcel \in deposit :
               /\ parcel.user = rq[r].identity /\ parcel.cid = rq[r].cid
               /\ rq' = [rq EXCEPT ![r].at = "reading", ![r].parcel = parcel]
               /\ deposit' = deposit \ {parcel}
       \/ /\ \A parcel \in deposit : parcel.user # rq[r].identity \/ parcel.cid # rq[r].cid
          /\ Goes(r, "serving")
          /\ UNCHANGED deposit
    /\ UNCHANGED <<rows, lane, inbox, indexes, history>>

\* The carried store becomes his when his row was born with this connection;
\* a resident row wins, and what the carried one had more than his dies.
Install(r) ==
    LET parcel == rq[r].parcel
        cid == rq[r].cid
        user == rq[r].identity
        resident == user \in userRows
        arrival == Arrival(cid, user)
        waking == IF parcel.pages = {} THEN <<>>
                  ELSE <<Event("new_page", user, {cid}, parcel.pages, Nobody)>>
    IN  /\ rq[r].at = "reading"
        /\ ~Held(cid)
        /\ Brought(cid, user, parcel.pages)
        /\ storeOf' = IF parcel.carried /\ ~resident
                      THEN [storeOf EXCEPT ![user] = parcel.store] ELSE storeOf
        /\ carries' = IF parcel.carried /\ resident
                      THEN [carries EXCEPT ![user] = @ \ (parcel.store \ storeOf[user])]
                      ELSE carries
        /\ rq' = [rq EXCEPT ![r].at = "serving", ![r].parcel = Nobody,
                            ![r].slot = @ \o arrival \o waking]
        /\ UNCHANGED <<deposit, lane, inbox, indexes, born, met>>

\* Somebody else's verb opened the connection while the parcel was being read:
\* the row cannot be created twice, the user's may be here already.
InstallFails(r) ==
    LET user == rq[r].identity
    IN  /\ rq[r].at = "reading"
        /\ Held(rq[r].cid)
        /\ userRows' = userRows \cup {user}
        /\ rq' = [rq EXCEPT ![r].at = "replying", ![r].parcel = Nobody,
                    ![r].slot = @ \o (IF user \in userRows THEN <<>>
                                      ELSE <<Event("new_user", user, {}, {}, Nobody)>>)]
        /\ UNCHANGED <<connectionsOf, storeOf, ownerOf, pagesOf, connectionOf, deposit, lane,
                       inbox, indexes, history>>

\* The folder never came free, or could not be read: the request fails.
FolderFails(r) ==
    /\ "refusal" \in Happens
    /\ rq[r].at = "knocking"
    /\ OneVerbEach
    /\ Goes(r, "replying")
    /\ met' = met \cup {"refusal"}
    /\ UNCHANGED <<rows, deposit, lane, inbox, indexes, born, carries>>
-----------------------------------------------------------------------------
(* The verbs of the site, each under dispatch_lock.                        *)

Serving(r) == rq[r].at = "serving" /\ rq[r].verbs < VerbsEach
Says(r, events) ==
    rq' = [rq EXCEPT ![r].verbs = @ + 1, ![r].slot = @ \o events]

\* Whom the site opens a connection of this request for.
Host(r) == IF rq[r].identity = Nobody THEN rq[r].cid ELSE rq[r].identity

\* The request has logged in already, and opens the connection it dropped since.
Relapse(r) == IF rq[r].previous = Nobody THEN {} ELSE {"relapse"}

\* A user unseen is born here with an empty store; storeOf is empty for the absent.
NewConnection(r) ==
    LET cid == rq[r].cid
    IN  \E user \in {cid, Host(r)} :
          /\ Serving(r)
          /\ ~Held(cid)
          /\ Brought(cid, user, {})
          /\ met' = met \cup Relapse(r)
          /\ Says(r, Arrival(cid, user))
          /\ UNCHANGED <<storeOf, deposit, lane, inbox, indexes, born, carries>>

NewPage(r, page) ==
    LET cid == rq[r].cid
        user == IF Held(cid) THEN ownerOf[cid] ELSE Host(r)
        arrival == IF Held(cid) THEN <<>> ELSE Arrival(cid, user)
    IN  /\ Serving(r)
        /\ born[page] = Nobody
        /\ Brought(cid, user, {page})
        /\ born' = [born EXCEPT ![page] = cid]
        /\ met' = met \cup (IF Held(cid) THEN {} ELSE Relapse(r))
        /\ Says(r, arrival \o <<Event("new_page", user, {cid}, {page}, Nobody)>>)
        /\ UNCHANGED <<storeOf, deposit, lane, inbox, indexes, carries>>

\* The page goes, and whatever it was the last of.
DropPage(r, page) ==
    LET cid == connectionOf[page]
        user == ownerOf[cid]
        cids == IF pagesOf[cid] = {page} THEN {cid} ELSE {}
        users == IF cids # {} /\ connectionsOf[user] = {cid} THEN {user} ELSE {}
    IN  /\ Serving(r)
        /\ connectionOf[page] # Nobody
        /\ Taken({page}, cids, users)
        /\ carries' = Forgiven(users)
        /\ Says(r, <<Event("drop_pages", user, {}, {page}, Nobody)>>
                     \o (IF cids = {} THEN <<>>
                         ELSE <<Event("drop_connections", user, cids, {}, Nobody)>>)
                     \o (IF users = {} THEN <<>>
                         ELSE <<Event("drop_user", user, {}, {}, Nobody)>>))
        /\ UNCHANGED <<deposit, lane, inbox, indexes, born, met>>

DropConnection(r, cid) ==
    LET user == ownerOf[cid]
        users == IF connectionsOf[user] = {cid} THEN {user} ELSE {}
    IN  /\ Serving(r)
        /\ Held(cid)
        /\ Taken(pagesOf[cid], {cid}, users)
        /\ carries' = Forgiven(users)
        /\ Says(r, PagesGone(user, pagesOf[cid])
                     \o <<Event("drop_connections", user, {cid}, {}, Nobody)>>
                     \o (IF users = {} THEN <<>>
                         ELSE <<Event("drop_user", user, {}, {}, Nobody)>>))
        /\ UNCHANGED <<deposit, lane, inbox, indexes, born, met>>

DropUser(r, user) ==
    LET cids == connectionsOf[user]
    IN  /\ Serving(r)
        /\ user \in userRows
        /\ Taken(PagesUnder(cids), cids, {user})
        /\ carries' = Forgiven({user})
        /\ Says(r, PagesGone(user, PagesUnder(cids))
                     \o (IF cids = {} THEN <<>>
                         ELSE <<Event("drop_connections", user, cids, {}, Nobody)>>)
                     \o <<Event("drop_user", user, {}, {}, Nobody)>>)
        /\ UNCHANGED <<deposit, lane, inbox, indexes, born, met>>

\* The site writes in the store of the connection's owner.
Work(r) ==
    LET user == ownerOf[rq[r].cid]
    IN  /\ Serving(r)
        /\ Held(rq[r].cid)
        /\ storeOf' = [storeOf EXCEPT ![user] = @ \cup {user}]
        /\ carries' = [carries EXCEPT ![user] = @ \cup {user}]
        /\ Says(r, <<>>)
        /\ UNCHANGED <<userRows, connectionsOf, ownerOf, pagesOf, connectionOf, deposit, lane,
                       inbox, indexes, born, met>>
-----------------------------------------------------------------------------
(* The login: the row changes owner at once, its tail parks the connection. *)

Dropped(r, user) ==
    \E i \in DOMAIN rq[r].slot : rq[r].slot[i].op = "drop_user" /\ rq[r].slot[i].user = user

LoggedIn(r, cid, user, previous) ==
    /\ "again" \in Happens \/ ~Dropped(r, user)
    /\ ownerOf' = [ownerOf EXCEPT ![cid] = user]
    /\ rq' = [rq EXCEPT ![r].verbs = @ + 1, ![r].previous = previous,
                ![r].slot = Append(@, Event("connection_user_changed", user, {cid}, {}, previous))]
    /\ UNCHANGED <<pagesOf, connectionOf, deposit, lane, inbox, indexes, born, met>>

\* The entry of a guest becomes that of a person unknown here, store and all.
Transfer(r, user) ==
    LET cid == rq[r].cid
        guest == ownerOf[cid]
    IN  /\ "login" \in Happens
        /\ Serving(r)
        /\ Held(cid) /\ IsGuest(guest)
        /\ user \notin userRows
        /\ userRows' = (userRows \ {guest}) \cup {user}
        /\ connectionsOf' = [connectionsOf EXCEPT ![user] = connectionsOf[guest], ![guest] = {}]
        /\ storeOf' = [storeOf EXCEPT ![user] = storeOf[guest], ![guest] = {}]
        /\ carries' = [carries EXCEPT ![user] = @ \cup carries[guest], ![guest] = {}]
        /\ LoggedIn(r, cid, user, guest)

\* The connection joins the row of the person; the row it leaves empty goes.
Join(r, user) ==
    LET cid == rq[r].cid
        previous == ownerOf[cid]
        emptied == IF previous # user /\ connectionsOf[previous] = {cid} THEN {previous} ELSE {}
    IN  /\ Serving(r)
        /\ Held(cid)
        /\ IF IsGuest(previous) THEN "login" \in Happens /\ user \in userRows
           ELSE "switch" \in Happens
        /\ userRows' = (userRows \cup {user}) \ emptied
        /\ connectionsOf' = [other \in Identities |->
                               IF other = user THEN connectionsOf[user] \cup {cid}
                               ELSE connectionsOf[other] \ {cid}]
        /\ storeOf' = [other \in Identities |-> IF other \in emptied THEN {} ELSE storeOf[other]]
        /\ carries' = IF IsGuest(previous) THEN Forgiven({previous}) ELSE carries
        /\ LoggedIn(r, cid, user, previous)

\* The service ends; a request that logged in has its tail to run.
EndService(r) ==
    /\ rq[r].at = "serving"
    /\ Goes(r, IF rq[r].previous = Nobody THEN "replying" ELSE "tail")
    /\ UNCHANGED <<rows, deposit, lane, inbox, indexes, history>>

\* freeze_connection reads whose the connection is by now and claims the
\* departure of who owned it; no connection, or a claim taken, and nothing leaves.
ClaimDeparture(r) ==
    LET previous == rq[r].previous
        taken == \E other \in Requests :
                    rq[other].at \in {"claimed", "writing"} /\ rq[other].previous = previous
    IN  /\ rq[r].at = "tail"
        /\ rq' = IF Held(rq[r].cid) /\ ~taken
                 THEN [rq EXCEPT ![r].at = "claimed", ![r].heir = ownerOf[rq[r].cid]]
                 ELSE [rq EXCEPT ![r].at = "replying"]
        /\ UNCHANGED <<rows, deposit, lane, inbox, indexes, history>>

\* Mutant: the parcel leaves without the guest's store.
CopyParcelBare(r) ==
    LET cid == rq[r].cid
    IN  /\ rq[r].at = "claimed"
        /\ FolderFree(rq[r].heir)
        /\ rq' = IF ~Held(cid)
                 THEN [rq EXCEPT ![r].at = "replying"]
                 ELSE [rq EXCEPT ![r].at = "writing",
                         ![r].parcel = [user |-> rq[r].heir, cid |-> cid, pages |-> pagesOf[cid],
                                        carried |-> FALSE, store |-> {}]]
        /\ UNCHANGED <<rows, deposit, lane, inbox, indexes, history>>

\* With the folder his, the connection is copied; a guest's store goes with it.
CopyParcel(r) ==
    LET cid == rq[r].cid
        heir == rq[r].heir
        carried == IsGuest(rq[r].previous)
    IN  /\ rq[r].at = "claimed"
        /\ FolderFree(heir)
        /\ rq' = IF ~Held(cid) \/ (carried /\ heir \notin userRows)
                 THEN [rq EXCEPT ![r].at = "replying"]
                 ELSE [rq EXCEPT ![r].at = "writing",
                         ![r].parcel = [user |-> heir, cid |-> cid, pages |-> pagesOf[cid],
                                        carried |-> carried,
                                        store |-> IF carried THEN storeOf[heir] ELSE {}]]
        /\ UNCHANGED <<rows, deposit, lane, inbox, indexes, history>>

\* The parcel is on disk: the rows of the connection go, and those of the
\* guest, and those of the person if this was all he had here.
ReleaseLogin(r) ==
    LET parcel == rq[r].parcel
        cid == parcel.cid
        heir == parcel.user
        guests == {rq[r].previous} \cap Connections \cap userRows
        emptied == IF heir \in userRows \ guests /\ connectionsOf[heir] \ {cid} = {}
                   THEN {heir} ELSE {}
    IN  /\ rq[r].at = "writing"
        /\ deposit' = {other \in deposit : other.user # heir \/ other.cid # cid} \cup {parcel}
        /\ IF Held(cid)
           THEN /\ Taken(pagesOf[cid], {cid}, guests \cup emptied)
                /\ rq' = [rq EXCEPT ![r].at = "replying", ![r].parcel = Nobody,
                            ![r].slot = @ \o PagesGone(heir, pagesOf[cid])
                                \o (IF emptied = {} THEN <<>>
                                    ELSE <<Event("user_rows_released", heir, {}, {}, Nobody)>>)]
           ELSE /\ rq' = [rq EXCEPT ![r].at = "replying", ![r].parcel = Nobody]
                /\ UNCHANGED rows
        /\ UNCHANGED <<lane, inbox, indexes, history>>

\* The folder never came free or refused the parcel: everything stays alive.  The
\* parcel goes straight over the one that was there, which a refusal may destroy.
DepositFails(r) ==
    LET parcel == rq[r].parcel
    IN  /\ "refusal" \in Happens
        /\ rq[r].at \in {"claimed", "writing"}
        /\ OneVerbEach
        /\ met' = met \cup {"refusal"}
        /\ rq' = [rq EXCEPT ![r].at = "replying", ![r].parcel = Nobody]
        /\ \/ UNCHANGED deposit
           \/ /\ rq[r].at = "writing"
              /\ deposit' = {p \in deposit : p.user # parcel.user \/ p.cid # parcel.cid}
        /\ UNCHANGED <<rows, lane, inbox, indexes, born, carries>>

\* The reply, or the error, carries what the slot has collected.
SendReply(r) ==
    /\ rq[r].at = "replying"
    /\ Goes(r, "replied")
    /\ lane' = Append(lane, r)
    /\ UNCHANGED <<rows, deposit, inbox, indexes, history>>
-----------------------------------------------------------------------------
(* The fold: the reply that arrived first, its events in order, each       *)
(* through the handler, the group and the vertex.                          *)

Arrive ==
    /\ inbox = <<>> /\ lane # <<>>
    /\ inbox' = rq[Head(lane)].slot /\ lane' = Tail(lane)
    /\ rq' = [rq EXCEPT ![Head(lane)].at = "done", ![Head(lane)].slot = <<>>]
    /\ UNCHANGED <<rows, deposit, indexes, history>>

Folding(op) == inbox # <<>> /\ Head(inbox).op = op
Folded == inbox' = Tail(inbox) /\ UNCHANGED <<rows, rq, lane, history>>
\* The pages of a connection leave the index with it.
PagesForgotten(cids, pages) ==
    [page \in Pages |-> IF page \in pages \/ page_connection_map[page] \in cids THEN Nobody
                        ELSE page_connection_map[page]]

OnNewUser ==
    /\ Folding("new_user") /\ Folded
    /\ hosted_users' = hosted_users \cup {Head(inbox).user}
    /\ UNCHANGED <<deposit, connection_user_map, page_connection_map, user_map,
                   user_worker_map>>

\* Mutant: the group does not learn where its user was born.
OnNewConnectionUnplaced ==
    LET event == Head(inbox)
    IN  /\ Folding("new_connection") /\ Folded
        /\ connection_user_map' = [cid \in Connections |->
              IF cid \in event.cids THEN event.user ELSE connection_user_map[cid]]
        /\ user_map' = user_map \cup {event.user}
        /\ UNCHANGED <<deposit, page_connection_map, hosted_users, user_worker_map>>

OnNewConnection ==
    LET event == Head(inbox)
    IN  /\ Folding("new_connection") /\ Folded
        /\ connection_user_map' = [cid \in Connections |->
              IF cid \in event.cids THEN event.user ELSE connection_user_map[cid]]
        /\ user_map' = user_map \cup {event.user}
        /\ user_worker_map' = user_worker_map \cup {event.user}
        /\ UNCHANGED <<deposit, page_connection_map, hosted_users>>

OnNewPage ==
    LET event == Head(inbox)
    IN  /\ Folding("new_page") /\ Folded
        /\ \E cid \in event.cids :
             page_connection_map' = [page \in Pages |->
                IF page \in event.pages THEN cid ELSE page_connection_map[page]]
        /\ UNCHANGED <<deposit, connection_user_map, user_map, user_worker_map, hosted_users>>

\* The identity of a dropped connection is kept: the cookie is eternal.
OnDrop ==
    LET event == Head(inbox)
    IN  /\ Folding("drop_pages") \/ Folding("drop_connections")
        /\ Folded
        /\ page_connection_map' = PagesForgotten(event.cids, event.pages)
        /\ UNCHANGED <<deposit, connection_user_map, user_map, user_worker_map, hosted_users>>

\* A user is gone: his row, his placement, his connections and his folder.
OnDropUser ==
    LET user == Head(inbox).user
        cids == {cid \in Connections : connection_user_map[cid] = user}
    IN  /\ Folding("drop_user") /\ Folded
        /\ hosted_users' = hosted_users \ {user}
        /\ user_worker_map' = user_worker_map \ {user}
        /\ user_map' = user_map \ {user}
        /\ page_connection_map' = PagesForgotten(cids, {})
        /\ connection_user_map' = [cid \in Connections |->
              IF cid \in cids THEN Nobody ELSE connection_user_map[cid]]
        /\ deposit' = {parcel \in deposit : parcel.user # user}

\* A guest goes with his login, a person keeps what he has.
OnConnectionUserChanged ==
    LET event == Head(inbox)
        left == {event.previous} \cap Connections
    IN  /\ Folding("connection_user_changed") /\ Folded
        /\ hosted_users' = (hosted_users \ left) \cup {event.user}
        /\ user_worker_map' = user_worker_map \ left
        /\ user_map' = (user_map \cup {event.user}) \ left
        /\ connection_user_map' = [cid \in Connections |->
              IF cid \in event.cids THEN event.user ELSE connection_user_map[cid]]
        /\ UNCHANGED <<deposit, page_connection_map>>

\* Mutant: whoever left with his login stays on board.
OnUserRowsReleasedIgnored ==
    /\ Folding("user_rows_released") /\ Folded
    /\ UNCHANGED <<deposit, indexes>>

OnUserRowsReleased ==
    /\ Folding("user_rows_released") /\ Folded
    /\ hosted_users' = hosted_users \ {Head(inbox).user}
    /\ UNCHANGED <<deposit, connection_user_map, page_connection_map, user_map,
                   user_worker_map>>

Fold ==
    \/ Arrive \/ OnNewUser \/ OnNewConnection \/ OnNewPage \/ OnDrop \/ OnDropUser
    \/ OnConnectionUserChanged \/ OnUserRowsReleased

\* Mutant: the reserved prefix is not refused, one may log in as a guest.
VerbOfAnybody(r) ==
    \/ NewConnection(r) \/ Work(r)
    \/ \E page \in Pages : NewPage(r, page) \/ DropPage(r, page)
    \/ \E cid \in Connections : DropConnection(r, cid)
    \/ \E user \in Identities : DropUser(r, user) \/ Transfer(r, user) \/ Join(r, user)

Verb(r) ==
    \/ NewConnection(r) \/ Work(r)
    \/ \E page \in Pages : NewPage(r, page) \/ DropPage(r, page)
    \/ \E cid \in Connections : DropConnection(r, cid)
    \/ \E user \in Identities : DropUser(r, user)
    \/ \E user \in Persons : Transfer(r, user) \/ Join(r, user)

Service(r) ==
    \/ Receive(r) \/ OpenFolder(r) \/ Install(r) \/ InstallFails(r) \/ FolderFails(r)
    \/ EndService(r) \/ ClaimDeparture(r) \/ CopyParcel(r) \/ ReleaseLogin(r)
    \/ DepositFails(r) \/ SendReply(r)

Next ==
    \/ Fold
    \/ \E r \in Requests : Service(r) \/ Verb(r) \/ \E cid \in Connections : Send(r, cid)

Spec == Init /\ [][Next]_vars
-----------------------------------------------------------------------------
(* Properties                                                              *)

\* Every variable keeps its type; in particular no event and no parcel ever
\* names somebody else's guest as the owner of a connection.
TypeOK ==
    /\ userRows \subseteq Identities
    /\ connectionsOf \in [Identities -> SUBSET Connections]
    /\ storeOf \in [Identities -> SUBSET Identities]
    /\ ownerOf \in [Connections -> Identities \cup {Nobody}]
    /\ pagesOf \in [Connections -> SUBSET Pages]
    /\ connectionOf \in [Pages -> Connections \cup {Nobody}]
    /\ deposit \subseteq Parcels
    /\ rq \in [Requests ->
         [at : Phases, cid : Connections \cup {Nobody}, identity : Identities \cup {Nobody},
          verbs : Nat, slot : Seq(Events), previous : Identities \cup {Nobody},
          heir : Identities \cup {Nobody}, parcel : Parcels \cup {Nobody}]]
    /\ lane \in Seq(Requests) /\ inbox \in Seq(Events)
    /\ connection_user_map \in [Connections -> Identities \cup {Nobody}]
    /\ page_connection_map \in [Pages -> Connections \cup {Nobody}]
    /\ user_map \subseteq Identities
    /\ user_worker_map \subseteq Identities
    /\ hosted_users \subseteq Identities
    /\ born \in [Pages -> Connections \cup {Nobody}]
    /\ carries \in [Identities -> SUBSET Identities]
    /\ met \subseteq {"overlap", "refusal", "relapse"}

\* Both directions of every edge agree (register_registry.py: "both directions
\* of the edge in one gesture"), nothing hangs from a row that is not there.
EdgesAgree ==
    /\ \A user \in Identities, cid \in Connections :
         cid \in connectionsOf[user] <=> ownerOf[cid] = user
    /\ \A cid \in Connections, page \in Pages :
         page \in pagesOf[cid] <=> connectionOf[page] = cid
    /\ \A cid \in Connections : ownerOf[cid] \in userRows \cup {Nobody}
    /\ \A cid \in Connections : ownerOf[cid] = Nobody => pagesOf[cid] = {}

\* A guest has the connection he is named after and no other, so the login may
\* take his whole entry and the vertex may forget him with it
\* (spa_commander.py: "he had this one connection and nothing else").
GuestHasOneConnection ==
    \A guest \in Connections : connectionsOf[guest] \subseteq {guest}

\* A page stays under the connection it was opened under, in the rows and in
\* the index the channel's permission is read from, however the replies of
\* overlapping requests cross (spa_commander.py: "page_connection_map says which
\* connection a page belongs to, and that never changes for the life of the
\* page").
PageKeepsItsConnection ==
    \A page \in Pages :
        /\ connectionOf[page] \in {Nobody, born[page]}
        /\ page_connection_map[page] \in {Nobody, born[page]}

\* A cookie leads to a person or to its own guest, never to another's guest.
CookieLeadsHome ==
    \A cid \in Connections : connection_user_map[cid] \in OwnersOf(cid) \cup {Nobody}

\* Nobody reaches another's guest: a guest has one connection, his own, and no
\* other cookie leads to him, so that a login may take his whole entry
\* (spa_commander.py, change_connection_user).
GuestsStayHome == GuestHasOneConnection /\ CookieLeadsHome

Quiet == inbox = <<>> /\ \A r \in Requests : ~UnderWay(r)

\* What the levels above keep is a projection of the rows: when requests did
\* not overlap and every reply is folded, the pages are the pages there are,
\* whoever is in memory is known to the vertex, and every connection there is
\* leads to its owner (spa_worker.py: "what the vertex keeps per page is a
\* projection of the page rows").
MirrorAgrees ==
    Quiet /\ "overlap" \notin met =>
        /\ page_connection_map = connectionOf
        /\ \A cid \in Connections : Held(cid) => connection_user_map[cid] = ownerOf[cid]
        /\ userRows \subseteq user_map \cap hosted_users

\* Whoever has rows here has his requests routed here (envelope_handler.py: "a
\* connection born in a process places its user there").
RowsArePlaced == Quiet /\ met = {} => userRows \subseteq user_worker_map

\* Whoever the handler believes on board is in memory, so that a death is
\* settled on the people it took (envelope_handler.py: "a person this process
\* still holds").
OnBoardIsHeld == Quiet /\ met = {} => hosted_users \subseteq userRows

\* The people placed here, those on board and those in memory are the same
\* (envelope_handler.py, on_connection_user_changed and on_user_rows_released).
OneSetOfPeople == RowsArePlaced /\ OnBoardIsHeld

\* The work in the parcels of an identity, on disk and being carried.
Parked(user) == UNION {parcel.store : parcel \in {p \in deposit : p.user = user}}
Carried(user) ==
    UNION {rq[r].parcel.store : r \in {q \in Requests : /\ rq[q].parcel # Nobody
                                                        /\ rq[q].parcel.user = user}}

\* The work of an identity that has not been dropped is in its store, or in a
\* parcel of its connections, on disk or being carried; a guest's follows him
\* through the login (spa_worker.py: "the only thing that makes an anonymous
\* visit survive its own login").  Only a login, or the return of a connection
\* that logged in, to somebody resident lets a store die.
NoWorkLost ==
    met = {} => \A user \in Identities :
        carries[user] \subseteq storeOf[user] \cup Parked(user) \cup Carried(user)
=============================================================================
