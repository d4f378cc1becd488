-------------------------- MODULE Registers_proofs --------------------------
(***************************************************************************)
(* What holds of the registers for any connections, persons, pages and     *)
(* requests, however many of them overlap: the edges of the tree agree, a  *)
(* guest has no connection but his own, a page never changes connection    *)
(* and a cookie never leads to somebody else's guest.                      *)
(***************************************************************************)
EXTENDS Registers, TLAPS

\* An announcement of pages names the connection they were opened under.
Announced == {event \in Events : event.op = "new_page" =>
                \A cid \in event.cids, page \in event.pages : born[page] = cid}
\* A parcel carries pages of its own connection only.
Packed == {parcel \in Parcels : \A page \in parcel.pages : born[page] = parcel.cid}

RowsTyped ==
    /\ userRows \subseteq Identities
    /\ connectionsOf \in [Identities -> SUBSET Connections]
    /\ ownerOf \in [Connections -> Identities \cup {Nobody}]
    /\ pagesOf \in [Connections -> SUBSET Pages]
    /\ connectionOf \in [Pages -> Connections \cup {Nobody}]

StoresTyped ==
    /\ storeOf \in [Identities -> SUBSET Identities]
    /\ carries \in [Identities -> SUBSET Identities]
    /\ met \subseteq {"overlap", "refusal", "relapse"}

Tree == RowsTyped /\ EdgesAgree /\ GuestHasOneConnection

RequestType ==
    [at : Phases, cid : Connections \cup {Nobody}, identity : Identities \cup {Nobody},
     verbs : Nat, slot : Seq(Announced), previous : Identities \cup {Nobody},
     heir : Identities \cup {Nobody}, parcel : Packed \cup {Nobody}]

\* What the phase of a request says of its cookie, its owner and its parcel.
Sound(q) ==
    /\ q.at = "new" => q.previous = Nobody
    /\ q.at \notin {"new", "done"} => /\ q.cid \in Connections
                                      /\ q.identity \in OwnersOf(q.cid) \cup {Nobody}
                                      /\ q.previous \in OwnersOf(q.cid) \cup {Nobody}
    /\ q.at = "knocking" => q.identity # Nobody
    /\ q.at = "reading" => q.parcel.user = q.identity
    /\ q.at \in {"tail", "claimed", "writing"} => q.previous # Nobody
    /\ q.at = "claimed" => q.heir \in OwnersOf(q.cid)
    /\ q.at \in {"reading", "writing"} => q.parcel \in Packed /\ q.parcel.cid = q.cid

RequestsOK == rq \in [Requests -> RequestType] /\ \A r \in Requests : Sound(rq[r])

IndexesTyped ==
    /\ connection_user_map \in [Connections -> Identities \cup {Nobody}]
    /\ page_connection_map \in [Pages -> Connections \cup {Nobody}]
    /\ user_map \subseteq Identities
    /\ user_worker_map \subseteq Identities
    /\ hosted_users \subseteq Identities
    /\ CookieLeadsHome

Wire == lane \in Seq(Requests) /\ inbox \in Seq(Announced)

BornTyped == born \in [Pages -> Connections \cup {Nobody}]

IInv ==
    /\ Tree /\ StoresTyped /\ RequestsOK /\ IndexesTyped /\ Wire /\ BornTyped
    /\ deposit \subseteq Packed
    /\ PageKeepsItsConnection

-----------------------------------------------------------------------------
(* Sequences *)

LEMMA SeqWidens ==
    ASSUME NEW S, NEW T, S \subseteq T, NEW s \in Seq(S) PROVE s \in Seq(T)
<1>1. Len(s) \in Nat /\ s = [i \in 1 .. Len(s) |-> s[i]]
  OBVIOUS
<1>2. \A i \in 1 .. Len(s) : s[i] \in T
  OBVIOUS
<1> QED
  BY <1>1, <1>2

LEMMA SeqJoins ==
    ASSUME NEW S, NEW s \in Seq(S), NEW t \in Seq(S) PROVE s \o t \in Seq(S)
OBVIOUS

-----------------------------------------------------------------------------
(* The two gestures on the tree *)

LEMMA BroughtKeepsTree ==
    ASSUME RegistersAssumption, Tree, NEW cid \in Connections, NEW user \in OwnersOf(cid),
           NEW pages \in SUBSET Pages,
           ownerOf[cid] \in {Nobody, user},
           \A page \in pages : connectionOf[page] \in {Nobody, cid},
           Brought(cid, user, pages)
    PROVE  Tree'
<1> USE DEF Tree, RowsTyped, EdgesAgree, GuestHasOneConnection, Brought, OwnersOf, Identities
<1>1. RowsTyped'
  BY DEF RegistersAssumption
<1>2. \A other \in Identities, c \in Connections :
        c \in connectionsOf'[other] <=> ownerOf'[c] = other
  BY DEF RegistersAssumption
<1>3. \A c \in Connections, page \in Pages :
        page \in pagesOf'[c] <=> connectionOf'[page] = c
  BY DEF RegistersAssumption
<1>4. \A c \in Connections : ownerOf'[c] \in userRows' \cup {Nobody}
  BY DEF RegistersAssumption
<1>5. \A c \in Connections : ownerOf'[c] = Nobody => pagesOf'[c] = {}
  BY DEF RegistersAssumption
<1>6. GuestHasOneConnection'
  BY DEF RegistersAssumption
<1> QED
  BY <1>1, <1>2, <1>3, <1>4, <1>5, <1>6

LEMMA TakenKeepsTree ==
    ASSUME RegistersAssumption, Tree,
           NEW pages \in SUBSET Pages, NEW cids \in SUBSET Connections,
           NEW users \in SUBSET Identities,
           \A cid \in cids : pagesOf[cid] \subseteq pages,
           \A user \in users : connectionsOf[user] \subseteq cids,
           Taken(pages, cids, users)
    PROVE  Tree'
<1> USE DEF Tree, RowsTyped, EdgesAgree, GuestHasOneConnection, Taken, Identities
<1>1. RowsTyped'
  BY DEF RegistersAssumption
<1>2. \A other \in Identities, c \in Connections :
        c \in connectionsOf'[other] <=> ownerOf'[c] = other
  BY DEF RegistersAssumption
<1>3. \A c \in Connections, page \in Pages :
        page \in pagesOf'[c] <=> connectionOf'[page] = c
  BY DEF RegistersAssumption
<1>4. \A c \in Connections : ownerOf'[c] \in userRows' \cup {Nobody}
  BY DEF RegistersAssumption
<1>5. \A c \in Connections : ownerOf'[c] = Nobody => pagesOf'[c] = {}
  BY DEF RegistersAssumption
<1>6. GuestHasOneConnection'
  BY DEF RegistersAssumption
<1> QED
  BY <1>1, <1>2, <1>3, <1>4, <1>5, <1>6

LEMMA OwnerIsOneOfItsOwn ==
    ASSUME RegistersAssumption, Tree, NEW cid \in Connections, ownerOf[cid] # Nobody
    PROVE  ownerOf[cid] \in OwnersOf(cid) /\ ownerOf[cid] \in userRows
<1>1. ownerOf[cid] \in Identities /\ ownerOf[cid] \in userRows
  BY DEF Tree, RowsTyped, EdgesAgree
<1>2. cid \in connectionsOf[ownerOf[cid]]
  BY <1>1 DEF Tree, EdgesAgree
<1> QED
  BY <1>1, <1>2 DEF Tree, GuestHasOneConnection, OwnersOf, Identities

-----------------------------------------------------------------------------
(* What requests carry *)

LEMMA BornStays ==
    ASSUME UNCHANGED born
    PROVE  Announced' = Announced /\ Packed' = Packed /\ RequestType' = RequestType
           /\ \A q : Sound(q)' <=> Sound(q)
BY DEF Announced, Packed, RequestType, Sound

\* A page that had never been opened is on no wire: opening it takes nothing away.
LEMMA BornWidens ==
    ASSUME RegistersAssumption, NEW page \in Pages, NEW cid \in Connections,
           BornTyped, born[page] = Nobody, born' = [born EXCEPT ![page] = cid]
    PROVE  Announced \subseteq Announced' /\ Packed \subseteq Packed' /\ BornTyped'
<1>1. \A p \in Pages : born[p] # Nobody => born'[p] = born[p]
  BY DEF BornTyped
<1>2. BornTyped'
  BY DEF BornTyped
<1>3. ASSUME NEW event \in Announced PROVE event \in Announced'
  BY <1>1, <1>3 DEF Announced, Events, RegistersAssumption
<1>4. ASSUME NEW parcel \in Packed PROVE parcel \in Packed'
  BY <1>1, <1>4 DEF Packed, Parcels, RegistersAssumption
<1> QED
  BY <1>2, <1>3, <1>4

LEMMA EventIsAnnounced ==
    ASSUME NEW op \in Verbs, NEW user \in Identities, NEW cids \in SUBSET Connections,
           NEW pages \in SUBSET Pages, NEW previous \in Identities \cup {Nobody},
           op \in {"new_connection", "connection_user_changed"} =>
               \A cid \in cids : user \in OwnersOf(cid),
           op = "new_page" => \A cid \in cids, page \in pages : born[page] = cid
    PROVE  <<Event(op, user, cids, pages, previous)>> \in Seq(Announced)
<1>1. Event(op, user, cids, pages, previous) \in Events
  BY DEF Event, Events
<1>2. Event(op, user, cids, pages, previous) \in Announced
  BY <1>1 DEF Announced, Event
<1> QED
  BY <1>2

LEMMA ArrivalIsAnnounced ==
    ASSUME NEW cid \in Connections, NEW user \in OwnersOf(cid)
    PROVE  Arrival(cid, user) \in Seq(Announced)
<1>1. user \in Identities
  BY DEF OwnersOf, Identities
<1>2. <<Event("new_user", user, {}, {}, Nobody)>> \in Seq(Announced)
  BY <1>1, EventIsAnnounced DEF Verbs
<1>3. <<Event("new_connection", user, {cid}, {}, Nobody)>> \in Seq(Announced)
  BY <1>1, EventIsAnnounced DEF Verbs
<1>4. <<>> \in Seq(Announced)
  OBVIOUS
<1> QED
  BY <1>2, <1>3, <1>4, SeqJoins DEF Arrival

\* One request moves, and what may be announced or packed only grows.
LEMMA RequestMoves ==
    ASSUME RequestsOK, Announced \subseteq Announced', Packed \subseteq Packed',
           NEW r \in Requests,
           \E q : q \in RequestType' /\ Sound(q) /\ rq' = [rq EXCEPT ![r] = q]
    PROVE  RequestsOK'
<1>1. ASSUME NEW x \in RequestType PROVE x \in RequestType'
  <2>1. x.slot \in Seq(Announced')
    BY <1>1, SeqWidens DEF RequestType
  <2>2. x.parcel \in Packed' \cup {Nobody}
    BY <1>1 DEF RequestType
  <2> QED
    BY <1>1, <2>1, <2>2 DEF RequestType
<1>2. rq' \in [Requests -> RequestType']
  BY <1>1 DEF RequestsOK
<1>3. ASSUME NEW other \in Requests PROVE Sound(rq[other])'
  <2>1. Sound(rq'[other])
    BY DEF RequestsOK
  <2> QED
    BY <2>1 DEF Sound
<1> QED
  BY <1>2, <1>3 DEF RequestsOK

\* The same when nothing is opened.
LEMMA RequestSteps ==
    ASSUME RequestsOK, UNCHANGED born, NEW r \in Requests,
           \E q \in RequestType : Sound(q) /\ rq' = [rq EXCEPT ![r] = q]
    PROVE  RequestsOK'
BY BornStays, RequestMoves

LEMMA RequestIsTyped ==
    ASSUME RequestsOK, NEW r \in Requests
    PROVE  rq[r] \in RequestType /\ Sound(rq[r])
BY DEF RequestsOK

\* What does not move keeps what holds of it.
LEMMA RowsStay ==
    ASSUME Tree, UNCHANGED <<userRows, connectionsOf, ownerOf, pagesOf, connectionOf>>
    PROVE  Tree'
BY DEF Tree, RowsTyped, EdgesAgree, GuestHasOneConnection

\* Neither rows nor indexes move, nothing is opened.
LEMMA RestStaysWhateverMet ==
    ASSUME IInv, UNCHANGED <<rows, lane, inbox, indexes, born, carries>>,
           met' \subseteq {"overlap", "refusal", "relapse"}, RequestsOK', (deposit \subseteq Packed)'
    PROVE  IInv'
<1>1. Tree'
  BY RowsStay DEF IInv, rows
<1>2. StoresTyped' /\ IndexesTyped' /\ Wire' /\ BornTyped' /\ PageKeepsItsConnection'
  BY BornStays DEF IInv, rows, indexes, StoresTyped, IndexesTyped, Wire, BornTyped,
                   PageKeepsItsConnection, CookieLeadsHome
<1> QED
  BY <1>1, <1>2 DEF IInv

LEMMA RestStays ==
    ASSUME IInv, UNCHANGED <<rows, lane, inbox, indexes, history>>,
           RequestsOK', (deposit \subseteq Packed)'
    PROVE  IInv'
<1>1. met' \subseteq {"overlap", "refusal", "relapse"} /\ UNCHANGED <<rows, lane, inbox, indexes, born, carries>>
  BY DEF IInv, StoresTyped, history
<1> QED
  BY <1>1, RestStaysWhateverMet

LEMMA OthersStay ==
    ASSUME IInv, UNCHANGED <<rows, deposit, lane, inbox, indexes, history>>, RequestsOK'
    PROVE  IInv'
BY BornStays, RestStays DEF IInv, history

LEMMA RefusalStays ==
    ASSUME IInv, UNCHANGED <<rows, lane, inbox, indexes, born, carries>>, deposit' \subseteq deposit,
           met' = met \cup {"refusal"}, RequestsOK'
    PROVE  IInv'
BY BornStays, RestStaysWhateverMet DEF IInv, StoresTyped

-----------------------------------------------------------------------------
(* The steps of the service that move only their request *)

LEMMA ReceiveStep == ASSUME RegistersAssumption, IInv, NEW r \in Requests, Receive(r) PROVE IInv'
<1> DEFINE q == [rq[r] EXCEPT !.at = IF rq[r].identity = Nobody \/ Held(rq[r].cid)
                                     THEN "serving" ELSE "knocking"]
<1>1. rq[r] \in RequestType /\ Sound(rq[r]) /\ rq[r].at = "sent"
  BY RequestIsTyped DEF IInv, Receive
<1>2. q \in RequestType
  BY <1>1 DEF RequestType, Phases
<1>3. Sound(q)
  BY <1>1 DEF Sound, RequestType
<1>4. rq' = [rq EXCEPT ![r] = q]
  BY DEF Receive, Goes
<1> QED
  BY <1>2, <1>3, <1>4, RequestSteps, OthersStay DEF Receive, IInv, history

LEMMA OpenFolderStep ==
    ASSUME RegistersAssumption, IInv, NEW r \in Requests, OpenFolder(r) PROVE IInv'
<1>1. rq[r] \in RequestType /\ Sound(rq[r]) /\ rq[r].at = "knocking"
  BY RequestIsTyped DEF IInv, OpenFolder
<1>2. CASE rq' = [rq EXCEPT ![r].at = "serving"] /\ UNCHANGED deposit
  <2> DEFINE q == [rq[r] EXCEPT !.at = "serving"]
  <2>1. q \in RequestType /\ Sound(q) /\ rq' = [rq EXCEPT ![r] = q]
    BY <1>1, <1>2 DEF RequestType, Phases, Sound
  <2> QED
    BY <2>1, <1>2, RequestSteps, OthersStay DEF OpenFolder, IInv, history
<1>3. ASSUME NEW parcel \in deposit, parcel.user = rq[r].identity, parcel.cid = rq[r].cid,
             rq' = [rq EXCEPT ![r].at = "reading", ![r].parcel = parcel],
             deposit' = deposit \ {parcel}
      PROVE  IInv'
  <2> DEFINE q == [rq[r] EXCEPT !.at = "reading", !.parcel = parcel]
  <2>0. parcel \in Packed
    BY <1>3 DEF IInv
  <2>1. q \in RequestType
    BY <1>1, <2>0 DEF RequestType, Phases
  <2>2. Sound(q)
    BY <1>1, <1>3, <2>0 DEF RequestType, Sound
  <2>3. rq' = [rq EXCEPT ![r] = q]
    BY <1>3
  <2>4. RequestsOK'
    BY <2>1, <2>2, <2>3, RequestSteps DEF OpenFolder, IInv, history
  <2>5. (deposit \subseteq Packed)'
    BY <1>3, BornStays DEF OpenFolder, IInv, history
  <2> QED
    BY <2>4, <2>5, RestStays DEF OpenFolder
<1> QED
  BY <1>2, <1>3 DEF OpenFolder, Goes

LEMMA FolderFailsStep ==
    ASSUME RegistersAssumption, IInv, NEW r \in Requests, FolderFails(r) PROVE IInv'
<1> DEFINE q == [rq[r] EXCEPT !.at = "replying"]
<1>1. rq[r] \in RequestType /\ Sound(rq[r]) /\ rq[r].at = "knocking"
  BY RequestIsTyped DEF IInv, FolderFails
<1>2. q \in RequestType /\ Sound(q)
  BY <1>1 DEF RequestType, Phases, Sound
<1>3. rq' = [rq EXCEPT ![r] = q]
  BY DEF FolderFails, Goes
<1> QED
  BY <1>2, <1>3, RequestSteps, RefusalStays DEF FolderFails, IInv

LEMMA EndServiceStep ==
    ASSUME RegistersAssumption, IInv, NEW r \in Requests, EndService(r) PROVE IInv'
<1> DEFINE q == [rq[r] EXCEPT !.at = IF rq[r].previous = Nobody THEN "replying" ELSE "tail"]
<1>1. rq[r] \in RequestType /\ Sound(rq[r]) /\ rq[r].at = "serving"
  BY RequestIsTyped DEF IInv, EndService
<1>2. q \in RequestType
  BY <1>1 DEF RequestType, Phases
<1>3. Sound(q)
  BY <1>1 DEF RequestType, Sound
<1>4. rq' = [rq EXCEPT ![r] = q]
  BY DEF EndService, Goes
<1> QED
  BY <1>2, <1>3, <1>4, RequestSteps, OthersStay DEF EndService, IInv, history

LEMMA ClaimDepartureStep ==
    ASSUME RegistersAssumption, IInv, NEW r \in Requests, ClaimDeparture(r) PROVE IInv'
<1>1. rq[r] \in RequestType /\ Sound(rq[r]) /\ rq[r].at = "tail"
  BY RequestIsTyped DEF IInv, ClaimDeparture
<1>2. CASE rq' = [rq EXCEPT ![r].at = "replying"]
  <2> DEFINE q == [rq[r] EXCEPT !.at = "replying"]
  <2>1. q \in RequestType /\ Sound(q) /\ rq' = [rq EXCEPT ![r] = q]
    BY <1>1, <1>2 DEF RequestType, Phases, Sound
  <2> QED
    BY <2>1, RequestSteps, OthersStay DEF ClaimDeparture, IInv, history
<1>3. CASE /\ Held(rq[r].cid)
           /\ rq' = [rq EXCEPT ![r].at = "claimed", ![r].heir = ownerOf[rq[r].cid]]
  <2> DEFINE q == [rq[r] EXCEPT !.at = "claimed", !.heir = ownerOf[rq[r].cid]]
  <2>1. rq[r].cid \in Connections
    BY <1>1 DEF Sound
  <2>2. ownerOf[rq[r].cid] \in OwnersOf(rq[r].cid)
    BY <1>3, <2>1, OwnerIsOneOfItsOwn DEF IInv, Held
  <2>3. ownerOf[rq[r].cid] \in Identities
    BY <2>1, <2>2 DEF OwnersOf, Identities
  <2>4. q \in RequestType
    BY <1>1, <2>3 DEF RequestType, Phases
  <2>5. Sound(q)
    BY <1>1, <2>2 DEF RequestType, Sound
  <2>6. rq' = [rq EXCEPT ![r] = q]
    BY <1>3
  <2> QED
    BY <2>4, <2>5, <2>6, RequestSteps, OthersStay DEF ClaimDeparture, IInv, history
<1> QED
  BY <1>2, <1>3 DEF ClaimDeparture

\* Every page of a connection was opened under it.
LEMMA PagesWereOpenedThere ==
    ASSUME RegistersAssumption, Tree, PageKeepsItsConnection, NEW cid \in Connections
    PROVE  \A page \in pagesOf[cid] : page \in Pages /\ connectionOf[page] = cid /\ born[page] = cid
<1>1. pagesOf[cid] \subseteq Pages
  BY DEF Tree, RowsTyped
<1>2. \A page \in pagesOf[cid] : connectionOf[page] = cid
  BY <1>1 DEF Tree, EdgesAgree
<1> QED
  BY <1>1, <1>2 DEF PageKeepsItsConnection, RegistersAssumption

LEMMA CopyParcelStep ==
    ASSUME RegistersAssumption, IInv, NEW r \in Requests, CopyParcel(r) PROVE IInv'
<1> DEFINE cid == rq[r].cid
           heir == rq[r].heir
<1>1. rq[r] \in RequestType /\ Sound(rq[r]) /\ rq[r].at = "claimed"
  BY RequestIsTyped DEF IInv, CopyParcel
<1>2. CASE rq' = [rq EXCEPT ![r].at = "replying"]
  <2> DEFINE q == [rq[r] EXCEPT !.at = "replying"]
  <2>1. q \in RequestType /\ Sound(q) /\ rq' = [rq EXCEPT ![r] = q]
    BY <1>1, <1>2 DEF RequestType, Phases, Sound
  <2> QED
    BY <2>1, RequestSteps, OthersStay DEF CopyParcel, IInv, history
<1>3. ASSUME NEW carried \in BOOLEAN, NEW store \in SUBSET Identities,
             rq' = [rq EXCEPT ![r].at = "writing",
                      ![r].parcel = [user |-> heir, cid |-> cid, pages |-> pagesOf[cid],
                                     carried |-> carried, store |-> store]]
      PROVE  IInv'
  <2> DEFINE parcel == [user |-> heir, cid |-> cid, pages |-> pagesOf[cid],
                        carried |-> carried, store |-> store]
             q == [rq[r] EXCEPT !.at = "writing", !.parcel = parcel]
  <2>1. cid \in Connections /\ heir \in OwnersOf(cid) /\ heir \in Identities
    BY <1>1 DEF Sound, OwnersOf, Identities
  <2>2. pagesOf[cid] \in SUBSET Pages
    BY <2>1 DEF IInv, Tree, RowsTyped
  <2>3. parcel \in Parcels
    BY <1>3, <2>1, <2>2 DEF Parcels
  <2>4. parcel \in Packed
    BY <2>1, <2>3, PagesWereOpenedThere DEF Packed, IInv
  <2>5. q \in RequestType
    BY <1>1, <2>4 DEF RequestType, Phases
  <2>6. Sound(q)
    BY <1>1, <2>4 DEF RequestType, Sound
  <2>7. rq' = [rq EXCEPT ![r] = q]
    BY <1>3
  <2> QED
    BY <2>5, <2>6, <2>7, RequestSteps, OthersStay DEF CopyParcel, IInv, history
<1>4. storeOf[heir] \in SUBSET Identities
  BY <1>1 DEF Sound, OwnersOf, Identities, IInv, StoresTyped
<1>5. IsGuest(rq[r].previous) \in BOOLEAN
  BY DEF IsGuest
<1>6. (IF IsGuest(rq[r].previous) THEN storeOf[heir] ELSE {}) \in SUBSET Identities
  BY <1>4
<1> QED
  BY <1>2, <1>3, <1>5, <1>6 DEF CopyParcel

LEMMA DepositFailsStep ==
    ASSUME RegistersAssumption, IInv, NEW r \in Requests, DepositFails(r) PROVE IInv'
<1> DEFINE q == [rq[r] EXCEPT !.at = "replying", !.parcel = Nobody]
<1>1. rq[r] \in RequestType /\ Sound(rq[r]) /\ rq[r].at \in {"claimed", "writing"}
  BY RequestIsTyped DEF IInv, DepositFails
<1>2. q \in RequestType
  BY <1>1 DEF RequestType, Phases
<1>3. Sound(q)
  BY <1>1 DEF RequestType, Sound
<1>4. rq' = [rq EXCEPT ![r] = q]
  BY DEF DepositFails
<1> QED
  BY <1>2, <1>3, <1>4, RequestSteps, RefusalStays DEF DepositFails, IInv

LEMMA SendReplyStep ==
    ASSUME RegistersAssumption, IInv, NEW r \in Requests, SendReply(r) PROVE IInv'
<1> DEFINE q == [rq[r] EXCEPT !.at = "replied"]
<1>1. rq[r] \in RequestType /\ Sound(rq[r]) /\ rq[r].at = "replying"
  BY RequestIsTyped DEF IInv, SendReply
<1>2. q \in RequestType /\ Sound(q)
  BY <1>1 DEF RequestType, Phases, Sound
<1>3. rq' = [rq EXCEPT ![r] = q]
  BY DEF SendReply, Goes
<1>4. RequestsOK'
  BY <1>2, <1>3, RequestSteps DEF SendReply, IInv, history
<1>5. Tree'
  BY RowsStay DEF IInv, SendReply, rows
<1>6. Wire'
  BY BornStays DEF IInv, Wire, SendReply, history
<1>7. StoresTyped' /\ IndexesTyped' /\ BornTyped' /\ PageKeepsItsConnection'
  BY DEF IInv, SendReply, rows, indexes, history, StoresTyped, IndexesTyped, BornTyped,
         PageKeepsItsConnection, CookieLeadsHome
<1>8. (deposit \subseteq Packed)'
  BY BornStays DEF IInv, SendReply, history
<1> QED
  BY <1>4, <1>5, <1>6, <1>7, <1>8 DEF IInv

LEMMA SendStep ==
    ASSUME RegistersAssumption, IInv, NEW r \in Requests, NEW cid \in Connections, Send(r, cid)
    PROVE  IInv'
<1> DEFINE user == connection_user_map[cid]
           q == [rq[r] EXCEPT !.at = "sent", !.cid = cid, !.identity = user]
<1>1. rq[r] \in RequestType /\ Sound(rq[r]) /\ rq[r].at = "new"
  BY RequestIsTyped DEF IInv, Send
<1>2. user \in OwnersOf(cid) \cup {Nobody} /\ user \in Identities \cup {Nobody}
  BY DEF IInv, IndexesTyped, CookieLeadsHome
<1>3. q \in RequestType
  BY <1>1, <1>2 DEF RequestType, Phases
<1>4. Sound(q)
  BY <1>1, <1>2 DEF RequestType, Sound
<1>5. rq' = [rq EXCEPT ![r] = q]
  BY DEF Send
<1>6. RequestsOK'
  BY <1>3, <1>4, <1>5, RequestSteps DEF Send, IInv
<1>7. Tree'
  BY RowsStay DEF IInv, Send, rows
<1>8. IndexesTyped'
  BY <1>2 DEF IInv, IndexesTyped, Send, CookieLeadsHome
<1>9. StoresTyped'
  BY DEF IInv, StoresTyped, Send, rows
<1>10. Wire' /\ (deposit \subseteq Packed)'
  BY BornStays DEF IInv, Wire, Send
<1>11. BornTyped' /\ PageKeepsItsConnection'
  BY DEF IInv, BornTyped, PageKeepsItsConnection, Send, rows
<1> QED
  BY <1>6, <1>7, <1>8, <1>9, <1>10, <1>11 DEF IInv

-----------------------------------------------------------------------------
(* The steps that move the tree *)

\* The tree moves, the levels above have not heard of it yet.
LEMMA TreeMoves ==
    ASSUME IInv, UNCHANGED <<deposit, lane, inbox, indexes, born>>,
           Tree', StoresTyped', RequestsOK',
           \A page \in Pages : connectionOf'[page] \in {Nobody, born[page]}
    PROVE  IInv'
<1>1. IndexesTyped' /\ BornTyped' /\ PageKeepsItsConnection'
  BY DEF IInv, indexes, IndexesTyped, BornTyped, PageKeepsItsConnection, CookieLeadsHome
<1>2. Wire' /\ (deposit \subseteq Packed)'
  BY BornStays DEF IInv, Wire
<1> QED
  BY <1>1, <1>2 DEF IInv

LEMMA SaysIsSound ==
    ASSUME RequestsOK, UNCHANGED born, NEW r \in Requests, Serving(r),
           NEW events \in Seq(Announced), Says(r, events)
    PROVE  RequestsOK'
<1> DEFINE q == [rq[r] EXCEPT !.verbs = @ + 1, !.slot = @ \o events]
<1>1. rq[r] \in RequestType /\ Sound(rq[r]) /\ rq[r].at = "serving"
  BY RequestIsTyped DEF Serving
<1>2. rq[r].slot \o events \in Seq(Announced)
  BY <1>1, SeqJoins DEF RequestType
<1>3. q \in RequestType
  <2>1. rq[r].verbs + 1 \in Nat
    BY <1>1 DEF RequestType
  <2>2. \A verbs \in Nat, slot \in Seq(Announced) :
          [rq[r] EXCEPT !.verbs = verbs, !.slot = slot] \in RequestType
    BY <1>1 DEF RequestType
  <2> QED
    BY <1>2, <2>1, <2>2
<1>4. Sound(q)
  BY <1>1 DEF RequestType, Sound
<1>5. rq' = [rq EXCEPT ![r] = q]
  BY DEF Says
<1> QED
  BY <1>3, <1>4, <1>5, RequestSteps

\* A serving request has a cookie, and whom it may open it for can own it.
LEMMA HostOwns ==
    ASSUME RequestsOK, NEW r \in Requests, Serving(r)
    PROVE  rq[r].cid \in Connections /\ Host(r) \in OwnersOf(rq[r].cid)
BY RequestIsTyped DEF Serving, Sound, Host, OwnersOf

LEMMA NewConnectionStep ==
    ASSUME RegistersAssumption, IInv, NEW r \in Requests, NewConnection(r) PROVE IInv'
<1> DEFINE cid == rq[r].cid
<1>1. PICK user \in {cid, Host(r)} :
         /\ Serving(r) /\ ~Held(cid) /\ Brought(cid, user, {}) /\ Says(r, Arrival(cid, user))
         /\ met' = met \cup Relapse(r)
         /\ UNCHANGED <<storeOf, deposit, lane, inbox, indexes, born, carries>>
  BY DEF NewConnection
<1>2. cid \in Connections /\ user \in OwnersOf(cid)
  BY <1>1, HostOwns DEF IInv, OwnersOf
<1>3. Tree'
  BY <1>1, <1>2, BroughtKeepsTree DEF IInv, Held
<1>4. RequestsOK'
  BY <1>1, <1>2, ArrivalIsAnnounced, SaysIsSound DEF IInv
<1>5. StoresTyped'
  BY <1>1 DEF IInv, StoresTyped, Relapse
<1>6. \A page \in Pages : connectionOf'[page] \in {Nobody, born[page]}
  BY <1>1 DEF Brought, IInv, PageKeepsItsConnection
<1> QED
  BY <1>1, <1>3, <1>4, <1>5, <1>6, TreeMoves

LEMMA NewPageStep ==
    ASSUME RegistersAssumption, IInv, NEW r \in Requests, NEW page \in Pages, NewPage(r, page)
    PROVE  IInv'
<1> DEFINE cid == rq[r].cid
           user == IF Held(cid) THEN ownerOf[cid] ELSE Host(r)
           arrival == IF Held(cid) THEN <<>> ELSE Arrival(cid, user)
           events == arrival \o <<Event("new_page", user, {cid}, {page}, Nobody)>>
           q == [rq[r] EXCEPT !.verbs = @ + 1, !.slot = @ \o events]
<1>1. /\ Serving(r) /\ born[page] = Nobody /\ Brought(cid, user, {page})
      /\ born' = [born EXCEPT ![page] = cid]
      /\ rq' = [rq EXCEPT ![r] = q]
      /\ met' = met \cup (IF Held(cid) THEN {} ELSE Relapse(r))
      /\ UNCHANGED <<storeOf, deposit, lane, inbox, indexes, carries>>
  BY DEF NewPage, Says
<1>2. cid \in Connections /\ user \in OwnersOf(cid) /\ user \in Identities
  BY <1>1, HostOwns, OwnerIsOneOfItsOwn DEF IInv, OwnersOf, Held, Identities
<1>3. Announced \subseteq Announced' /\ Packed \subseteq Packed' /\ BornTyped'
  BY <1>1, <1>2, BornWidens DEF IInv
<1>4. connectionOf[page] = Nobody /\ page_connection_map[page] = Nobody
  BY <1>1 DEF IInv, PageKeepsItsConnection
<1>5. Tree'
  BY <1>1, <1>2, <1>4, BroughtKeepsTree DEF IInv, Held
<1>6. Event("new_page", user, {cid}, {page}, Nobody) \in Announced'
  <2>1. Event("new_page", user, {cid}, {page}, Nobody) \in Events
    BY <1>2 DEF Event, Events, Verbs
  <2>2. born'[page] = cid
    BY <1>1 DEF IInv, BornTyped
  <2> QED
    BY <2>1, <2>2 DEF Announced, Event
<1>7. events \in Seq(Announced')
  <2>1. arrival \in Seq(Announced)
    BY <1>2, ArrivalIsAnnounced
  <2>2. arrival \in Seq(Announced')
    BY <2>1, <1>3, SeqWidens
  <2>3. <<Event("new_page", user, {cid}, {page}, Nobody)>> \in Seq(Announced')
    BY <1>6
  <2> QED
    BY <2>2, <2>3, SeqJoins
<1>8. rq[r] \in RequestType /\ Sound(rq[r]) /\ rq[r].at = "serving"
  BY <1>1, RequestIsTyped DEF IInv, Serving
<1>9. q \in RequestType'
  <2>1. rq[r].slot \in Seq(Announced')
    BY <1>8, <1>3, SeqWidens DEF RequestType
  <2>2. rq[r].slot \o events \in Seq(Announced')
    BY <2>1, <1>7, SeqJoins
  <2>3. rq[r].verbs + 1 \in Nat
    BY <1>8 DEF RequestType
  <2>4. \A verbs \in Nat, slot \in Seq(Announced') :
          [rq[r] EXCEPT !.verbs = verbs, !.slot = slot] \in RequestType'
    BY <1>3, <1>8 DEF RequestType
  <2> QED
    BY <2>2, <2>3, <2>4
<1>10. Sound(q)
  BY <1>8 DEF RequestType, Sound
<1>11. RequestsOK'
  BY <1>1, <1>3, <1>9, <1>10, RequestMoves DEF IInv
<1>12. StoresTyped' /\ IndexesTyped'
  BY <1>1 DEF IInv, StoresTyped, IndexesTyped, indexes, CookieLeadsHome, Relapse
<1>13. Wire'
  BY <1>1, <1>3, SeqWidens DEF IInv, Wire
<1>14. (deposit \subseteq Packed)'
  BY <1>1, <1>3 DEF IInv
<1>15. PageKeepsItsConnection'
  BY <1>1, <1>2, <1>4 DEF IInv, PageKeepsItsConnection, Brought, indexes, BornTyped
<1> QED
  BY <1>3, <1>5, <1>11, <1>12, <1>13, <1>14, <1>15 DEF IInv

\* What a drop announces: the pages, the connections and the user that go.
LEMMA DropsAreAnnounced ==
    ASSUME NEW user \in Identities, NEW cids \in SUBSET Connections, NEW pages \in SUBSET Pages
    PROVE  /\ <<Event("drop_pages", user, {}, pages, Nobody)>> \in Seq(Announced)
           /\ <<Event("drop_connections", user, cids, {}, Nobody)>> \in Seq(Announced)
           /\ <<Event("drop_user", user, {}, {}, Nobody)>> \in Seq(Announced)
           /\ <<Event("user_rows_released", user, {}, {}, Nobody)>> \in Seq(Announced)
           /\ PagesGone(user, pages) \in Seq(Announced)
           /\ <<>> \in Seq(Announced)
<1>1. <<Event("drop_pages", user, {}, pages, Nobody)>> \in Seq(Announced)
  BY EventIsAnnounced DEF Verbs
<1>2. <<Event("drop_connections", user, cids, {}, Nobody)>> \in Seq(Announced)
  BY EventIsAnnounced DEF Verbs
<1>3. <<Event("drop_user", user, {}, {}, Nobody)>> \in Seq(Announced)
  BY EventIsAnnounced DEF Verbs
<1>4. <<Event("user_rows_released", user, {}, {}, Nobody)>> \in Seq(Announced)
  BY EventIsAnnounced DEF Verbs
<1>5. <<>> \in Seq(Announced)
  OBVIOUS
<1> QED
  BY <1>1, <1>2, <1>3, <1>4, <1>5 DEF PagesGone

\* Rows that go take nobody's work but their own, and open no page.
LEMMA TakenTakesNoMore ==
    ASSUME IInv, UNCHANGED met, NEW pages, NEW cids, NEW users \in SUBSET Identities,
           Taken(pages, cids, users), carries' = Forgiven(users)
    PROVE  StoresTyped' /\ \A page \in Pages : connectionOf'[page] \in {Nobody, born[page]}
BY DEF IInv, StoresTyped, Taken, Forgiven, PageKeepsItsConnection

LEMMA DropPageStep ==
    ASSUME RegistersAssumption, IInv, NEW r \in Requests, NEW page \in Pages, DropPage(r, page)
    PROVE  IInv'
<1> DEFINE cid == connectionOf[page]
           user == ownerOf[cid]
           cids == IF pagesOf[cid] = {page} THEN {cid} ELSE {}
           users == IF cids # {} /\ connectionsOf[user] = {cid} THEN {user} ELSE {}
           events == <<Event("drop_pages", user, {}, {page}, Nobody)>>
                     \o (IF cids = {} THEN <<>>
                         ELSE <<Event("drop_connections", user, cids, {}, Nobody)>>)
                     \o (IF users = {} THEN <<>>
                         ELSE <<Event("drop_user", user, {}, {}, Nobody)>>)
<1>1. /\ Serving(r) /\ cid # Nobody /\ Taken({page}, cids, users)
      /\ carries' = Forgiven(users) /\ Says(r, events)
      /\ UNCHANGED <<deposit, lane, inbox, indexes, born, met>>
  BY DEF DropPage
<1>2. cid \in Connections /\ page \in pagesOf[cid] /\ user # Nobody /\ user \in Identities
  BY <1>1 DEF IInv, Tree, RowsTyped, EdgesAgree
<1>3. Tree'
  <2>1. cids \in SUBSET Connections /\ users \in SUBSET Identities /\ {page} \in SUBSET Pages
    BY <1>2
  <2>2. \A c \in cids : pagesOf[c] \subseteq {page}
    OBVIOUS
  <2>3. \A other \in users : connectionsOf[other] \subseteq cids
    OBVIOUS
  <2> QED
    BY <1>1, <2>1, <2>2, <2>3, TakenKeepsTree DEF IInv
<1>4. events \in Seq(Announced)
  BY <1>2, DropsAreAnnounced, SeqJoins
<1>5. RequestsOK'
  BY <1>1, <1>4, SaysIsSound DEF IInv
<1>6. StoresTyped' /\ \A p \in Pages : connectionOf'[p] \in {Nobody, born[p]}
  BY <1>1, <1>2, TakenTakesNoMore
<1> QED
  BY <1>1, <1>3, <1>5, <1>6, TreeMoves

LEMMA DropConnectionStep ==
    ASSUME RegistersAssumption, IInv, NEW r \in Requests, NEW cid \in Connections,
           DropConnection(r, cid)
    PROVE  IInv'
<1> DEFINE user == ownerOf[cid]
           users == IF connectionsOf[user] = {cid} THEN {user} ELSE {}
           events == PagesGone(user, pagesOf[cid])
                     \o <<Event("drop_connections", user, {cid}, {}, Nobody)>>
                     \o (IF users = {} THEN <<>>
                         ELSE <<Event("drop_user", user, {}, {}, Nobody)>>)
<1>1. /\ Serving(r) /\ Held(cid) /\ Taken(pagesOf[cid], {cid}, users)
      /\ carries' = Forgiven(users) /\ Says(r, events)
      /\ UNCHANGED <<deposit, lane, inbox, indexes, born, met>>
  BY DEF DropConnection
<1>2. user \in Identities /\ pagesOf[cid] \in SUBSET Pages
  BY <1>1 DEF IInv, Tree, RowsTyped, Held
<1>3. Tree'
  BY <1>1, <1>2, TakenKeepsTree DEF IInv
<1>4. events \in Seq(Announced)
  BY <1>2, DropsAreAnnounced, SeqJoins
<1>5. RequestsOK'
  BY <1>1, <1>4, SaysIsSound DEF IInv
<1>6. StoresTyped' /\ \A p \in Pages : connectionOf'[p] \in {Nobody, born[p]}
  BY <1>1, <1>2, TakenTakesNoMore
<1> QED
  BY <1>1, <1>3, <1>5, <1>6, TreeMoves

LEMMA DropUserStep ==
    ASSUME RegistersAssumption, IInv, NEW r \in Requests, NEW user \in Identities,
           DropUser(r, user)
    PROVE  IInv'
<1> DEFINE cids == connectionsOf[user]
           events == PagesGone(user, PagesUnder(cids))
                     \o (IF cids = {} THEN <<>>
                         ELSE <<Event("drop_connections", user, cids, {}, Nobody)>>)
                     \o <<Event("drop_user", user, {}, {}, Nobody)>>
<1>1. /\ Serving(r) /\ Taken(PagesUnder(cids), cids, {user})
      /\ carries' = Forgiven({user}) /\ Says(r, events)
      /\ UNCHANGED <<deposit, lane, inbox, indexes, born, met>>
  BY DEF DropUser
<1>2. cids \in SUBSET Connections
  BY DEF IInv, Tree, RowsTyped
<1>3. PagesUnder(cids) \in SUBSET Pages /\ \A c \in cids : pagesOf[c] \subseteq PagesUnder(cids)
  BY <1>2 DEF IInv, Tree, RowsTyped, PagesUnder
<1>4. Tree'
  BY <1>1, <1>2, <1>3, TakenKeepsTree DEF IInv
<1>5. events \in Seq(Announced)
  BY <1>2, <1>3, DropsAreAnnounced, SeqJoins
<1>6. RequestsOK'
  BY <1>1, <1>5, SaysIsSound DEF IInv
<1>7. StoresTyped' /\ \A p \in Pages : connectionOf'[p] \in {Nobody, born[p]}
  BY <1>1, TakenTakesNoMore
<1> QED
  BY <1>1, <1>4, <1>6, <1>7, TreeMoves

LEMMA WorkStep ==
    ASSUME RegistersAssumption, IInv, NEW r \in Requests, Work(r) PROVE IInv'
<1> DEFINE user == ownerOf[rq[r].cid]
<1>1. /\ Serving(r) /\ Held(rq[r].cid) /\ Says(r, <<>>)
      /\ storeOf' = [storeOf EXCEPT ![user] = @ \cup {user}]
      /\ carries' = [carries EXCEPT ![user] = @ \cup {user}]
      /\ UNCHANGED <<userRows, connectionsOf, ownerOf, pagesOf, connectionOf, deposit, lane,
                     inbox, indexes, born, met>>
  BY DEF Work
<1>2. user \in Identities
  BY <1>1, HostOwns DEF IInv, Tree, RowsTyped, Held
<1>3. Tree'
  BY <1>1, RowsStay DEF IInv
<1>4. RequestsOK'
  <2>1. <<>> \in Seq(Announced)
    OBVIOUS
  <2> QED
    BY <1>1, <2>1, SaysIsSound DEF IInv
<1>5. StoresTyped'
  BY <1>1, <1>2 DEF IInv, StoresTyped
<1>6. \A p \in Pages : connectionOf'[p] \in {Nobody, born[p]}
  BY <1>1 DEF IInv, PageKeepsItsConnection
<1> QED
  BY <1>1, <1>3, <1>4, <1>5, <1>6, TreeMoves

LEMMA InstallStep ==
    ASSUME RegistersAssumption, IInv, NEW r \in Requests, Install(r) PROVE IInv'
<1> DEFINE parcel == rq[r].parcel
           cid == rq[r].cid
           user == rq[r].identity
           waking == IF parcel.pages = {} THEN <<>>
                     ELSE <<Event("new_page", user, {cid}, parcel.pages, Nobody)>>
           slot == rq[r].slot \o Arrival(cid, user) \o waking
           q == [rq[r] EXCEPT !.at = "serving", !.parcel = Nobody, !.slot = slot]
<1>1. rq[r] \in RequestType /\ Sound(rq[r]) /\ rq[r].at = "reading"
  BY RequestIsTyped DEF IInv, Install
<1>2. /\ ~Held(cid) /\ Brought(cid, user, parcel.pages)
      /\ rq' = [rq EXCEPT ![r].at = "serving", ![r].parcel = Nobody,
                          ![r].slot = @ \o Arrival(cid, user) \o waking]
      /\ UNCHANGED <<deposit, lane, inbox, indexes, born, met>>
  BY DEF Install
<1>3. parcel \in Packed /\ parcel.cid = cid /\ parcel.user = user /\ cid \in Connections
  BY <1>1 DEF Sound
<1>4. /\ user \in OwnersOf(cid) /\ user \in Identities /\ parcel.pages \in SUBSET Pages
      /\ parcel.store \in SUBSET Identities /\ parcel.carried \in BOOLEAN
      /\ \A page \in parcel.pages : born[page] = cid
  BY <1>3 DEF Packed, Parcels
<1>5. Tree'
  <2>1. \A page \in parcel.pages : connectionOf[page] \in {Nobody, cid}
    BY <1>4 DEF IInv, PageKeepsItsConnection
  <2> QED
    BY <1>2, <1>3, <1>4, <2>1, BroughtKeepsTree DEF IInv, Held
<1>6. slot \in Seq(Announced)
  <2>1. Event("new_page", user, {cid}, parcel.pages, Nobody) \in Announced
    BY <1>3, <1>4, EventIsAnnounced DEF Verbs, Announced, Event, Events
  <2>2. waking \in Seq(Announced)
    BY <2>1
  <2>3. Arrival(cid, user) \in Seq(Announced)
    BY <1>3, <1>4, ArrivalIsAnnounced
  <2>4. rq[r].slot \in Seq(Announced)
    BY <1>1 DEF RequestType
  <2> QED
    BY <2>2, <2>3, <2>4, SeqJoins
<1>7. q \in RequestType
  BY <1>1, <1>6 DEF RequestType, Phases
<1>8. Sound(q)
  BY <1>1 DEF RequestType, Sound
<1>9. rq' = [rq EXCEPT ![r] = q]
  BY <1>2
<1>10. RequestsOK'
  BY <1>2, <1>7, <1>8, <1>9, RequestSteps DEF IInv
<1>11. StoresTyped'
  BY <1>4 DEF IInv, StoresTyped, Install
<1>12. \A page \in Pages : connectionOf'[page] \in {Nobody, born[page]}
  BY <1>2, <1>4 DEF Brought, IInv, PageKeepsItsConnection
<1> QED
  BY <1>2, <1>5, <1>10, <1>11, <1>12, TreeMoves

LEMMA InstallFailsStep ==
    ASSUME RegistersAssumption, IInv, NEW r \in Requests, InstallFails(r) PROVE IInv'
<1> DEFINE user == rq[r].identity
           birth == IF user \in userRows THEN <<>>
                    ELSE <<Event("new_user", user, {}, {}, Nobody)>>
           slot == rq[r].slot \o birth
           q == [rq[r] EXCEPT !.at = "replying", !.parcel = Nobody, !.slot = slot]
<1>1. rq[r] \in RequestType /\ Sound(rq[r]) /\ rq[r].at = "reading"
  BY RequestIsTyped DEF IInv, InstallFails
<1>2. rq[r].parcel \in Packed /\ rq[r].parcel.user = user
  BY <1>1 DEF Sound
<1>3. user \in Identities
  BY <1>2 DEF Packed, Parcels
<1>4. Tree'
  BY <1>3 DEF InstallFails, IInv, Tree, RowsTyped, EdgesAgree, GuestHasOneConnection
<1>5. slot \in Seq(Announced)
  <2>1. birth \in Seq(Announced)
    BY <1>3, EventIsAnnounced DEF Verbs
  <2> QED
    BY <1>1, <2>1, SeqJoins DEF RequestType
<1>6. q \in RequestType
  BY <1>1, <1>5 DEF RequestType, Phases
<1>7. Sound(q)
  BY <1>1 DEF RequestType, Sound
<1>8. rq' = [rq EXCEPT ![r] = q]
  BY DEF InstallFails
<1>9. RequestsOK'
  BY <1>6, <1>7, <1>8, RequestSteps DEF InstallFails, IInv, history
<1>10. StoresTyped' /\ \A page \in Pages : connectionOf'[page] \in {Nobody, born[page]}
  BY DEF IInv, StoresTyped, PageKeepsItsConnection, InstallFails, history
<1> QED
  BY <1>4, <1>9, <1>10, TreeMoves DEF InstallFails, history

LEMMA ReleaseLoginStep ==
    ASSUME RegistersAssumption, IInv, NEW r \in Requests, ReleaseLogin(r) PROVE IInv'
<1> DEFINE parcel == rq[r].parcel
           cid == parcel.cid
           heir == parcel.user
           guests == {rq[r].previous} \cap Connections \cap userRows
           emptied == IF heir \in userRows \ guests /\ connectionsOf[heir] \ {cid} = {}
                      THEN {heir} ELSE {}
           released == IF emptied = {} THEN <<>>
                       ELSE <<Event("user_rows_released", heir, {}, {}, Nobody)>>
           slot == rq[r].slot \o PagesGone(heir, pagesOf[cid]) \o released
<1>1. rq[r] \in RequestType /\ Sound(rq[r]) /\ rq[r].at = "writing"
  BY RequestIsTyped DEF IInv, ReleaseLogin
<1>2. /\ parcel \in Packed /\ cid = rq[r].cid /\ cid \in Connections
      /\ heir \in OwnersOf(cid) /\ heir \in Identities
  BY <1>1 DEF Sound, Packed, Parcels
<1>3. (deposit \subseteq Packed)'
  BY <1>2, BornStays DEF ReleaseLogin, IInv, history
<1>4. IndexesTyped' /\ BornTyped' /\ Wire'
  BY BornStays DEF ReleaseLogin, IInv, indexes, history, IndexesTyped, CookieLeadsHome,
                   BornTyped, Wire
<1>5. CASE Held(cid)
  <2>1. /\ Taken(pagesOf[cid], {cid}, guests \cup emptied)
        /\ rq' = [rq EXCEPT ![r].at = "replying", ![r].parcel = Nobody,
                    ![r].slot = @ \o PagesGone(heir, pagesOf[cid]) \o released]
        /\ UNCHANGED <<indexes, history>>
    BY <1>5 DEF ReleaseLogin
  <2> DEFINE q == [rq[r] EXCEPT !.at = "replying", !.parcel = Nobody, !.slot = slot]
  <2>2. pagesOf[cid] \in SUBSET Pages
    BY <1>2 DEF IInv, Tree, RowsTyped
  <2>3. guests \subseteq {cid}
    BY <1>1, <1>2 DEF Sound, OwnersOf, RegistersAssumption
  <2>4. \A user \in guests \cup emptied : connectionsOf[user] \subseteq {cid}
    BY <2>3, <1>2 DEF IInv, Tree, GuestHasOneConnection
  <2>5. guests \cup emptied \in SUBSET Identities
    BY <1>2 DEF Identities
  <2>6. Tree'
    <3>1. PICK gone \in SUBSET Identities : gone = guests \cup emptied
      BY <2>5
    <3>2. Taken(pagesOf[cid], {cid}, gone) /\ \A user \in gone : connectionsOf[user] \subseteq {cid}
      BY <2>1, <2>4, <3>1
    <3> HIDE DEF cid, heir
    <3> QED
      BY <1>2, <2>2, <3>2, TakenKeepsTree DEF IInv
  <2>7. slot \in Seq(Announced)
    BY <1>1, <1>2, <2>2, DropsAreAnnounced, SeqJoins DEF RequestType
  <2>8. q \in RequestType
    BY <1>1, <2>7 DEF RequestType, Phases
  <2>9. Sound(q)
    BY <1>1 DEF RequestType, Sound
  <2>10. rq' = [rq EXCEPT ![r] = q]
    BY <2>1
  <2>11. RequestsOK'
    BY <2>1, <2>8, <2>9, <2>10, RequestSteps DEF IInv, history
  <2>12. StoresTyped' /\ PageKeepsItsConnection'
    BY <2>1, <2>5 DEF IInv, StoresTyped, PageKeepsItsConnection, Taken, indexes, history
  <2> QED
    BY <1>3, <1>4, <2>6, <2>11, <2>12 DEF IInv
<1>6. CASE ~Held(cid)
  <2>1. /\ rq' = [rq EXCEPT ![r].at = "replying", ![r].parcel = Nobody]
        /\ UNCHANGED <<rows, indexes, history>>
    BY <1>6 DEF ReleaseLogin
  <2> DEFINE q == [rq[r] EXCEPT !.at = "replying", !.parcel = Nobody]
  <2>2. q \in RequestType
    BY <1>1 DEF RequestType, Phases
  <2>3. Sound(q)
    BY <1>1 DEF RequestType, Sound
  <2>4. rq' = [rq EXCEPT ![r] = q]
    BY <2>1
  <2>5. RequestsOK'
    BY <2>1, <2>2, <2>3, <2>4, RequestSteps DEF IInv, history
  <2> QED
    BY <1>3, <2>1, <2>5, RestStays DEF ReleaseLogin
<1> QED
  BY <1>5, <1>6

-----------------------------------------------------------------------------
(* The login *)

LEMMA LoginIsSound ==
    ASSUME RegistersAssumption, IInv, NEW r \in Requests, Serving(r), NEW user \in Persons,
           NEW previous, previous \in OwnersOf(rq[r].cid),
           LoggedIn(r, rq[r].cid, user, previous)
    PROVE  RequestsOK'
<1> DEFINE cid == rq[r].cid
           slot == Append(rq[r].slot,
                          Event("connection_user_changed", user, {cid}, {}, previous))
           q == [rq[r] EXCEPT !.verbs = @ + 1, !.previous = previous, !.slot = slot]
<1>1. rq[r] \in RequestType /\ Sound(rq[r]) /\ rq[r].at = "serving" /\ cid \in Connections
  BY RequestIsTyped, HostOwns DEF IInv, Serving
<1>2. previous \in Identities /\ user \in Identities /\ user \in OwnersOf(cid)
  BY <1>1 DEF OwnersOf, Identities
<1>3. Event("connection_user_changed", user, {cid}, {}, previous) \in Announced
  BY <1>1, <1>2 DEF Announced, Event, Events, Verbs
<1>4. slot \in Seq(Announced)
  BY <1>1, <1>3 DEF RequestType
<1>5. q \in RequestType
  <2>1. rq[r].verbs + 1 \in Nat
    BY <1>1 DEF RequestType
  <2>2. \A verbs \in Nat, s \in Seq(Announced) :
          [rq[r] EXCEPT !.verbs = verbs, !.previous = previous, !.slot = s] \in RequestType
    BY <1>1, <1>2 DEF RequestType
  <2> QED
    BY <1>4, <2>1, <2>2
<1>6. Sound(q)
  BY <1>1 DEF RequestType, Sound
<1>7. rq' = [rq EXCEPT ![r] = q]
  BY DEF LoggedIn
<1> QED
  BY <1>5, <1>6, <1>7, RequestSteps DEF LoggedIn, IInv

LEMMA TransferStep ==
    ASSUME RegistersAssumption, IInv, NEW r \in Requests, NEW user \in Persons,
           Transfer(r, user)
    PROVE  IInv'
<1> DEFINE cid == rq[r].cid
           guest == ownerOf[cid]
<1>1. /\ Serving(r) /\ guest # Nobody /\ guest \in Connections /\ user \notin userRows
      /\ userRows' = (userRows \ {guest}) \cup {user}
      /\ connectionsOf' = [connectionsOf EXCEPT ![user] = connectionsOf[guest], ![guest] = {}]
      /\ storeOf' = [storeOf EXCEPT ![user] = storeOf[guest], ![guest] = {}]
      /\ carries' = [carries EXCEPT ![user] = @ \cup carries[guest], ![guest] = {}]
      /\ LoggedIn(r, cid, user, guest)
  BY DEF Transfer, Held, IsGuest
<1>2. /\ ownerOf' = [ownerOf EXCEPT ![cid] = user]
      /\ UNCHANGED <<pagesOf, connectionOf, deposit, lane, inbox, indexes, born, met>>
  BY <1>1 DEF LoggedIn
<1>3. cid \in Connections /\ guest \in OwnersOf(cid)
  BY <1>1, HostOwns, OwnerIsOneOfItsOwn DEF IInv
<1>4. guest = cid /\ user \in Identities /\ guest \in Identities /\ user # guest
  BY <1>1, <1>3 DEF OwnersOf, RegistersAssumption, Identities
<1>5. connectionsOf[guest] = {cid} /\ connectionsOf[user] = {}
  BY <1>1, <1>3, <1>4 DEF IInv, Tree, RowsTyped, EdgesAgree, GuestHasOneConnection,
                          RegistersAssumption, Identities
<1>6. Tree'
  <2> USE <1>1, <1>2, <1>3, <1>4, <1>5 DEF IInv, Tree, RowsTyped
  <2>1. RowsTyped'
    OBVIOUS
  <2>2. \A other \in Identities, c \in Connections :
          c \in connectionsOf'[other] <=> ownerOf'[c] = other
    BY DEF EdgesAgree
  <2>3. \A c \in Connections, page \in Pages : page \in pagesOf'[c] <=> connectionOf'[page] = c
    BY DEF EdgesAgree
  <2>4. \A c \in Connections : ownerOf'[c] \in userRows' \cup {Nobody}
    BY DEF EdgesAgree
  <2>5. \A c \in Connections : ownerOf'[c] = Nobody => pagesOf'[c] = {}
    BY DEF EdgesAgree, RegistersAssumption, Identities
  <2>6. GuestHasOneConnection'
    BY DEF GuestHasOneConnection, RegistersAssumption, Identities
  <2> QED
    BY <2>1, <2>2, <2>3, <2>4, <2>5, <2>6 DEF EdgesAgree
<1>7. RequestsOK'
  BY <1>1, <1>3, LoginIsSound
<1>8. StoresTyped'
  BY <1>1, <1>2, <1>4 DEF IInv, StoresTyped
<1>9. \A page \in Pages : connectionOf'[page] \in {Nobody, born[page]}
  BY <1>2 DEF IInv, PageKeepsItsConnection
<1> QED
  BY <1>2, <1>6, <1>7, <1>8, <1>9, TreeMoves

LEMMA JoinStep ==
    ASSUME RegistersAssumption, IInv, NEW r \in Requests, NEW user \in Persons, Join(r, user)
    PROVE  IInv'
<1> DEFINE cid == rq[r].cid
           previous == ownerOf[cid]
           emptied == IF previous # user /\ connectionsOf[previous] = {cid}
                      THEN {previous} ELSE {}
<1>1. /\ Serving(r) /\ previous # Nobody
      /\ userRows' = (userRows \cup {user}) \ emptied
      /\ connectionsOf' = [other \in Identities |->
                             IF other = user THEN connectionsOf[user] \cup {cid}
                             ELSE connectionsOf[other] \ {cid}]
      /\ storeOf' = [other \in Identities |->
                       IF other \in emptied THEN {} ELSE storeOf[other]]
      /\ carries' = IF IsGuest(previous) THEN Forgiven({previous}) ELSE carries
      /\ LoggedIn(r, cid, user, previous)
  BY DEF Join, Held
<1>2. /\ ownerOf' = [ownerOf EXCEPT ![cid] = user]
      /\ UNCHANGED <<pagesOf, connectionOf, deposit, lane, inbox, indexes, born, met>>
  BY <1>1 DEF LoggedIn
<1>3. /\ cid \in Connections /\ previous \in OwnersOf(cid) /\ user \in Identities
      /\ previous \in Identities /\ user \notin Connections
  BY <1>1, HostOwns, OwnerIsOneOfItsOwn DEF IInv, OwnersOf, Identities, RegistersAssumption
<1>4. Tree'
  <2> USE <1>1, <1>2, <1>3 DEF IInv, Tree, RowsTyped
  <2>1. RowsTyped'
    OBVIOUS
  <2>2. \A other \in Identities, c \in Connections :
          c \in connectionsOf'[other] <=> ownerOf'[c] = other
    BY DEF EdgesAgree
  <2>3. \A c \in Connections, page \in Pages : page \in pagesOf'[c] <=> connectionOf'[page] = c
    BY DEF EdgesAgree
  <2>4. \A c \in Connections : ownerOf'[c] \in userRows' \cup {Nobody}
    BY DEF EdgesAgree
  <2>5. \A c \in Connections : ownerOf'[c] = Nobody => pagesOf'[c] = {}
    BY DEF EdgesAgree, RegistersAssumption, Identities
  <2>6. GuestHasOneConnection'
    BY DEF GuestHasOneConnection, Identities
  <2> QED
    BY <2>1, <2>2, <2>3, <2>4, <2>5, <2>6 DEF EdgesAgree
<1>5. RequestsOK'
  BY <1>1, <1>3, LoginIsSound
<1>6. StoresTyped'
  BY <1>1, <1>2 DEF IInv, StoresTyped, Forgiven
<1>7. \A page \in Pages : connectionOf'[page] \in {Nobody, born[page]}
  BY <1>2 DEF IInv, PageKeepsItsConnection
<1> QED
  BY <1>2, <1>4, <1>5, <1>6, <1>7, TreeMoves

-----------------------------------------------------------------------------
(* The fold *)

\* The event at the head of the envelope is one that could be announced.
LEMMA HeadIsAnnounced ==
    ASSUME Wire, NEW op, Folding(op)
    PROVE  /\ Head(inbox) \in Announced /\ Head(inbox).user \in Identities
           /\ Head(inbox).cids \in SUBSET Connections /\ Head(inbox).pages \in SUBSET Pages
<1>1. Head(inbox) \in Announced
  BY DEF Wire, Folding
<1> QED
  BY <1>1 DEF Announced, Events

\* A fold moves the indexes and the deposit only, and takes one event.
LEMMA FoldStep ==
    ASSUME IInv, inbox # <<>>, Folded, IndexesTyped', deposit' \subseteq deposit,
           \A page \in Pages : page_connection_map'[page] \in {Nobody, born[page]}
    PROVE  IInv'
<1>1. Tree'
  BY RowsStay DEF IInv, Folded, rows
<1>2. StoresTyped' /\ BornTyped'
  BY DEF IInv, Folded, rows, history, StoresTyped, BornTyped
<1>3. RequestsOK'
  BY BornStays DEF IInv, Folded, history, RequestsOK
<1>4. Wire'
  BY BornStays DEF IInv, Folded, history, Wire
<1>5. (deposit \subseteq Packed)'
  BY BornStays DEF IInv, Folded, history
<1>6. PageKeepsItsConnection'
  BY DEF IInv, Folded, rows, history, PageKeepsItsConnection
<1> QED
  BY <1>1, <1>2, <1>3, <1>4, <1>5, <1>6 DEF IInv

LEMMA ArriveStep == ASSUME RegistersAssumption, IInv, Arrive PROVE IInv'
<1> DEFINE r == Head(lane)
           q == [rq[r] EXCEPT !.at = "done", !.slot = <<>>]
<1>1. r \in Requests /\ lane' \in Seq(Requests)
  BY DEF Arrive, IInv, Wire
<1>2. rq[r] \in RequestType /\ Sound(rq[r])
  BY <1>1, RequestIsTyped DEF IInv
<1>4. <<>> \in Seq(Announced)
  OBVIOUS
<1>5. q \in RequestType
  BY <1>2, <1>4 DEF RequestType, Phases
<1>6. Sound(q)
  BY <1>2 DEF RequestType, Sound
<1>7. rq' = [rq EXCEPT ![r] = q]
  BY DEF Arrive
<1>8. RequestsOK'
  BY <1>1, <1>5, <1>6, <1>7, RequestSteps DEF Arrive, IInv, history
<1>9. Wire'
  BY <1>1, <1>2, BornStays DEF Arrive, Wire, history, RequestType
<1>10. Tree'
  BY RowsStay DEF Arrive, IInv, rows
<1>11. StoresTyped' /\ IndexesTyped' /\ BornTyped' /\ PageKeepsItsConnection'
  BY DEF Arrive, IInv, rows, indexes, history, StoresTyped, IndexesTyped, BornTyped,
         PageKeepsItsConnection, CookieLeadsHome
<1>12. (deposit \subseteq Packed)'
  BY BornStays DEF Arrive, IInv, history
<1> QED
  BY <1>8, <1>9, <1>10, <1>11, <1>12 DEF IInv

LEMMA FoldsStep == ASSUME RegistersAssumption, IInv, Fold PROVE IInv'
<1> DEFINE event == Head(inbox)
<1>0. IndexesTyped /\ Wire /\ PageKeepsItsConnection
  BY DEF IInv
<1>1. CASE Arrive
  BY <1>1, ArriveStep
<1>2. CASE OnNewUser
  <2>1. event.user \in Identities
    BY <1>0, <1>2, HeadIsAnnounced DEF OnNewUser
  <2>2. IndexesTyped'
    BY <1>0, <1>2, <2>1 DEF OnNewUser, IndexesTyped, CookieLeadsHome
  <2> QED
    BY <1>0, <1>2, <2>2, FoldStep DEF OnNewUser, Folding, PageKeepsItsConnection
<1>3. CASE OnNewConnection
  <2>1. event \in Announced /\ event.user \in Identities
    BY <1>0, <1>3, HeadIsAnnounced DEF OnNewConnection
  <2>2. event.op = "new_connection"
    BY <1>3 DEF OnNewConnection, Folding
  <2>3. \A cid \in event.cids : event.user \in OwnersOf(cid)
    BY <2>1, <2>2 DEF Announced, Events
  <2>4. IndexesTyped'
    BY <1>0, <1>3, <2>1, <2>3 DEF OnNewConnection, IndexesTyped, CookieLeadsHome
  <2> QED
    BY <1>0, <1>3, <2>4, FoldStep DEF OnNewConnection, Folding, PageKeepsItsConnection
<1>4. CASE OnNewPage
  <2>1. event \in Announced /\ event.cids \in SUBSET Connections
    BY <1>0, <1>4, HeadIsAnnounced DEF OnNewPage
  <2>2. event.op = "new_page"
    BY <1>4 DEF OnNewPage, Folding
  <2>3. \A cid \in event.cids, page \in event.pages : born[page] = cid
    BY <2>1, <2>2 DEF Announced
  <2>4. PICK cid \in event.cids :
          page_connection_map' = [page \in Pages |->
             IF page \in event.pages THEN cid ELSE page_connection_map[page]]
    BY <1>4 DEF OnNewPage
  <2>5. IndexesTyped'
    BY <1>0, <1>4, <2>1, <2>4 DEF OnNewPage, IndexesTyped, CookieLeadsHome
  <2>6. \A page \in Pages : page_connection_map'[page] \in {Nobody, born[page]}
    BY <1>0, <2>3, <2>4 DEF PageKeepsItsConnection
  <2> QED
    BY <1>4, <2>5, <2>6, FoldStep DEF OnNewPage, Folding
<1>5. CASE OnDrop
  <2>1. page_connection_map' = PagesForgotten(event.cids, event.pages)
    BY <1>5 DEF OnDrop
  <2>2. IndexesTyped'
    BY <1>0, <1>5, <2>1 DEF OnDrop, IndexesTyped, CookieLeadsHome, PagesForgotten
  <2>3. \A page \in Pages : page_connection_map'[page] \in {Nobody, born[page]}
    BY <1>0, <2>1 DEF PageKeepsItsConnection, PagesForgotten
  <2> QED
    BY <1>5, <2>2, <2>3, FoldStep DEF OnDrop, Folding
<1>6. CASE OnDropUser
  <2>1. IndexesTyped'
    BY <1>0, <1>6 DEF OnDropUser, IndexesTyped, CookieLeadsHome, PagesForgotten
  <2>2. \A page \in Pages : page_connection_map'[page] \in {Nobody, born[page]}
    BY <1>0, <1>6 DEF OnDropUser, PageKeepsItsConnection, PagesForgotten
  <2>3. deposit' \subseteq deposit
    BY <1>6 DEF OnDropUser
  <2> QED
    BY <1>6, <2>1, <2>2, <2>3, FoldStep DEF OnDropUser, Folding
<1>7. CASE OnConnectionUserChanged
  <2>1. event \in Announced /\ event.user \in Identities
    BY <1>0, <1>7, HeadIsAnnounced DEF OnConnectionUserChanged
  <2>2. event.op = "connection_user_changed"
    BY <1>7 DEF OnConnectionUserChanged, Folding
  <2>3. \A cid \in event.cids : event.user \in OwnersOf(cid)
    BY <2>1, <2>2 DEF Announced, Events
  <2>4. IndexesTyped'
    BY <1>0, <1>7, <2>1, <2>3 DEF OnConnectionUserChanged, IndexesTyped, CookieLeadsHome
  <2> QED
    BY <1>0, <1>7, <2>4, FoldStep DEF OnConnectionUserChanged, Folding, PageKeepsItsConnection
<1>8. CASE OnUserRowsReleased
  <2>1. IndexesTyped'
    BY <1>0, <1>8 DEF OnUserRowsReleased, IndexesTyped, CookieLeadsHome
  <2> QED
    BY <1>0, <1>8, <2>1, FoldStep DEF OnUserRowsReleased, Folding, PageKeepsItsConnection
<1> QED
  BY <1>1, <1>2, <1>3, <1>4, <1>5, <1>6, <1>7, <1>8 DEF Fold

-----------------------------------------------------------------------------
(* The invariant *)

LEMMA InitIsSound == ASSUME RegistersAssumption, Init PROVE IInv
<1> USE DEF Init
<1>1. Tree
  BY DEF Tree, RowsTyped, EdgesAgree, GuestHasOneConnection, RegistersAssumption, Identities
<1>2. StoresTyped /\ IndexesTyped /\ BornTyped /\ PageKeepsItsConnection
  BY DEF StoresTyped, IndexesTyped, BornTyped, PageKeepsItsConnection, CookieLeadsHome
<1>3. RequestsOK
  BY DEF RequestsOK, RequestType, Sound, Phases
<1>4. Wire /\ deposit \subseteq Packed
  BY DEF Wire
<1> QED
  BY <1>1, <1>2, <1>3, <1>4 DEF IInv

LEMMA NextKeeps == ASSUME RegistersAssumption, IInv, [Next]_vars PROVE IInv'
<1>1. CASE Fold
  BY <1>1, FoldsStep
<1>2. ASSUME NEW r \in Requests, Service(r) PROVE IInv'
  BY <1>2, ReceiveStep, OpenFolderStep, InstallStep, InstallFailsStep, FolderFailsStep,
     EndServiceStep, ClaimDepartureStep, CopyParcelStep, ReleaseLoginStep, DepositFailsStep,
     SendReplyStep DEF Service
<1>3. ASSUME NEW r \in Requests, Verb(r) PROVE IInv'
  BY <1>3, NewConnectionStep, WorkStep, NewPageStep, DropPageStep, DropConnectionStep,
     DropUserStep, TransferStep, JoinStep DEF Verb
<1>4. ASSUME NEW r \in Requests, NEW cid \in Connections, Send(r, cid) PROVE IInv'
  BY <1>4, SendStep
<1>5. CASE UNCHANGED vars
  <2>1. RequestsOK' /\ (deposit \subseteq Packed)'
    BY <1>5, BornStays DEF IInv, vars, history, RequestsOK
  <2> QED
    BY <1>5, <2>1, RestStays DEF vars
<1> QED
  BY <1>1, <1>2, <1>3, <1>4, <1>5 DEF Next

\* The types of the registers, of the wire and of the indexes, TypeOK of the
\* module: in particular no event and no parcel names another's guest.
THEOREM TypeCorrect == Spec => []TypeOK
<1>1. IInv => TypeOK
  <2> SUFFICES ASSUME IInv PROVE TypeOK
    OBVIOUS
  <2>1. Announced \subseteq Events /\ Packed \subseteq Parcels
    BY DEF Announced, Packed
  <2>2. inbox \in Seq(Events)
    BY <2>1, SeqWidens DEF IInv, Wire
  <2>3. ASSUME NEW q \in RequestType
        PROVE  q \in [at : Phases, cid : Connections \cup {Nobody},
                      identity : Identities \cup {Nobody}, verbs : Nat, slot : Seq(Events),
                      previous : Identities \cup {Nobody}, heir : Identities \cup {Nobody},
                      parcel : Parcels \cup {Nobody}]
    <3>1. q.slot \in Seq(Events)
      BY <2>1, <2>3, SeqWidens DEF RequestType
    <3> QED
      BY <2>1, <2>3, <3>1 DEF RequestType
  <2> QED
    BY <2>1, <2>2, <2>3 DEF TypeOK, IInv, Tree, RowsTyped, StoresTyped, IndexesTyped, Wire,
                            BornTyped, RequestsOK
<1> QED
  BY <1>1, InitIsSound, NextKeeps, RegistersAssumption, PTL DEF Spec

\* Both directions of every edge agree and nothing hangs from a row that is not
\* there, whatever the verbs of overlapping requests do (register_registry.py).
THEOREM TreeKeepsItsEdges == Spec => []EdgesAgree
<1>1. IInv => EdgesAgree
  BY DEF IInv, Tree
<1> QED
  BY <1>1, InitIsSound, NextKeeps, RegistersAssumption, PTL DEF Spec

\* A page stays under the connection it was opened under, in the rows and in the
\* index, however the replies of overlapping requests cross.
THEOREM PagesKeepTheirConnection == Spec => []PageKeepsItsConnection
<1>1. IInv => PageKeepsItsConnection
  BY DEF IInv
<1> QED
  BY <1>1, InitIsSound, NextKeeps, RegistersAssumption, PTL DEF Spec

\* A guest has no connection but his own and no cookie leads to another's guest,
\* whatever the order in which drops and logins are folded.
THEOREM GuestsAreAtHome == Spec => []GuestsStayHome
<1>1. IInv => GuestsStayHome
  BY DEF IInv, Tree, IndexesTyped, GuestsStayHome, CookieLeadsHome
<1> QED
  BY <1>1, InitIsSound, NextKeeps, RegistersAssumption, PTL DEF Spec
=============================================================================
