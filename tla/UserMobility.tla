---------------------------- MODULE UserMobility ----------------------------
(***************************************************************************)
(* One user of a group between its worker processes and the freezer: the   *)
(* routing of his requests at the vertex (spa_commander.py), his placement *)
(* (group_handler.py), the fold of what the processes announce             *)
(* (envelope_handler.py), and in each process the adoption of his store,   *)
(* the service of his calls and his departure (spa_worker.py).             *)
(*                                                                         *)
(* The vertex is one asyncio loop and so is each process: a step is what   *)
(* one of them does between two awaits.  Vertex and process talk over a    *)
(* lane that keeps the order in both directions.  His store is the set of  *)
(* the requests whose work it contains.                                    *)
(***************************************************************************)
EXTENDS Naturals, Sequences, FiniteSets, Functions

CONSTANTS
    Workers,    \* the worker processes the group may have
    Requests,   \* the requests the user's browser sends
    None,       \* no worker, no order
    Happens,    \* which of the disturbances below can happen
    MaxOrders,  \* bound: the departures the group orders
    MaxCrashes  \* bound: the processes that die unasked

\* birth    a placement finds no room and launches a worker
\* longcall a call of his still runs when the group finds him idle
\* expiry   a call of his outlives the wait of the order that wants him away
\* restart  the group tells a worker to quit and replaces it
\* cut      a call outlives the grace of a quit
\* overdue  a worker told to quit does not go, and is killed
\* crash    a process dies unasked
\* failure  the deposit refuses to read or to write
Disturbances == {"birth", "longcall", "expiry", "restart", "cut", "overdue", "crash", "failure"}

ASSUME MobilityAssumption ==
    /\ None \notin Workers \cup Requests \cup Nat
    /\ Happens \subseteq Disturbances
    /\ MaxOrders \in Nat /\ MaxCrashes \in Nat

VARIABLES
    vertex,     \* user_map row (known, frozen, hold) and user_worker_map (placement)
    placing,    \* GroupHandler._placement_lock: who waits, and the worker being launched
    handler,    \* per worker: WorkerHandler.state, hosted_users, worker_snapshot, the orders
    rq,         \* per request: where it is, on which worker, its slot
    down, up,   \* per worker: the lane to the process and back
    proc,       \* per worker: the process and the user's rows in it
    deposit,    \* the user's folder in the freezer, with the files that were cut short
    purged,     \* history: the machine declared the user lost
    spent       \* bounds: orders given and processes dead so far

vars == <<vertex, placing, handler, rq, down, up, proc, deposit, purged, spent>>

Events == {"new_user", "user_adopted", "new_connection", "user_frozen"}
Ended == {"done", "failed", "refused", "stranger"}
Phases == {"new", "queued", "sent", "pulling", "awaiting", "fetching", "serving",
           "failing", "leaving", "closing", "replied"} \cup Ended
OrderIds == 0 .. MaxOrders          \* 0 is no order
Senders == Requests \cup OrderIds
Stores == SUBSET Requests
Photos == {"none", "away", "busy", "idle", "ceded"}

Orders == [kind : {"request", "freeze", "quit"}, who : Senders, frozen : BOOLEAN]
Envelopes ==
    [kind : {"reply", "error", "announce", "frozen", "refused", "quitting"},
     who : Senders, events : SUBSET Events, photo : Photos]
Departures ==
    [by : {"none", "order", "cycle", "inline"}, order : OrderIds,
     step : {"none", "waiting", "locking", "writing"}]
Processes ==
    [alive : BOOLEAN, quitting : BOOLEAN, row : {"absent", "unfreezing", "active"},
     store : Stores, conn : BOOLEAN, pend : SUBSET Requests, orders : SUBSET OrderIds,
     flag : BOOLEAN, dep : Departures, copy : Stores, carries : BOOLEAN, dirty : BOOLEAN]

TypeOK ==
    /\ vertex \in [known : BOOLEAN, frozen : BOOLEAN, hold : BOOLEAN,
                   placement : Workers \cup {None}]
    /\ placing \in [queue : Seq(Requests), launching : Workers \cup {None},
                    owner : Requests \cup {None}]
    /\ handler \in [Workers ->
          [state : {"unborn", "starting", "running", "quitting", "quitted", "aborted", "dropped"},
           hosted : BOOLEAN, photo : Photos, freezing : OrderIds, expected : BOOLEAN]]
    /\ rq \in [Requests ->
          [phase : Phases, on : Workers \cup {None}, events : SUBSET Events,
           good : BOOLEAN, base : SUBSET Requests]]
    /\ down \in [Workers -> Seq(Orders)]
    /\ up \in [Workers -> Seq(Envelopes)]
    /\ proc \in [Workers -> Processes]
    /\ deposit \in [parcel : SUBSET Stores, conn : BOOLEAN, torn : SUBSET {"store", "conn"},
                    lock : Workers \cup {None}]
    /\ purged \in BOOLEAN
    /\ spent \in [orders : OrderIds, crashes : 0 .. MaxCrashes]

NoDeparture == [by |-> "none", order |-> 0, step |-> "none"]
Gone ==
    [alive |-> FALSE, quitting |-> FALSE, row |-> "absent", store |-> {}, conn |-> FALSE,
     pend |-> {}, orders |-> {}, flag |-> FALSE, dep |-> NoDeparture, copy |-> {},
     carries |-> FALSE, dirty |-> FALSE]
Empty == [Gone EXCEPT !.alive = TRUE]

\* He starts asleep in the deposit, or at home in a running worker; the other
\* workers run without him or are still to be launched.
Init ==
    /\ \E home \in Workers \cup {None}, running \in SUBSET Workers :
         /\ running # {} /\ home \in running \cup {None}
         /\ "birth" \notin Happens => running = Workers
         /\ vertex = [known |-> TRUE, frozen |-> home = None, hold |-> FALSE, placement |-> home]
         /\ deposit = [parcel |-> IF home = None THEN {{}} ELSE {},
                       conn |-> home = None, torn |-> {}, lock |-> None]
         /\ handler = [w \in Workers |->
                [state |-> IF w \in running THEN "running" ELSE "unborn",
                 hosted |-> w = home, photo |-> IF w = home THEN "idle" ELSE "away",
                 freezing |-> 0, expected |-> FALSE]]
         /\ proc = [w \in Workers |->
                IF w = home THEN [Empty EXCEPT !.row = "active", !.conn = TRUE]
                ELSE IF w \in running THEN Empty ELSE Gone]
    /\ placing = [queue |-> <<>>, launching |-> None, owner |-> None]
    /\ rq = [r \in Requests |->
          [phase |-> "new", on |-> None, events |-> {}, good |-> TRUE, base |-> {}]]
    /\ down = [w \in Workers |-> <<>>]
    /\ up = [w \in Workers |-> <<>>]
    /\ purged = FALSE
    /\ spent = [orders |-> 0, crashes |-> 0]

-----------------------------------------------------------------------------
(* The vertex and the group: routing, placement, the waiting room. *)

Answered == {r \in Requests : rq[r].phase = "done"}
Open == {w \in Workers : handler[w].state = "running"}
Unborn == {w \in Workers : handler[w].state = "unborn"}

End(r, phase) == rq' = [rq EXCEPT ![r].phase = phase]

\* SendTo without the verdict: his worker never looks for his store.
SendUnmarked(r, w) ==
    IF handler[w].state \in {"quitted", "aborted"}
    THEN End(r, "failed") /\ UNCHANGED down
    ELSE /\ rq' = [rq EXCEPT ![r] = [@ EXCEPT !.phase = "sent", !.on = w, !.base = Answered]]
         /\ down' = [down EXCEPT ![w] = Append(@, [kind |-> "request", who |-> r, frozen |-> FALSE])]

\* The verdict is read as the request leaves; a process already off the bus
\* takes nothing.
SendTo(r, w) ==
    IF handler[w].state \in {"quitted", "aborted"}
    THEN End(r, "failed") /\ UNCHANGED down
    ELSE /\ rq' = [rq EXCEPT ![r] =
               [@ EXCEPT !.phase = "sent", !.on = w, !.base = Answered]]
         /\ down' = [down EXCEPT ![w] = Append(@,
               [kind |-> "request", who |-> r, frozen |-> vertex.frozen])]

\* The end of assign_user: the placement is written, the request leaves.  With
\* the user gone meanwhile record_user_group raises after the placement.
Place(r, w) ==
    /\ vertex' = [vertex EXCEPT !.placement = w]
    /\ IF vertex.known THEN SendTo(r, w) ELSE End(r, "failed") /\ UNCHANGED down

\* Under the placement lock: a worker that admits him, one launched for him
\* (and the lock is kept), or a refusal.  Whether he was placed while the
\* request waited for the lock is not looked at.
AssignUser(r, waiting) ==
    \/ \E w \in Open :
         /\ Place(r, w)
         /\ placing' = [placing EXCEPT !.queue = waiting]
         /\ UNCHANGED handler
    \/ \E w \in Unborn :
         /\ "birth" \in Happens
         /\ placing' = [queue |-> waiting, launching |-> w, owner |-> r]
         /\ handler' = [handler EXCEPT ![w].state = "starting"]
         /\ rq' = [rq EXCEPT ![r].phase = "queued"]
         /\ UNCHANGED <<vertex, down>>
    \/ /\ Open = {}
       /\ End(r, "refused")
       /\ placing' = [placing EXCEPT !.queue = waiting]
       /\ UNCHANGED <<vertex, handler, down>>

\* serve_request: who he is, where he lives, a place if he has none.
ResolveWorker(r) ==
    /\ rq[r].phase = "new"
    /\ ~vertex.hold
    /\ \/ /\ ~vertex.known
          /\ End(r, "stranger")
          /\ UNCHANGED <<vertex, placing, handler, down>>
       \/ /\ vertex.known /\ vertex.placement # None
          /\ SendTo(r, vertex.placement)
          /\ UNCHANGED <<vertex, placing, handler>>
       \/ /\ vertex.known /\ vertex.placement = None
          /\ placing.launching = None /\ placing.queue = <<>>
          /\ AssignUser(r, <<>>)
       \/ /\ vertex.known /\ vertex.placement = None
          /\ placing.launching # None \/ placing.queue # <<>>
          /\ placing' = [placing EXCEPT !.queue = Append(@, r)]
          /\ rq' = [rq EXCEPT ![r].phase = "queued"]
          /\ UNCHANGED <<vertex, handler, down>>
    /\ UNCHANGED <<up, proc, deposit, purged, spent>>

\* The lock is free again: the next in line is placed.
NextPlacement ==
    /\ placing.launching = None
    /\ placing.queue # <<>>
    /\ AssignUser(Head(placing.queue), Tail(placing.queue))
    /\ UNCHANGED <<up, proc, deposit, purged, spent>>

\* Another user's placement takes the lock to launch a worker for him.
LaunchForAnother(w) ==
    /\ "birth" \in Happens
    /\ handler[w].state = "unborn"
    /\ placing.launching = None /\ placing.queue = <<>>
    /\ placing' = [placing EXCEPT !.launching = w]
    /\ handler' = [handler EXCEPT ![w].state = "starting"]
    /\ UNCHANGED <<vertex, rq, down, up, proc, deposit, purged, spent>>

\* The launched process presents itself: whoever launched it goes there.
Present(w) ==
    /\ handler[w].state = "starting"
    /\ handler' = [handler EXCEPT ![w].state = "running"]
    /\ proc' = [proc EXCEPT ![w] = Empty]
    /\ IF placing.launching # w
       THEN UNCHANGED <<vertex, placing, rq, down>>
       ELSE /\ placing' = [placing EXCEPT !.launching = None, !.owner = None]
            /\ IF placing.owner = None
               THEN UNCHANGED <<vertex, rq, down>>
               ELSE Place(placing.owner, w)
    /\ UNCHANGED <<up, deposit, purged, spent>>

\* It never does (start_worker returns None): who launched it for himself falls
\* back on a worker closed to the others, or is refused.
LaunchFails(w) ==
    /\ "failure" \in Happens
    /\ handler[w].state = "starting"
    /\ handler' = [handler EXCEPT ![w].state = "dropped"]
    /\ IF placing.launching # w
       THEN UNCHANGED <<vertex, placing, rq, down>>
       ELSE /\ placing' = [placing EXCEPT !.launching = None, !.owner = None]
            /\ IF placing.owner = None
               THEN UNCHANGED <<vertex, rq, down>>
               ELSE \/ \E v \in Open : Place(placing.owner, v)
                    \/ End(placing.owner, "refused") /\ UNCHANGED <<vertex, down>>
    /\ UNCHANGED <<up, proc, deposit, purged, spent>>

\* await_user_release runs out of the request's budget.
HoldTimeout(r) ==
    /\ rq[r].phase = "new"
    /\ vertex.hold
    /\ End(r, "refused")
    /\ UNCHANGED <<vertex, placing, handler, down, up, proc, deposit, purged, spent>>

\* The group's turn gives one order at a time and waits for its end.
TurnFree == \A w \in Workers : handler[w].freezing = 0 /\ handler[w].state # "quitting"

\* GiveOrder counting the order twice.
GiveOrderTwice(w, kind, order) ==
    /\ down' = [down EXCEPT ![w] = Append(@, [kind |-> kind, who |-> order, frozen |-> FALSE])]
    /\ spent' = [spent EXCEPT !.orders = order + 1]

GiveOrder(w, kind, order) ==
    /\ down' = [down EXCEPT ![w] = Append(@, [kind |-> kind, who |-> order, frozen |-> FALSE])]
    /\ spent' = [spent EXCEPT !.orders = order]

\* freeze_hosted_user: the block first, then the order.  The last photo shows
\* him without a live call (check_cpu_offload), or idle for minutes while one
\* of his calls runs on (check_user_activity).
FreezeHostedUser(w) ==
    /\ TurnFree
    /\ spent.orders < MaxOrders
    /\ handler[w].state = "running"
    /\ vertex.known /\ vertex.placement = w
    /\ \/ handler[w].photo = "idle"
       \/ handler[w].photo = "busy" /\ "longcall" \in Happens
    /\ vertex' = [vertex EXCEPT !.hold = TRUE]
    /\ handler' = [handler EXCEPT ![w].freezing = spent.orders + 1]
    /\ GiveOrder(w, "freeze", spent.orders + 1)
    /\ UNCHANGED <<placing, rq, up, proc, deposit, purged>>

\* DEPARTURE_ORDER_WAIT_LIMIT passes while the order waits for a call of his:
\* it is given up here, not over there.
FreezeOrderExpires(w) ==
    /\ "expiry" \in Happens
    /\ handler[w].freezing \in proc[w].orders /\ proc[w].pend # {}
    /\ handler' = [handler EXCEPT ![w].freezing = 0]
    /\ vertex' = [vertex EXCEPT !.hold = FALSE]
    /\ UNCHANGED <<placing, rq, down, up, proc, deposit, purged, spent>>

\* restart_worker up to quit_process: no block is raised before the order.
OrderQuit(w) ==
    /\ "restart" \in Happens
    /\ TurnFree
    /\ spent.orders < MaxOrders
    /\ handler[w].state = "running"
    /\ handler' = [handler EXCEPT ![w].state = "quitting", ![w].expected = TRUE]
    /\ GiveOrder(w, "quit", spent.orders + 1)
    /\ UNCHANGED <<vertex, placing, rq, up, proc, deposit, purged>>

\* The marks read wrongly: an adoption leaves the mark on; any envelope drops the
\* block; the answer to an order is recognised only when it is a success.
FrozenAfterDeaf(m) == vertex.frozen \/ "user_frozen" \in m.events
HoldAfterForgetful(m) == m.photo = "ceded" /\ m.events \cap {"user_frozen", "user_adopted"} = {}
AnswersOnSuccess(w, m) == m.kind = "frozen" /\ handler[w].freezing = m.who

\* What the marks say once envelope m is read: frozen and adopted both let him
\* out of the waiting room, and a photo with his flag puts him there first.
Marks(m) == m.events \cap {"user_frozen", "user_adopted"}
FrozenAfter(m) ==
    IF Marks(m) = {} THEN vertex.frozen ELSE "user_frozen" \in m.events
HoldAfter(m) == (vertex.hold \/ m.photo = "ceded") /\ Marks(m) = {}

\* The envelope carries the answer the group's turn waits for; a refusal gives
\* the block back.
Answers(w, m) == m.kind \in {"frozen", "refused"} /\ handler[w].freezing = m.who

\* One envelope climbs the chain: each layer reads the photo, then the events.
\* Who was let into the placement lock has run before the bus is read again.
\* At the vertex a mark on a user who is gone raises, and the rest of the
\* envelope is not read there.
Fold(w) ==
    LET m == Head(up[w])
        raises == ~vertex.known /\ (m.photo = "ceded" \/ Marks(m) # {})
    IN  /\ up[w] # <<>>
        /\ placing.launching # None \/ placing.queue = <<>>
        /\ up' = [up EXCEPT ![w] = Tail(@)]
        /\ vertex' =
             [known |-> vertex.known \/ ("new_connection" \in m.events /\ ~raises),
              frozen |-> vertex.known /\ FrozenAfter(m),
              hold |-> vertex.known /\ HoldAfter(m) /\ ~(Answers(w, m) /\ m.kind = "refused"),
              placement |-> IF "user_frozen" \in m.events THEN None
                            ELSE IF "new_connection" \in m.events THEN w ELSE vertex.placement]
        /\ handler' = [handler EXCEPT
             ![w].photo = IF m.photo = "none" THEN @ ELSE m.photo,
             ![w].hosted = "user_frozen" \notin m.events
                             /\ (@ \/ m.events \cap {"new_user", "user_adopted"} # {}),
             ![w].freezing = IF Answers(w, m) THEN 0 ELSE @]
        /\ rq' = CASE m.kind \in {"reply", "error"} ->
                        [rq EXCEPT ![m.who] = [@ EXCEPT
                            !.phase = IF m.kind = "reply" THEN "done" ELSE "failed", !.events = {}]]
                   [] m.kind = "announce" /\ m.who \in Requests ->
                        [rq EXCEPT ![m.who].phase = "closing"]
                   [] OTHER -> rq
        /\ UNCHANGED <<placing, down, proc, deposit, purged, spent>>

\* The process left the bus, and everything it had sent is folded.  What was
\* asked of it fails; an awaited death is an orderly one.
Lose(w) ==
    /\ handler[w].state \in {"running", "quitting"}
    /\ ~proc[w].alive
    /\ up[w] = <<>>
    /\ handler' = [handler EXCEPT
         ![w].state = IF handler[w].expected THEN "quitted" ELSE "aborted", ![w].freezing = 0]
    /\ vertex' = [vertex EXCEPT !.hold = @ /\ handler[w].freezing = 0]
    /\ rq' = [r \in Requests |->
         IF rq[r].on = w /\ rq[r].phase \notin Ended
         THEN [rq[r] EXCEPT !.phase = "failed", !.events = {}] ELSE rq[r]]
    /\ down' = [down EXCEPT ![w] = <<>>]
    /\ UNCHANGED <<placing, up, proc, deposit, purged, spent>>

\* report_death and drop_worker, with the fresh worker a restart launches.
ReportDeath(w) ==
    LET quitted == handler[w].state = "quitted"
        saved == handler[w].hosted /\ quitted /\ handler[w].photo = "ceded"
        lost == handler[w].hosted /\ vertex.placement = w /\ ~saved
    IN  /\ handler[w].state \in {"quitted", "aborted"}
        /\ vertex' =
             IF lost THEN [known |-> FALSE, frozen |-> FALSE, hold |-> FALSE, placement |-> None]
             ELSE [vertex EXCEPT
                     !.placement = IF saved \/ @ = w THEN None ELSE @,
                     !.frozen = @ \/ (saved /\ vertex.known),
                     !.hold = @ /\ ~saved]
        /\ deposit' = IF lost THEN [parcel |-> {}, conn |-> FALSE, torn |-> {}, lock |-> None]
                      ELSE deposit
        /\ purged' = (purged \/ lost)
        /\ \E fresh \in IF quitted /\ Unborn # {} THEN Unborn ELSE {w} :
             handler' = [handler EXCEPT ![fresh].state = "starting", ![w].state = "dropped"]
        /\ UNCHANGED <<placing, rq, down, up, proc, spent>>

-----------------------------------------------------------------------------
(* The process: what goes out, adoption, service. *)

Alive(r) == proc[rq[r].on].alive

\* What the photo shows of him.
PhotoOf(p) ==
    IF p.row # "absent" /\ p.flag THEN "ceded"
    ELSE IF p.row # "active" THEN "away"
    ELSE IF p.pend # {} THEN "busy" ELSE "idle"

\* p is the process at w after the step; the envelope it sends carries a photo
\* when the population changed, or when the last one is old.
Outbound(w, p, kind, who, events) ==
    \E fresh \in BOOLEAN :
        /\ p.dirty => fresh
        /\ proc' = [proc EXCEPT ![w] = [p EXCEPT !.dirty = @ /\ ~fresh]]
        /\ up' = [up EXCEPT ![w] = Append(@, [kind |-> kind, who |-> who, events |-> events,
                    photo |-> IF fresh THEN PhotoOf(p) ELSE "none"])]

\* Who is here with his connection is served at once; the others look for it
\* in the deposit first (adopt_connection).
Stage(p) == IF p.conn THEN "serving" ELSE "fetching"

\* A request is taken from the lane: open_request, then adopt_user on the verdict.
ReceiveRequest(w) ==
    LET m == Head(down[w])
        p == [proc[w] EXCEPT !.pend = @ \cup {m.who}]
        wakes == m.frozen /\ p.row = "absent"
    IN  /\ proc[w].alive
        /\ down[w] # <<>> /\ m.kind = "request"
        /\ down' = [down EXCEPT ![w] = Tail(@)]
        /\ proc' = [proc EXCEPT ![w] = IF wakes THEN [p EXCEPT !.row = "unfreezing"] ELSE p]
        /\ rq' = [rq EXCEPT ![m.who].phase =
              IF wakes THEN "pulling"
              ELSE IF m.frozen /\ p.row = "unfreezing" THEN "awaiting" ELSE Stage(p)]
        /\ UNCHANGED <<vertex, placing, handler, up, deposit, purged, spent>>

\* The trip ends and nobody is woken.
AwakenedNobody(w, phase) == rq

\* Those who waited for the trip of another go on, or fail with it.
Awakened(w, phase) ==
    [r \in Requests |->
        IF rq[r].phase = "awaiting" /\ rq[r].on = w
        THEN [rq[r] EXCEPT !.phase = phase, !.good = phase # "failing"] ELSE rq[r]]

\* adopt_user under the folder's lock: the parcel is read and emptied, the row
\* becomes active.  A parcel that is not there leaves him the store he has; one
\* that was cut short cannot be read.
TakeStore(r) ==
    LET w == rq[r].on
        p == [proc[w] EXCEPT !.row = "active", !.dirty = TRUE,
                 !.store = IF deposit.parcel = {} THEN @ ELSE UNION deposit.parcel]
    IN  /\ rq[r].phase = "pulling" /\ Alive(r)
        /\ deposit.lock = None /\ "store" \notin deposit.torn
        /\ proc' = [proc EXCEPT ![w] = p]
        /\ deposit' = [deposit EXCEPT !.parcel = {}]
        /\ rq' = [Awakened(w, Stage(p)) EXCEPT
              ![r] = [@ EXCEPT !.phase = Stage(p), !.events = rq[r].events \cup {"user_adopted"}]]
        /\ UNCHANGED <<vertex, placing, handler, down, up, purged, spent>>

\* The wait for the folder can end without it: its holder is slow, or dead.
DepositFails ==
    \/ "failure" \in Happens
    \/ deposit.lock # None /\ ~proc[deposit.lock].alive

\* _release_rows that leaves the user's row behind.
ReleasedLeavingTheRow(p) == [p EXCEPT !.conn = FALSE]

\* _release_rows: the user, his connection and his pages leave the memory.
Released(p) == [p EXCEPT !.row = "absent", !.store = {}, !.conn = FALSE]

\* The adoption fails: the rows go, and with them everybody who waited for it.
AdoptionFails(r) ==
    LET w == rq[r].on
    IN  /\ rq[r].phase = "pulling" /\ Alive(r)
        /\ DepositFails \/ (deposit.lock = None /\ "store" \in deposit.torn)
        /\ proc' = [proc EXCEPT ![w] = Released(@)]
        /\ rq' = [Awakened(w, "failing") EXCEPT
              ![r] = [@ EXCEPT !.phase = "failing", !.good = FALSE]]
        /\ UNCHANGED <<vertex, placing, handler, down, up, deposit, purged, spent>>

\* add_connection, and the user's row with it when he has none here.
WithConnection(p) ==
    [p EXCEPT !.conn = TRUE, !.row = IF @ = "absent" THEN "active" ELSE @,
              !.dirty = @ \/ p.row = "absent"]
Birth(p) ==
    (IF p.conn THEN {} ELSE {"new_connection"}) \cup (IF p.row = "absent" THEN {"new_user"} ELSE {})

\* adopt_connection: the connection waits in the deposit, or it does not.
TakeConnection(r) ==
    LET w == rq[r].on
        p == proc[w]
        found == deposit.conn /\ ~p.conn
    IN  /\ rq[r].phase = "fetching" /\ Alive(r)
        /\ p.conn \/ (deposit.lock = None /\ "conn" \notin deposit.torn)
        /\ proc' = IF found THEN [proc EXCEPT ![w] = WithConnection(p)] ELSE proc
        /\ deposit' = IF found THEN [deposit EXCEPT !.conn = FALSE] ELSE deposit
        /\ rq' = [rq EXCEPT ![r] = [@ EXCEPT !.phase = "serving",
                     !.events = IF found THEN rq[r].events \cup Birth(p) ELSE rq[r].events]]
        /\ UNCHANGED <<vertex, placing, handler, down, up, purged, spent>>

FetchFails(r) ==
    /\ rq[r].phase = "fetching" /\ Alive(r)
    /\ \/ DepositFails
       \/ deposit.lock = None /\ ~proc[rq[r].on].conn /\ "conn" \in deposit.torn
    /\ rq' = [rq EXCEPT ![r] = [@ EXCEPT !.phase = "failing", !.good = FALSE]]
    /\ UNCHANGED <<vertex, placing, handler, down, up, proc, deposit, purged, spent>>

-----------------------------------------------------------------------------
(* The process: departure. *)

\* The claim of one departure and the door of freeze_user: an adoption is
\* waited for, who is not active stays, who has a call in flight is left for
\* its end, the others are photographed as soon as the folder is theirs.
Door(p, dep) ==
    IF p.row = "unfreezing" THEN [p EXCEPT !.dep = [dep EXCEPT !.step = "waiting"]]
    ELSE IF p.row = "absent" THEN [p EXCEPT !.dep = NoDeparture, !.flag = FALSE]
    ELSE IF p.pend # {} THEN [p EXCEPT !.dep = NoDeparture]
    ELSE IF deposit.lock = None
    THEN [p EXCEPT !.dep = [dep EXCEPT !.step = "writing"], !.copy = p.store, !.carries = p.conn]
    ELSE [p EXCEPT !.dep = [dep EXCEPT !.step = "locking"]]

\* The folder is this worker's from the photograph to the end of the write.
LockedBy(w, p) ==
    IF p.dep.step = "writing" /\ deposit.lock = None THEN [deposit EXCEPT !.lock = w] ELSE deposit

\* One request ends: its work is in the store, close_request takes it off the
\* pendings, and the last one executes the departure that waited for it.
\* A site that finds no connection opens one; what it wrote on rows that left
\* under its feet went with them.
CloseRequest(r, opens) ==
    LET w == rq[r].on
        good == rq[r].phase = "serving"
        writes == good /\ (opens \/ proc[w].conn)
        born == IF writes THEN Birth(proc[w]) ELSE {}
        served == IF writes THEN [WithConnection(proc[w]) EXCEPT !.store = @ \cup {r}] ELSE proc[w]
        p == [served EXCEPT !.pend = @ \ {r}]
        last == r \in proc[w].pend /\ p.pend = {}
        leaves == Door(p, [by |-> "inline", order |-> 0, step |-> "none"])
        events == rq[r].events \cup born
    IN  /\ rq[r].phase \in {"serving", "failing"} /\ Alive(r)
        /\ good /\ proc[w].row # "absent" => opens
        /\ IF last /\ p.flag /\ p.dep = NoDeparture
           THEN /\ proc' = [proc EXCEPT ![w] = leaves]
                /\ deposit' = LockedBy(w, leaves)
                /\ rq' = [rq EXCEPT ![r] = [@ EXCEPT !.events = events,
                       !.phase = IF leaves.dep = NoDeparture THEN "closing" ELSE "leaving"]]
                /\ UNCHANGED up
           ELSE /\ Outbound(w, p, IF good THEN "reply" ELSE "error", r, events)
                /\ rq' = [rq EXCEPT ![r] = [@ EXCEPT !.phase = "replied", !.events = events]]
                /\ UNCHANGED deposit
        /\ UNCHANGED <<vertex, placing, handler, down, purged, spent>>

\* The answer that a departure held back.
SendReply(r) ==
    LET w == rq[r].on
    IN  /\ rq[r].phase = "closing" /\ Alive(r)
        /\ Outbound(w, proc[w], IF rq[r].good THEN "reply" ELSE "error", r, rq[r].events)
        /\ rq' = [rq EXCEPT ![r].phase = "replied"]
        /\ UNCHANGED <<vertex, placing, handler, down, deposit, purged, spent>>

\* An order is taken from the lane.  To quit is to flag everybody, to say so,
\* and to leave on a task of its own (begin_quit).
ReceiveOrder(w) ==
    LET m == Head(down[w])
        p == proc[w]
        ceded == p.row # "absent"
    IN  /\ p.alive
        /\ down[w] # <<>> /\ m.kind # "request"
        /\ down' = [down EXCEPT ![w] = Tail(@)]
        /\ \/ /\ m.kind = "freeze"
              /\ proc' = [proc EXCEPT ![w].orders = @ \cup {m.who}]
              /\ UNCHANGED up
           \/ /\ m.kind = "quit"
              /\ Outbound(w, [p EXCEPT !.quitting = TRUE, !.flag = ceded, !.dirty = @ \/ ceded],
                          "quitting", m.who, {})
        /\ UNCHANGED <<vertex, placing, handler, rq, deposit, purged, spent>>

\* freeze_designated_user: no row refuses; an adoption and the calls in flight
\* are waited for; a departure under way refuses.
ActOnOrder(w) ==
    LET p == proc[w]
    IN  \E order \in p.orders :
          LET q == [p EXCEPT !.orders = @ \ {order}]
              leaves == Door(q, [by |-> "order", order |-> order, step |-> "none"])
          IN  /\ \/ /\ p.row = "absent" \/ (p.row = "active" /\ p.pend = {} /\ p.dep # NoDeparture)
                    /\ Outbound(w, q, "refused", order, {})
                    /\ UNCHANGED deposit
                 \/ /\ p.row = "active" /\ p.pend = {} /\ p.dep = NoDeparture
                    /\ proc' = [proc EXCEPT ![w] = leaves]
                    /\ deposit' = LockedBy(w, leaves)
                    /\ UNCHANGED up
              /\ UNCHANGED <<vertex, placing, handler, rq, down, purged, spent>>

\* execute_transfers: the cycle of a quit takes whoever is flagged and free.
Transfer(w) ==
    LET p == proc[w]
        leaves == Door(p, [by |-> "cycle", order |-> 0, step |-> "none"])
    IN  /\ p.quitting /\ p.flag /\ p.pend = {} /\ p.dep = NoDeparture
        /\ proc' = [proc EXCEPT ![w] = leaves]
        /\ deposit' = LockedBy(w, leaves)
        /\ UNCHANGED <<vertex, placing, handler, rq, down, up, purged, spent>>

\* A departure that waited for an adoption comes to the door, one that waited
\* for the folder gets it.
DepartureGoesOn(w) ==
    LET p == proc[w]
        leaves == Door(p, p.dep)
        over == leaves.dep = NoDeparture
    IN  /\ \/ p.dep.step = "waiting" /\ p.row # "unfreezing"
           \/ p.dep.step = "locking" /\ deposit.lock = None
        /\ IF p.dep.step = "locking"
           THEN LET held == [p EXCEPT !.dep.step = "writing", !.copy = p.store, !.carries = p.conn]
                IN  /\ proc' = [proc EXCEPT ![w] = held]
                    /\ deposit' = LockedBy(w, held)
                    /\ UNCHANGED rq
           ELSE /\ proc' = [proc EXCEPT ![w] = leaves]
                /\ deposit' = LockedBy(w, leaves)
                /\ rq' = [r \in Requests |->
                     IF over /\ rq[r].on = w /\ rq[r].phase = "leaving"
                     THEN [rq[r] EXCEPT !.phase = "closing"] ELSE rq[r]]
        /\ UNCHANGED <<vertex, placing, handler, down, up, purged, spent>>

\* How a departure ends: the order is answered; the cycle and the last call
\* announce it on a call of their own, and wait for the vertex to have read it.
DepartureEnds(w, p, answer, events) ==
    LET by == proc[w].dep.by
        leaving == {r \in Requests : rq[r].on = w /\ rq[r].phase = "leaving"}
    IN  \/ /\ by = "order"
           /\ Outbound(w, p, answer, proc[w].dep.order, events)
           /\ UNCHANGED rq
        \/ /\ by # "order" /\ events # {}
           /\ \E who \in IF by = "cycle" THEN {0} ELSE leaving :
                 Outbound(w, p, "announce", who, events)
           /\ UNCHANGED rq
        \/ /\ by # "order" /\ events = {}
           /\ proc' = [proc EXCEPT ![w] = p]
           /\ rq' = [r \in Requests |->
                IF by = "inline" /\ r \in leaving THEN [rq[r] EXCEPT !.phase = "closing"] ELSE rq[r]]
           /\ UNCHANGED up

\* The parcels are written: the rows go whatever happened to them meanwhile,
\* he is announced frozen, the folder and the claim are given back.  A folder
\* the vertex discarded under the write took the parcels with it, unless it is
\* there again for another worker; giving it back is then an error.
ParcelsWritten(w) ==
    LET p == proc[w]
        written == [parcel |-> {p.copy}, conn |-> deposit.conn \/ p.carries,
                    torn |-> deposit.torn \ (IF p.carries THEN {"store", "conn"} ELSE {"store"}),
                    lock |-> IF deposit.lock = w THEN None ELSE deposit.lock]
        after == [Released(p) EXCEPT !.dep = NoDeparture, !.copy = {}, !.carries = FALSE,
                     !.dirty = TRUE, !.flag = @ /\ p.dep.by = "order"]
    IN  /\ p.dep.step = "writing"
        /\ \/ deposit.lock # None /\ deposit' = written
           \/ deposit.lock # w /\ UNCHANGED deposit
        /\ DepartureEnds(w, after, IF deposit.lock = w THEN "frozen" ELSE "refused",
                         {"user_frozen"})
        /\ UNCHANGED <<vertex, placing, handler, down, purged, spent>>

\* What a write that does not come to its end may leave in a folder: the store
\* goes first, then the connection, each straight over the file that was there.
HalfWritten(p) ==
    LET stored == [deposit EXCEPT !.parcel = {p.copy}, !.torn = @ \ {"store"}]
    IN  {deposit, [deposit EXCEPT !.parcel = {}, !.torn = @ \cup {"store"}], stored}
        \cup (IF p.carries THEN {[stored EXCEPT !.conn = FALSE, !.torn = {"conn"}],
                                 [stored EXCEPT !.conn = TRUE, !.torn = {}]} ELSE {})

\* The folder never came free, or the deposit refused, half way perhaps: he
\* stays, and nothing is taken back off the deposit.
DepartureFails(w) ==
    LET p == proc[w]
        after == [p EXCEPT !.dep = NoDeparture, !.copy = {}, !.carries = FALSE,
                     !.flag = @ /\ p.dep.by = "order"]
        refused == "failure" \in Happens /\ p.dep.step = "writing" /\ deposit.lock # None
    IN  /\ \/ p.dep.step = "locking" /\ DepositFails
           \/ p.dep.step = "writing" /\ ("failure" \in Happens \/ deposit.lock # w)
        /\ \E left \in IF refused THEN HalfWritten(p) ELSE {deposit} :
             deposit' = [left EXCEPT !.lock = IF @ = w THEN None ELSE @]
        /\ DepartureEnds(w, after, "refused", {})
        /\ UNCHANGED <<vertex, placing, handler, down, purged, spent>>

\* _cut_stragglers: the calls still in flight are no longer waited for.
CutStragglers(w) ==
    /\ "cut" \in Happens
    /\ proc[w].quitting /\ proc[w].flag /\ proc[w].pend # {}
    /\ proc' = [proc EXCEPT ![w].pend = {}]
    /\ UNCHANGED <<vertex, placing, handler, rq, down, up, deposit, purged, spent>>

\* exit_process: no flag is left, nobody is on his way out, and the cycle has
\* announced the last departure.
ExitProcess(w) ==
    /\ proc[w].quitting /\ ~proc[w].flag /\ proc[w].dep = NoDeparture
    /\ [kind |-> "announce", who |-> 0] \notin
          {[kind |-> m.kind, who |-> m.who] : m \in Range(up[w])}
    /\ proc' = [proc EXCEPT ![w] = Gone]
    /\ UNCHANGED <<vertex, placing, handler, rq, down, up, deposit, purged, spent>>

\* The process dies on the spot: what it had sent may be lost from some point
\* on, what it was writing or reading is done with, or not, or half, and the
\* semaphore it held stays.
Die(w) ==
    LET p == proc[w]
    IN  /\ p.alive
        /\ proc' = [proc EXCEPT ![w] = Gone]
        /\ \E sent \in 0 .. Len(up[w]) : up' = [up EXCEPT ![w] = SubSeq(@, 1, sent)]
        /\ \/ deposit' = deposit
           \/ /\ p.dep.step = "writing" /\ deposit.lock # None
              /\ deposit' \in HalfWritten(p)
           \/ /\ \E r \in Requests : rq[r].on = w /\ rq[r].phase = "pulling"
              /\ deposit.lock = None
              /\ \E left \in {{}, deposit.parcel} :
                    deposit' = [deposit EXCEPT !.parcel = left, !.lock = w]

Crash(w) ==
    /\ "crash" \in Happens
    /\ spent.crashes < MaxCrashes
    /\ spent' = [spent EXCEPT !.crashes = @ + 1]
    /\ Die(w)
    /\ UNCHANGED <<vertex, placing, handler, rq, down, purged>>

\* QUIT_TIMEOUT_SECONDS: the wait is forgotten and the process killed, so the
\* death that follows is read as a wild one.
QuitOverdue(w) ==
    /\ "overdue" \in Happens
    /\ handler[w].state = "quitting" /\ handler[w].expected
    /\ handler' = [handler EXCEPT ![w].expected = FALSE]
    /\ Die(w)
    /\ UNCHANGED <<vertex, placing, rq, down, purged, spent>>

-----------------------------------------------------------------------------
WorkerNext(w) ==
    \/ LaunchForAnother(w) \/ Present(w) \/ LaunchFails(w) \/ FreezeHostedUser(w) \/ FreezeOrderExpires(w)
    \/ OrderQuit(w) \/ Fold(w) \/ Lose(w) \/ ReportDeath(w)
    \/ ReceiveRequest(w) \/ ReceiveOrder(w) \/ ActOnOrder(w) \/ Transfer(w)
    \/ DepartureGoesOn(w) \/ ParcelsWritten(w) \/ DepartureFails(w)
    \/ CutStragglers(w) \/ ExitProcess(w) \/ Crash(w) \/ QuitOverdue(w)

RequestNext(r) ==
    \/ ResolveWorker(r) \/ HoldTimeout(r) \/ TakeStore(r) \/ AdoptionFails(r)
    \/ TakeConnection(r) \/ FetchFails(r) \/ SendReply(r)
    \/ \E opens \in BOOLEAN : CloseRequest(r, opens)

\* The browser is done, and nothing is under way any more.
Quiet ==
    /\ \A r \in Requests : rq[r].phase \in Ended
    /\ \A w \in Workers :
         /\ down[w] = <<>> /\ up[w] = <<>>
         /\ proc[w].dep = NoDeparture /\ proc[w].orders = {} /\ ~proc[w].quitting
         /\ handler[w].state \in {"unborn", "running", "dropped"}
         /\ handler[w].state = "running" => proc[w].alive
         /\ handler[w].freezing = 0
AtRest == Quiet /\ UNCHANGED vars

Next ==
    \/ \E w \in Workers : WorkerNext(w)
    \/ \E r \in Requests : RequestNext(r)
    \/ NextPlacement
    \/ AtRest

Spec == Init /\ [][Next]_vars

\* Each process, its lane and the fold go on, and the wait for a folder is on a
\* clock.  The disturbances are nobody's duty.
Fairness ==
    /\ \A w \in Workers :
         WF_vars(Present(w) \/ Fold(w) \/ Lose(w) \/ ReportDeath(w) \/ ReceiveRequest(w)
                 \/ ReceiveOrder(w) \/ ActOnOrder(w) \/ Transfer(w) \/ DepartureGoesOn(w)
                 \/ ParcelsWritten(w) \/ ExitProcess(w))
    /\ \A w \in Workers : WF_vars(DepartureFails(w))
    /\ \A r \in Requests : WF_vars(RequestNext(r))
    /\ WF_vars(NextPlacement)

FairSpec == Spec /\ Fairness

-----------------------------------------------------------------------------
(* Properties. *)

\* His state lives in one place: active in one process at most, or parked in the
\* deposit (adopt_user empties the parcel it read, freeze_user takes the rows out
\* of memory).  A parcel beside an active row is what a refused departure left
\* ("nothing is ever taken back off the deposit", spa_worker.py:1912-1913), and
\* there is nothing in it that he has not.
SingleHome ==
    /\ Cardinality({w \in Workers : proc[w].row = "active"}) <= 1
    /\ Cardinality(deposit.parcel) <= 1
    /\ \A w \in Workers, store \in deposit.parcel :
         proc[w].row = "active" => store \subseteq proc[w].store

\* No process has died unasked: a death takes with it what was only in memory.
NoDeath == spent.crashes = 0

\* The work of a request answered with success is in a living process or in the
\* deposit, as long as nobody died and no end waits to be reported: no freeze,
\* adoption or placement loses what a user was told is done.
Buried ==
    \A w \in Workers : /\ handler[w].state \notin {"quitted", "aborted"}
                       /\ handler[w].state \in {"running", "quitting"} => proc[w].alive
NothingLost ==
    NoDeath /\ Buried /\ ~purged => \A r \in Answered :
        \/ \E w \in Workers : r \in proc[w].store
        \/ \E store \in deposit.parcel : r \in store

\* A request finds what the requests answered before it was sent have built
\* (README.md:15-16), wherever it is served and whatever moved him meanwhile,
\* short of a death.
ReadsItsWrites ==
    [][\A r \in Requests :
         rq[r].phase = "serving" /\ rq'[r].phase \in {"replied", "leaving"}
         => ~NoDeath \/ purged \/ rq[r].base \subseteq proc'[rq[r].on].store]_vars

\* When nothing is under way the vertex knows where he is: marked frozen when
\* the deposit has the only store of his, whole; placed where he lives when not,
\* whatever a refused departure has left in the deposit.
MarksAgree ==
    NoDeath /\ Quiet /\ vertex.known =>
        IF vertex.frozen
        THEN deposit.parcel # {} /\ \A w \in Workers : proc[w].row # "active"
        ELSE \E w \in Workers : vertex.placement = w /\ proc[w].row = "active"

\* README.md:14: every page he opens is served by the same process; assign_user
\* (group_handler.py:797-799) has whoever waited find the newborn.
OneProcess == \A v, w \in Workers : proc[v].row = "active" /\ proc[w].row = "active" => v = w

\* freeze_user's docstring (spa_worker.py:1911-1914): no work of his is born
\* while the parcels are being written.
QuietParcels == \A w \in Workers : proc[w].dep.step = "writing" => proc[w].pend = {}

\* check_user_activity's docstring (group_handler.py:1416-1418): for as long as
\* the order that wants him away is out, whoever comes back waits.
BlockedUnderOrder == \A w \in Workers : handler[w].freezing # 0 => vertex.hold \/ ~vertex.known

\* What the vertex routes by is true: the marks when nothing is under way, the
\* block for as long as an order is out.
VertexAgrees == MarksAgree /\ BlockedUnderOrder

\* overview.md:197-198, spa_commander.py:86-92: who is put in the waiting room
\* gets out of it, a departure that did not happen releases him too.
HoldLifted == vertex.hold ~> ~vertex.hold

\* A request that reached a worker is answered, or fails with its wire: no
\* sister of an adoption, no call behind a departure is left hanging.
EveryRequestEnds == \A r \in Requests : rq[r].phase = "sent" ~> rq[r].phase \in Ended

\* Nobody waits for good, neither in the waiting room nor behind a departure.
EverybodyGoesOn == HoldLifted /\ EveryRequestEnds
=============================================================================
