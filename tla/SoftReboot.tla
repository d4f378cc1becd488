----------------------------- MODULE SoftReboot -----------------------------
(***************************************************************************)
(* The soft quit and the start that follows it (spa_commander.py,          *)
(* group_handler.py, worker_handler.py, spa_worker.py, freeze_handler.py): *)
(* each worker in turn parks its users in reboot_temp and leaves, the      *)
(* vertex adds its own item and renames the directory to reboot_data; a    *)
(* start wipes the working deposit and becomes that directory, or nothing. *)
(* The vertex may crash between any two steps, a worker may die, a write   *)
(* may be refused, a site may never answer.                                *)
(*                                                                         *)
(* A store is the number of the machine's life in which its user was last  *)
(* served: it contains his work up to then.  0 is a store born empty.  A    *)
(* parcel is the file of such a store; the files of his connections, which *)
(* follow it, are the subject of UserMobility and Registers.               *)
(* What a worker announces is read by the vertex in the same step here:    *)
(* the delays of the lane are the subject of UserMobility.                 *)
(***************************************************************************)
EXTENDS Naturals, FiniteSets

CONSTANTS
    Users,        \* the identities the site serves
    Workers,      \* the processes of the pool
    Nowhere,      \* no worker
    Nothing,      \* no row, no parcel, no movement
    Torn,         \* a file whose writer died, or was refused, half way
    Happens,      \* what may go wrong
    MaxLives,     \* bound: how often the machine is started
    MaxTroubles   \* bound: the crashes, deaths and refusals of a behaviour

\* crash       the vertex dies, and its workers with it
\* death       a worker dies, or is killed for being overdue
\* refusal     the disk refuses a write
\* unreadable  the vertex's item is there and cannot be read
\* dry         the server leaves without a soft quit
\* slow        a departure outlasts the patience of the vertex
\* late        requests still reach the vertex once the quit has begun
ASSUME SoftRebootAssumption ==
    /\ Nowhere \notin Workers
    /\ Nothing \notin Nat /\ Torn \notin Nat /\ Nothing # Torn
    /\ Happens \subseteq {"crash", "death", "refusal", "unreadable", "dry", "slow", "late"}
    /\ MaxLives \in Nat /\ MaxTroubles \in Nat

VARIABLES
    at,          \* where the vertex is between two starts
    life,        \* how often the machine has been started
    known,       \* user_map: whom the vertex has a row of
    frozen,      \* the mark of user_map
    held,        \* on_hold of user_map
    home,        \* user_worker_map
    register,    \* the global store
    saved,       \* adopt_frozen_registers: the item it has read
    todo,        \* quit_all: the workers not yet told to leave
    asked,       \* quit_all: the worker whose leaving is awaited
    proc,        \* per worker: its process
    deposit,     \* per worker: the directory its FreezeHandler writes in
    rows,        \* per worker: the stores in its memory
    flags,       \* per worker: _transfer_flags
    calling,     \* per user: the worker a call of his is open in (_pendings)
    moving,      \* per user: his departure or his pull
    disk,        \* the three directories
    owed,        \* history: per user, the work the machine answers for
    excused,     \* history: whom the quit did not carry (README)
    fresh,       \* history: the life the machine last began with nothing
    troubles     \* history: how much has gone wrong

vertex == <<known, frozen, held, home, register>>
course == <<at, life, saved, todo, asked>>
processes == <<proc, deposit, rows, flags, calling, moving>>
history == <<owed, excused, fresh, troubles>>
vars == <<course, vertex, processes, disk, history>>

Places == {"working", "temp", "data"}
Stores == 0..MaxLives
NoItem == [state |-> "none", users |-> {}, register |-> 0]
Bare(there) ==
    [there |-> there, item |-> NoItem, parcels |-> [u \in Users |-> Nothing], locks |-> {}]
Gone == Bare(FALSE)
Emptied == Bare(TRUE)

Init ==
    /\ at = "down" /\ life = 0
    /\ known = {} /\ frozen = {} /\ held = {}
    /\ home = [u \in Users |-> Nowhere]
    /\ register = 0
    /\ saved = NoItem /\ todo = {} /\ asked = Nowhere
    /\ proc = [w \in Workers |-> "off"]
    /\ deposit = [w \in Workers |-> "working"]
    /\ rows = [w \in Workers |-> [u \in Users |-> Nothing]]
    /\ flags = [w \in Workers |-> {}]
    /\ calling = [u \in Users |-> Nowhere]
    /\ moving = [u \in Users |-> Nothing]
    /\ disk = [d \in Places |-> Gone]
    /\ owed = [u \in Users |-> 0]
    /\ excused = {}
    /\ fresh = 0
    /\ troubles = 0

Trouble(kind) ==
    /\ kind \in Happens
    /\ troubles < MaxTroubles
    /\ troubles' = troubles + 1

\* A process ends with all it has in memory.
Ends(ws) ==
    /\ proc' = [w \in Workers |-> IF w \in ws THEN "off" ELSE proc[w]]
    /\ deposit' = [w \in Workers |-> IF w \in ws THEN "working" ELSE deposit[w]]
    /\ rows' = [w \in Workers |-> IF w \in ws THEN [u \in Users |-> Nothing] ELSE rows[w]]
    /\ flags' = [w \in Workers |-> IF w \in ws THEN {} ELSE flags[w]]
    /\ calling' = [u \in Users |-> IF calling[u] \in ws THEN Nowhere ELSE calling[u]]
    /\ moving' = [u \in Users |->
                    IF moving[u] # Nothing /\ moving[u].worker \in ws THEN Nothing ELSE moving[u]]

\* The front lets go of the vertex and the process ends: nothing is remembered.
Falls ==
    /\ at' = "down"
    /\ known' = {} /\ frozen' = {} /\ held' = {}
    /\ home' = [u \in Users |-> Nowhere]
    /\ register' = 0
    /\ saved' = NoItem /\ todo' = {} /\ asked' = Nowhere
    /\ Ends(Workers)
    /\ UNCHANGED life

\* What is owed when memory is gone: the photo that is on disk, if there is one.
OwedBy(d) ==
    [u \in Users |->
        IF d["data"].item.state = "whole" /\ u \in d["data"].item.users THEN owed[u] ELSE 0]
-----------------------------------------------------------------------------
(* The start: adopt_frozen_registers, one disk operation at a time.        *)

WipeWorking ==
    /\ at = "down" /\ life < MaxLives
    /\ at' = "wiped" /\ life' = life + 1
    /\ disk' = [disk EXCEPT !["working"] = Emptied]
    /\ UNCHANGED <<saved, todo, asked, vertex, processes, history>>

\* mutant of DropTemp: what a quit that died halfway left is not dropped
DropTempLeavesIt ==
    /\ at = "wiped" /\ at' = "cleared"
    /\ UNCHANGED <<life, saved, todo, asked, vertex, processes, disk, history>>

DropTemp ==
    /\ at = "wiped" /\ at' = "cleared"
    /\ disk' = [disk EXCEPT !["temp"] = Gone]
    /\ UNCHANGED <<life, saved, todo, asked, vertex, processes, history>>

\* Looking for the photo creates its directory.
ReadItem ==
    /\ at = "cleared" /\ disk["data"].item.state = "whole"
    /\ at' = "found" /\ saved' = disk["data"].item
    /\ UNCHANGED <<life, todo, asked, vertex, processes, disk, history>>

ReadNothing ==
    /\ at = "cleared" /\ disk["data"].item.state # "whole"
    /\ at' = "missing"
    /\ disk' = [disk EXCEPT !["data"].there = TRUE]
    /\ UNCHANGED <<life, saved, todo, asked, vertex, processes, history>>

ReadFails ==
    /\ at = "cleared" /\ disk["data"].item.state = "whole"
    /\ Trouble("unreadable")
    /\ at' = "missing"
    /\ UNCHANGED <<life, saved, todo, asked, vertex, processes, disk, owed, excused, fresh>>

\* mutant of StartClean: the photo that could not be read is left where it is
StartCleanBesideIt ==
    /\ at = "missing" /\ at' = "adopted"
    /\ owed' = [u \in Users |-> 0]
    /\ fresh' = life
    /\ UNCHANGED <<life, saved, todo, asked, vertex, processes, disk, excused, troubles>>

\* drop_root: the directory goes one file after another, in no order that is
\* ours.  A start that falls in between leaves the others what is left.
Unlinks ==
    /\ at = "missing"
    /\ \/ /\ disk' = [disk EXCEPT !["data"].item = NoItem]
          /\ owed' = [u \in Users |-> 0]
       \/ \E u \in Users :
             /\ disk' = [disk EXCEPT !["data"].parcels[u] = Nothing]
             /\ owed' = [owed EXCEPT ![u] = 0]
       \/ \E u \in Users :
             /\ disk' = [disk EXCEPT !["data"].locks = @ \ {u}]
             /\ UNCHANGED owed
    /\ UNCHANGED <<course, vertex, processes, excused, fresh, troubles>>

\* The last of it, and the machine is a new one.
StartClean ==
    /\ at = "missing" /\ at' = "adopted"
    /\ disk' = [disk EXCEPT !["data"] = Gone]
    /\ owed' = [u \in Users |-> 0]
    /\ fresh' = life
    /\ UNCHANGED <<life, saved, todo, asked, vertex, processes, excused, troubles>>

DropItem ==
    /\ at = "found" /\ at' = "spent"
    /\ disk' = [disk EXCEPT !["data"].item = NoItem]
    /\ UNCHANGED <<life, saved, todo, asked, vertex, processes, history>>

DropWorking ==
    /\ at = "spent" /\ at' = "cleared_working"
    /\ disk' = [disk EXCEPT !["working"] = Gone]
    /\ UNCHANGED <<life, saved, todo, asked, vertex, processes, history>>

\* os.rename: a directory that is there, onto a name with nothing in it.
Lands(from, to) == disk[from].there /\ disk[to] \in {Gone, Emptied}
Rename(from, to) ==
    /\ Lands(from, to)
    /\ disk' = [disk EXCEPT ![to] = disk[from], ![from] = Gone]

\* mutant of RenameIn: the working deposit is wiped after the rename, not before
RenameInThenWipe ==
    /\ at = "cleared_working" /\ at' = "renamed"
    /\ Lands("data", "working")
    /\ disk' = [disk EXCEPT !["working"] = Emptied, !["data"] = Gone]
    /\ UNCHANGED <<life, saved, todo, asked, vertex, processes, history>>

RenameIn ==
    /\ at = "cleared_working" /\ at' = "renamed"
    /\ Rename("data", "working")
    /\ UNCHANGED <<life, saved, todo, asked, vertex, processes, history>>

Adopt ==
    /\ at = "renamed" /\ at' = "adopted"
    /\ known' = saved.users /\ frozen' = saved.users
    /\ register' = saved.register
    /\ saved' = NoItem
    /\ UNCHANGED <<life, todo, asked, held, home, processes, disk, history>>

\* drop_expired_users: the parcels of the frozen are opened for their age.
Readable == \A u \in frozen : disk["working"].parcels[u] # Torn

\* mutant of Expire: what the reading raises is not swallowed
ExpireRaises(old) ==
    /\ at = "adopted" /\ Readable
    /\ old \subseteq {u \in frozen : disk["working"].parcels[u] # Nothing}
    /\ at' = "judged"
    /\ known' = known \ old /\ frozen' = frozen \ old
    /\ disk' = [disk EXCEPT !["working"].parcels =
                  [u \in Users |-> IF u \in old THEN Nothing ELSE @[u]],
                            !["working"].locks = @ \ old]
    /\ owed' = [u \in Users |-> IF u \in old THEN 0 ELSE owed[u]]
    /\ UNCHANGED <<life, saved, todo, asked, held, home, register, processes, excused, troubles, fresh>>

\* A beat swallows what its task raises: one parcel that cannot be unpickled
\* and nobody is judged, old or not, and the start goes on.
Expire(old) ==
    /\ at = "adopted"
    /\ old \subseteq {u \in frozen : disk["working"].parcels[u] # Nothing}
    /\ old # {} => Readable
    /\ at' = "judged"
    /\ known' = known \ old /\ frozen' = frozen \ old
    /\ disk' = [disk EXCEPT !["working"].parcels =
                  [u \in Users |-> IF u \in old THEN Nothing ELSE @[u]],
                            !["working"].locks = @ \ old]
    /\ owed' = [u \in Users |-> IF u \in old THEN 0 ELSE owed[u]]
    /\ UNCHANGED <<life, saved, todo, asked, held, home, register, processes, excused, troubles, fresh>>

\* A process presents itself: the reception of a start, or a birth later on.
StartWorker(w) ==
    /\ at \in {"judged", "up"} /\ proc[w] = "off"
    /\ at' = "up"
    /\ proc' = [proc EXCEPT ![w] = "running"]
    /\ UNCHANGED <<life, saved, todo, asked, vertex, deposit, rows, flags, calling, moving,
                   disk, history>>
-----------------------------------------------------------------------------
(* The service: births, calls, pulls.                                      *)

Serving == at = "up" \/ (at = "quitting" /\ "late" \in Happens)
Awake(w, u) == rows[w][u] # Nothing
\* Whom the quit is not going to carry as things stand.
Uncarried(us) == IF at = "quitting" THEN us ELSE {}

\* The site names somebody new while it serves an anonymous request; one that
\* was under way when the worker was told to leave finds no flag.
Born(w, u) ==
    /\ Serving /\ proc[w] # "off" /\ u \notin known
    /\ ~Awake(w, u) /\ moving[u] = Nothing
    /\ known' = known \cup {u}
    /\ home' = [home EXCEPT ![u] = w]
    /\ rows' = [rows EXCEPT ![w][u] = life]
    /\ owed' = [owed EXCEPT ![u] = life]
    /\ excused' = IF proc[w] = "running" THEN excused \ {u} ELSE excused \cup {u}
    /\ register' = life
    /\ UNCHANGED <<course, frozen, held, proc, deposit, flags, calling, moving, disk, troubles, fresh>>

\* A request of somebody who is home.
Call(w, u) ==
    /\ Serving /\ proc[w] # "off" /\ Awake(w, u)
    /\ home[u] = w /\ u \notin held /\ calling[u] = Nowhere
    /\ calling' = [calling EXCEPT ![u] = w]
    /\ UNCHANGED <<course, vertex, proc, deposit, rows, flags, moving, disk, history>>

Move(kind, w, stage, store) ==
    [kind |-> kind, worker |-> w, stage |-> stage, dir |-> deposit[w], store |-> store]
Locks(w, u) ==
    /\ u \notin disk[deposit[w]].locks
    /\ disk' = [disk EXCEPT ![deposit[w]].locks = @ \cup {u}]

\* A request of somebody frozen places him and pulls him home: the folder is
\* locked first, and one that stays locked fails the request.
Return(w, u) ==
    /\ Serving /\ proc[w] = "running" /\ w \notin {asked}
    /\ u \in frozen \ held /\ home[u] \in {Nowhere, w}
    /\ calling[u] = Nowhere /\ moving[u] = Nothing
    /\ home' = [home EXCEPT ![u] = w]
    /\ calling' = [calling EXCEPT ![u] = w]
    /\ moving' = [moving EXCEPT ![u] = Move("pull", w, "locked", Nothing)]
    /\ Locks(w, u)
    /\ excused' = excused \cup Uncarried({u})
    /\ UNCHANGED <<course, known, frozen, held, register, proc, deposit, rows, flags, owed,
                   troubles, fresh>>

InMove(u, kind, stage) ==
    moving[u] # Nothing /\ moving[u].kind = kind /\ moving[u].stage = stage

\* The parcel is read in whatever directory the handler points at by now, and
\* taken away.
PullReads(u) ==
    LET d == deposit[moving[u].worker] IN
    /\ InMove(u, "pull", "locked")
    /\ disk[d].parcels[u] # Torn
    /\ moving' = [moving EXCEPT ![u].stage = "done", ![u].store = disk[d].parcels[u]]
    /\ disk' = [disk EXCEPT ![d].parcels[u] = Nothing]
    /\ UNCHANGED <<course, vertex, proc, deposit, rows, flags, calling, history>>

\* A torn one raises out of the reading and stays where it is: the request
\* fails, the row goes, the mark stays, and so it will be the next time.
PullFails(u) ==
    LET w == moving[u].worker IN
    /\ InMove(u, "pull", "locked")
    /\ disk[deposit[w]].parcels[u] = Torn
    /\ moving' = [moving EXCEPT ![u] = Nothing]
    /\ calling' = [calling EXCEPT ![u] = Nowhere]
    /\ flags' = [flags EXCEPT ![w] = @ \ {u}]
    /\ disk' = IF deposit[w] = moving[u].dir
               THEN [disk EXCEPT ![moving[u].dir].locks = @ \ {u}] ELSE disk
    /\ UNCHANGED <<course, vertex, proc, deposit, rows, history>>

\* The lock goes back where the handler points at: RuntimeError if the folder
\* was locked elsewhere, and the row goes again.
PullLands(u) ==
    LET w == moving[u].worker
        home_again == deposit[w] = moving[u].dir
    IN  /\ InMove(u, "pull", "done")
        /\ moving' = [moving EXCEPT ![u] = Nothing]
        /\ IF home_again
           THEN /\ rows' = [rows EXCEPT ![w][u] = IF moving[u].store = Nothing THEN 0
                                                  ELSE moving[u].store]
                /\ disk' = [disk EXCEPT ![moving[u].dir].locks = @ \ {u}]
                /\ excused' = IF moving[u].store = owed[u] THEN excused \ {u} ELSE excused
                /\ UNCHANGED <<flags, calling>>
           ELSE /\ calling' = [calling EXCEPT ![u] = Nowhere]
                /\ flags' = [flags EXCEPT ![w] = @ \ {u}]
                /\ UNCHANGED <<rows, disk, excused>>
        /\ UNCHANGED <<course, known, frozen, held, home, register, proc, deposit, owed, troubles, fresh>>
-----------------------------------------------------------------------------
(* A departure, ordered by a round of the group or flagged by the quit.    *)

\* freeze_hosted_user: blocked first, then ordered; the order waits for a call.
OrderFreeze(w, u) ==
    /\ at = "up" /\ proc[w] = "running" /\ Awake(w, u)
    /\ home[u] = w /\ u \notin held /\ moving[u] = Nothing
    /\ held' = held \cup {u}
    /\ moving' = [moving EXCEPT ![u] = Move("order", w, "waiting", Nothing)]
    /\ UNCHANGED <<course, known, frozen, home, register, proc, deposit, rows, flags, calling,
                   disk, history>>

\* The claim is free: the departure takes the folder and photographs the row.
Claims(kind, w, u) ==
    /\ moving[u] = Nothing \/ InMove(u, "order", "waiting")
    /\ moving' = [moving EXCEPT ![u] = Move(kind, w, "locked", rows[w][u])]
    /\ Locks(w, u)

DepartsOrdered(w, u) ==
    /\ InMove(u, "order", "waiting") /\ moving[u].worker = w
    /\ Awake(w, u) /\ calling[u] # w
    /\ Claims("order", w, u)
    /\ UNCHANGED <<course, vertex, proc, deposit, rows, flags, calling, history>>

\* execute_transfers, the cycle of the quit.
DepartsFlagged(w, u) ==
    /\ proc[w] \in {"leaving", "cut"} /\ deposit[w] = "temp" /\ u \in flags[w]
    /\ Awake(w, u) /\ calling[u] # w
    /\ Claims("transfer", w, u)
    /\ UNCHANGED <<course, vertex, proc, deposit, rows, flags, calling, history>>

\* close_request: the end of his last call is where a flagged user departs.  The
\* reply says he was adopted, if he was, unless his departure said more.
Answer(u) ==
    LET w == calling[u]
        leaves == /\ proc[w] # "running" /\ u \in flags[w]
                  /\ moving[u] = Nothing \/ InMove(u, "order", "waiting")
        served == Awake(w, u)
        adopted == served /\ ~leaves /\ u \in frozen
    IN  /\ w # Nowhere
        /\ ~InMove(u, "pull", "locked") /\ ~InMove(u, "pull", "done")
        /\ calling' = [calling EXCEPT ![u] = Nowhere]
        /\ register' = life
        /\ rows' = IF served THEN [rows EXCEPT ![w][u] = life] ELSE rows
        /\ owed' = IF served THEN [owed EXCEPT ![u] = life] ELSE owed
        /\ excused' = IF served /\ proc[w] = "running" THEN excused \ {u} ELSE excused
        /\ frozen' = IF adopted THEN frozen \ {u} ELSE frozen
        /\ held' = IF adopted THEN held \ {u} ELSE held
        /\ IF served /\ leaves
           THEN /\ moving' = [moving EXCEPT ![u] = Move("transfer", w, "locked", life)]
                /\ Locks(w, u)
           ELSE UNCHANGED <<moving, disk>>
        /\ UNCHANGED <<course, known, home, proc, deposit, flags, troubles, fresh>>

Departing(u, stage) == InMove(u, "order", stage) \/ InMove(u, "transfer", stage)

\* The parcels are written where the handler points at by now, if there is a
\* folder of his.
Folder(d, u) == disk[d].parcels[u] # Nothing \/ u \in disk[d].locks

Writes(u) ==
    LET d == deposit[moving[u].worker] IN
    /\ Departing(u, "locked") /\ Folder(d, u)
    /\ moving' = [moving EXCEPT ![u].stage = "done"]
    /\ disk' = [disk EXCEPT ![d].parcels[u] = moving[u].store]
    /\ UNCHANGED <<course, vertex, proc, deposit, rows, flags, calling, history>>

\* He stays.  A transfer that failed has used up its flag; an order that failed
\* leaves the flag the quit gave him, and the round that sent it lets him go.
Stays(u) ==
    LET w == moving[u].worker IN
    /\ moving' = [moving EXCEPT ![u] = Nothing]
    /\ flags' = [flags EXCEPT ![w] = IF moving[u].kind = "transfer" THEN @ \ {u} ELSE @]
    /\ excused' = IF moving[u].kind = "transfer" THEN excused \cup {u} ELSE excused
    /\ held' = IF at = "up" THEN held \ {u} ELSE held
    /\ UNCHANGED <<course, known, frozen, home, register, proc, deposit, rows, calling, owed,
                   fresh>>

\* The handler was replaced and there is no folder of his where it points at by
\* now: the lock stays where it was taken.
WriteMisses(u) ==
    /\ Departing(u, "locked") /\ ~Folder(deposit[moving[u].worker], u)
    /\ Stays(u)
    /\ UNCHANGED <<disk, troubles>>

\* The disk refuses, and nothing is taken back: his parcel is what it was, or
\* cut short, or whole when one of his connections was refused after it.
WriteRefused(u) ==
    LET d == deposit[moving[u].worker] IN
    /\ Departing(u, "locked") /\ Folder(d, u)
    /\ Trouble("refusal")
    /\ Stays(u)
    /\ \E left \in {disk[d].parcels[u], Torn, moving[u].store} :
         disk' = [disk EXCEPT ![d].parcels[u] = left,
                              ![d].locks = IF d = moving[u].dir THEN @ \ {u} ELSE @]

\* The rows go and the vertex marks him; a lock taken in another directory is
\* not given back.  The task of the quit was made before any transfer began, so
\* the handler is replaced before one ends.
Departed(u) ==
    LET w == moving[u].worker IN
    /\ Departing(u, "done")
    /\ moving[u].kind = "transfer" => deposit[w] = "temp"
    /\ moving' = [moving EXCEPT ![u] = Nothing]
    /\ rows' = [rows EXCEPT ![w][u] = Nothing]
    /\ flags' = [flags EXCEPT ![w] = @ \ {u}]
    /\ frozen' = frozen \cup {u} /\ held' = held \ {u}
    /\ home' = [home EXCEPT ![u] = Nowhere]
    /\ disk' = IF deposit[w] = moving[u].dir
               THEN [disk EXCEPT ![moving[u].dir].locks = @ \ {u}] ELSE disk
    /\ excused' = IF moving[u].dir = "working" THEN excused \cup Uncarried({u}) ELSE excused
    /\ UNCHANGED <<course, known, register, proc, deposit, calling, owed, troubles, fresh>>
-----------------------------------------------------------------------------
(* The quit.                                                               *)

\* The clock stops: the rounds are cancelled, and give back the users they were
\* holding for an order.  The provisional directory is made.
BeginQuit ==
    /\ at = "up" /\ at' = "quitting"
    /\ todo' = {w \in Workers : proc[w] # "off"}
    /\ held' = {}
    /\ disk' = [disk EXCEPT !["temp"].there = TRUE]
    /\ excused' = excused \cup frozen
    /\ UNCHANGED <<life, saved, asked, known, frozen, home, register, processes, owed, troubles,
                   fresh>>

\* quit_all: whoever is placed there is blocked, then the worker is told.
AskToLeave(w) ==
    /\ at = "quitting" /\ asked = Nowhere /\ w \in todo
    /\ todo' = todo \ {w}
    /\ IF proc[w] = "off" THEN UNCHANGED <<asked, held>>
       ELSE asked' = w /\ held' = held \cup {u \in known : home[u] = w}
    /\ UNCHANGED <<at, life, saved, known, frozen, home, register, processes, disk, history>>

\* A row that is still being pulled home counts.
MovingAt(w) == {u \in Users : moving[u] # Nothing /\ moving[u].worker = w}
FlagsEverybody(w) ==
    flags' = [flags EXCEPT ![w] = {u \in Users : Awake(w, u)} \cup MovingAt(w)]

\* begin_quit: everybody is flagged before the order is answered.
BeginLeaving(w) ==
    /\ asked = w /\ proc[w] = "running"
    /\ proc' = [proc EXCEPT ![w] = "leaving"]
    /\ FlagsEverybody(w)
    /\ UNCHANGED <<course, vertex, deposit, rows, calling, moving, disk, history>>

\* SpaWorker.quit: the handler of the reboot directory replaces the worker's,
\* and everybody is flagged once more.
Swap(w) ==
    /\ proc[w] = "leaving" /\ deposit[w] = "working"
    /\ deposit' = [deposit EXCEPT ![w] = "temp"]
    /\ FlagsEverybody(w)
    /\ excused' = excused \cup {u \in MovingAt(w) : InMove(u, "pull", "done")}
    /\ UNCHANGED <<course, vertex, proc, rows, calling, moving, disk, owed, troubles, fresh>>

\* mutant of Finished: only who is on his way out is asked
FinishedByMoves(w) == MovingAt(w) = {}

\* _settle_transfers: no flag left, and nobody on his way out.
Finished(w) == flags[w] = {} /\ MovingAt(w) = {}

\* mutant of CutStragglers: the quit waits for the last call, however long
CutNobody(w) ==
    /\ proc[w] = "leaving" /\ deposit[w] = "temp" /\ ~Finished(w)
    /\ \A u \in Users : calling[u] # w
    /\ proc' = [proc EXCEPT ![w] = "cut"]
    /\ UNCHANGED <<course, vertex, deposit, rows, flags, calling, moving, disk, history>>

\* The grace is over: the calls still open are given up.
CutStragglers(w) ==
    /\ proc[w] = "leaving" /\ deposit[w] = "temp" /\ ~Finished(w)
    /\ proc' = [proc EXCEPT ![w] = "cut"]
    /\ calling' = [u \in Users |-> IF calling[u] = w THEN Nowhere ELSE calling[u]]
    /\ UNCHANGED <<course, vertex, deposit, rows, flags, moving, disk, history>>

\* mutant of Leaves: the wait of quit_all is not reset
LeavesStillAsked(w) ==
    /\ proc[w] \in {"leaving", "cut"} /\ deposit[w] = "temp" /\ Finished(w)
    /\ asked' = Nothing
    /\ Ends({w})
    /\ UNCHANGED <<at, life, saved, todo, vertex, disk, history>>

\* The process ends, and whoever is still in its memory with it.
Leaves(w) ==
    /\ proc[w] \in {"leaving", "cut"} /\ deposit[w] = "temp" /\ Finished(w)
    /\ asked' = Nowhere
    /\ Ends({w})
    /\ UNCHANGED <<at, life, saved, todo, vertex, disk, history>>

QuitAllDone ==
    /\ at = "quitting" /\ todo = {} /\ asked = Nowhere
    /\ at' = "gathered"
    /\ UNCHANGED <<life, saved, todo, asked, vertex, processes, disk, history>>

\* frozen_commander_registers: every row goes in as frozen and on no hold.
WriteItem ==
    /\ at = "gathered" /\ at' = "written"
    /\ disk' = [disk EXCEPT !["temp"].item =
                  [state |-> "whole", users |-> known, register |-> register]]
    /\ UNCHANGED <<life, saved, todo, asked, vertex, processes, history>>

\* The rename is the commit.
Commit ==
    /\ at = "written"
    /\ Rename("temp", "data")
    /\ Falls
    /\ UNCHANGED history

\* The item could not be written: the quit raises, and the front lets go.
QuitRaises ==
    /\ at = "gathered"
    /\ Trouble("refusal")
    /\ Falls
    /\ disk' \in {disk, [disk EXCEPT !["temp"].item.state = "torn"]}
    /\ owed' = OwedBy(disk)
    /\ UNCHANGED <<excused, fresh>>
-----------------------------------------------------------------------------
(* What goes wrong.                                                        *)

\* A file being written is left half way, or not begun, or finished.
LeftByWriters(ws) ==
    {[d \in Places |-> [disk[d] EXCEPT !.parcels =
        [u \in Users |-> IF u \in us /\ deposit[moving[u].worker] = d THEN Torn ELSE @[u]]]] :
      us \in SUBSET {u \in Users : /\ Departing(u, "locked") /\ moving[u].worker \in ws
                                   /\ Folder(deposit[moving[u].worker], u)}}

\* Whose work was in the memory of these processes and nowhere else.
InMemoryOf(ws) ==
    {u \in Users : \/ \E w \in ws : Awake(w, u)
                   \/ InMove(u, "pull", "done") /\ moving[u].worker \in ws}

\* A worker dies in the middle of its service: the round buries it, and whoever
\* had been announced on board and lived there is dropped with his folder.
DiesServing(w) ==
    LET lost == {u \in known \ frozen : Awake(w, u) /\ home[u] = w} IN
    /\ at = "up" /\ proc[w] # "off"
    /\ Trouble("death")
    /\ Ends({w})
    /\ known' = known \ lost /\ frozen' = frozen \ lost /\ held' = held \ lost
    /\ home' = [u \in Users |-> IF home[u] = w THEN Nowhere ELSE home[u]]
    /\ \E left \in LeftByWriters({w}) :
         disk' = [left EXCEPT !["working"].parcels =
                    [u \in Users |-> IF u \in lost THEN Nothing ELSE @[u]],
                              !["working"].locks = @ \ lost]
    /\ owed' = [u \in Users |-> IF u \in InMemoryOf({w}) THEN 0 ELSE owed[u]]
    /\ UNCHANGED <<course, register, excused, fresh>>

\* During the quit no round is left to read a death: the wait for it is what
\* resolves, and nobody is marked or dropped.
DiesLeaving(w) ==
    /\ at = "quitting" /\ proc[w] # "off" /\ (asked = w => proc[w] # "running")
    /\ Trouble("death")
    /\ Ends({w})
    /\ asked' = IF asked = w THEN Nowhere ELSE asked
    /\ disk' \in LeftByWriters({w})
    /\ owed' = [u \in Users |-> IF u \in InMemoryOf({w}) THEN 0 ELSE owed[u]]
    /\ UNCHANGED <<at, life, saved, todo, vertex, excused, fresh>>

\* Past QUIT_TIMEOUT_SECONDS the worker is killed, whatever holds it: a
\* departure, or a process too stuck to answer the order.
Overdue(w) ==
    /\ asked = w
    /\ \/ proc[w] = "cut" /\ "slow" \in Happens /\ UNCHANGED troubles
       \/ proc[w] = "running" /\ Trouble("death")
    /\ Ends({w})
    /\ asked' = Nowhere
    /\ disk' \in LeftByWriters({w})
    /\ owed' = [u \in Users |-> IF u \in InMemoryOf({w}) THEN 0 ELSE owed[u]]
    /\ UNCHANGED <<at, life, saved, todo, vertex, excused, fresh>>

\* A worker that dies under the very order raises ConnectionError through the
\* quit: nothing is committed, and the other workers go with the vertex.
DiesUnderOrder(w) ==
    /\ at = "quitting" /\ asked = w /\ proc[w] = "running"
    /\ Trouble("death")
    /\ Falls
    /\ disk' \in LeftByWriters(Workers)
    /\ owed' = OwedBy(disk)
    /\ UNCHANGED <<excused, fresh>>

\* stop: everything is killed, and nothing is saved on the way out.
StopDry ==
    /\ at = "up"
    /\ Trouble("dry")
    /\ Falls
    /\ disk' \in LeftByWriters(Workers)
    /\ owed' = OwedBy(disk)
    /\ UNCHANGED <<excused, fresh>>

\* The vertex dies, in the middle of writing its item perhaps.
Crash ==
    /\ at # "down"
    /\ Trouble("crash")
    /\ Falls
    /\ \E left \in LeftByWriters(Workers) :
         \/ disk' = left
         \/ /\ at = "gathered"
            /\ disk' = [left EXCEPT !["temp"].item.state = "torn"]
    /\ owed' = OwedBy(disk)
    /\ UNCHANGED <<excused, fresh>>
-----------------------------------------------------------------------------
Boot ==
    \/ WipeWorking \/ DropTemp \/ ReadItem \/ ReadNothing \/ ReadFails \/ Unlinks \/ StartClean
    \/ DropItem \/ DropWorking \/ RenameIn \/ Adopt
    \/ \E old \in SUBSET Users : Expire(old)

Service ==
    \/ \E w \in Workers : StartWorker(w)
    \/ \E w \in Workers, u \in Users : Born(w, u) \/ Call(w, u) \/ Return(w, u)
    \/ \E u \in Users : PullReads(u) \/ PullFails(u) \/ PullLands(u) \/ Answer(u)

Departure ==
    \/ \E w \in Workers, u \in Users :
         OrderFreeze(w, u) \/ DepartsOrdered(w, u) \/ DepartsFlagged(w, u)
    \/ \E u \in Users : Writes(u) \/ WriteMisses(u) \/ WriteRefused(u) \/ Departed(u)

Quit ==
    \/ BeginQuit \/ QuitAllDone \/ WriteItem \/ Commit \/ QuitRaises
    \/ \E w \in Workers : AskToLeave(w) \/ BeginLeaving(w) \/ Swap(w) \/ CutStragglers(w)
                          \/ Leaves(w)

GoesWrong ==
    \/ \E w \in Workers : DiesServing(w) \/ DiesLeaving(w) \/ Overdue(w) \/ DiesUnderOrder(w)
    \/ StopDry \/ Crash

Next == Boot \/ Service \/ Departure \/ Quit \/ GoesWrong

\* What the code drives by itself.  A request comes and a site answers, or not.
BootSteps ==
    \/ DropTemp \/ ReadItem \/ ReadNothing \/ StartClean \/ DropItem \/ DropWorking
    \/ RenameIn \/ Adopt \/ Expire({})
    \/ at = "judged" /\ \E w \in Workers : StartWorker(w)
QuitSteps == QuitAllDone \/ WriteItem \/ Commit \/ \E w \in Workers : AskToLeave(w)
WorkerSteps(w) ==
    \/ BeginLeaving(w) \/ Swap(w) \/ CutStragglers(w) \/ Leaves(w) \/ Overdue(w)
Fairness ==
    /\ WF_vars(BootSteps) /\ WF_vars(QuitSteps)
    /\ \A w \in Workers : WF_vars(WorkerSteps(w))

Spec == Init /\ [][Next]_vars /\ Fairness
-----------------------------------------------------------------------------
(* Properties.                                                             *)

\* Every variable keeps its shape: a movement names the worker that makes it,
\* the directory it locked and the store it carries.
Movement ==
    [kind : {"pull", "order", "transfer"}, worker : Workers,
     stage : {"waiting", "locked", "done"}, dir : {"working", "temp"}, store : Stores \cup {Nothing}]
ASSUME StillnessAssumption == Nothing \notin Movement
Item == [state : {"none", "torn", "whole"}, users : SUBSET Users, register : Stores]
Directory ==
    [there : BOOLEAN, item : Item, parcels : [Users -> Stores \cup {Nothing, Torn}],
     locks : SUBSET Users]

TypeOK ==
    /\ at \in {"down", "wiped", "cleared", "found", "missing", "spent", "cleared_working",
               "renamed", "adopted", "judged", "up", "quitting", "gathered", "written"}
    /\ life \in 0..MaxLives
    /\ known \in SUBSET Users /\ frozen \in SUBSET Users /\ held \in SUBSET Users
    /\ home \in [Users -> Workers \cup {Nowhere}]
    /\ register \in Stores
    /\ saved \in Item /\ todo \in SUBSET Workers /\ asked \in Workers \cup {Nowhere}
    /\ proc \in [Workers -> {"off", "running", "leaving", "cut"}]
    /\ deposit \in [Workers -> {"working", "temp"}]
    /\ rows \in [Workers -> [Users -> Stores \cup {Nothing}]]
    /\ flags \in [Workers -> SUBSET Users]
    /\ calling \in [Users -> Workers \cup {Nowhere}]
    /\ moving \in [Users -> Movement \cup {Nothing}]
    /\ disk \in [Places -> Directory]
    /\ owed \in [Users -> Stores]
    /\ excused \in SUBSET Users
    /\ fresh \in Stores
    /\ troubles \in 0..MaxTroubles

\* quit, adopt_frozen_registers: whoever was awake when the soft quit began is
\* found again with his last work by the start that follows it, unless the disk
\* or a death took it, and nothing he did since is in an older parcel.
Kept ==
    \A u \in Users \ excused : owed[u] # 0 =>
        /\ at = "up" =>
            /\ u \in known
            /\ \/ \E w \in Workers : rows[w][u] = owed[u]
               \/ u \in frozen /\ disk["working"].parcels[u] = owed[u]
               \/ InMove(u, "pull", "done") /\ moving[u].store = owed[u]
        /\ at = "down" =>
            /\ disk["data"].item.state = "whole" /\ u \in disk["data"].item.users
            /\ disk["data"].parcels[u] = owed[u]

\* wipe_root ("nothing a previous run left there survives a start") and the
\* drop of a leftover reboot_temp, "dropped unread": once a machine has begun
\* with nothing, no store from before is in a process, in a deposit or in a photo.
NothingOld ==
    at \in {"up", "quitting", "gathered", "written"} =>
        \A u \in Users :
            /\ \A w \in Workers : rows[w][u] \in {Nothing, 0} \cup fresh..life
            /\ \A d \in Places : disk[d].parcels[u] \in {Nothing, Torn, 0} \cup fresh..life

\* rename_root, "a directory that appears under its final name is complete by
\* construction": it is never half written, and neither rename ever finds its
\* source gone or its destination taken, which os.rename would refuse.
RenamesLand ==
    /\ disk["data"].item.state # "torn"
    /\ at = "written" => Lands("temp", "data")
    /\ at = "cleared_working" => Lands("data", "working")

\* SpaApp.on_shutdown: "every user parked in the reboot directory and the
\* vertex's own item beside them".  Whoever the photo calls frozen, because he
\* was, has his parcel in it.
SleepersParked ==
    at = "written" => \A u \in frozen : disk["temp"].parcels[u] # Nothing

\* quit_all, _cut_stragglers, quit_process: a soft quit ends whatever the sites
\* and the disk do.
QuitEnds == (at \in {"quitting", "gathered", "written"}) ~> (at = "down")

Booting == at \notin {"down", "up", "quitting", "gathered", "written"}

\* adopt_frozen_registers, drop_expired_users, start: a start that nothing
\* disturbs ends with a machine, whatever the photo holds, a parcel that cannot
\* be read included.
BootEnds ==
    \A n \in 0..MaxTroubles : Booting /\ troubles = n ~> (at = "up" \/ troubles > n)

\* The whole of it: whatever the sites and the disk do, the machine goes down
\* when it is told to and the next start brings it up.
RebootEnds == QuitEnds /\ BootEnds

\* A photo, and what a start has become of it.
PhotoOf(users, reg, parcels) == [users |-> users, register |-> reg, parcels |-> parcels]
Photos ==
    [users : SUBSET Users, register : Stores, parcels : [Users -> Stores \cup {Nothing, Torn}]]
NoPhoto == [none |-> TRUE]
Clean == PhotoOf({}, 0, Gone.parcels)

Photo ==
    IF at \in {"spent", "cleared_working"}
    THEN PhotoOf(saved.users, saved.register, disk["data"].parcels)
    ELSE IF at = "renamed"
    THEN PhotoOf(saved.users, saved.register, disk["working"].parcels)
    ELSE IF disk["data"].item.state = "whole"
    THEN PhotoOf(disk["data"].item.users, disk["data"].item.register, disk["data"].parcels)
    ELSE NoPhoto
Started ==
    IF at = "adopted" THEN PhotoOf(known, register, disk["working"].parcels) ELSE NoPhoto

\* A start could not read the photo, and is removing it; what one unlink leaves.
Given == at = "missing" /\ Photo # NoPhoto
RemainsOf(p) == {[p EXCEPT !.parcels[u] = Nothing] : u \in Users}

Promise == INSTANCE AtomicPhoto WITH
    photo <- Photo, started <- Started, given <- Given, Remains <- RemainsOf

\* rename_root and adopt_frozen_registers: the photo appears whole with the
\* rename, and a start becomes the whole of what is there or nothing of it.  A
\* photo loses a parcel in one way only: a start that could not read its item
\* is removing it.
PhotoIsAtomic == Promise!Spec
==============================================================================
