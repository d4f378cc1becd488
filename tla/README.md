# kajenn-orchestra in TLA+

This directory is the verification project of kajenn-orchestra: TLA+ modules
translated from the Python under `src/kajenn_orchestra`, TLC configurations that
check them on small instances, and TLAPS proofs that hold for every instance.
Paths below are relative to `src/kajenn_orchestra` unless they start with `docs/`.

## The system

A *commander* in the server process (the **vertex**) owns the indexes: whose a
connection is, which connection a page belongs to, where a user lives. Each
*group* owns worker processes. A user lives in the memory of one worker; when he
is idle or his worker must go, his state is parked in a deposit on disk (the
**freezer**) and comes home to whichever worker his next request is placed on.
Vertex and worker talk over a bus lane that keeps the order in both directions.

| component | state it keeps | operations | talks to |
|---|---|---|---|
| vertex (`orchestration/spa_commander.py`) | `user_map` (group, frozen, on_hold), `connection_user_map`, `page_connection_map`, hold events, global register | route a request, hold and release, mark frozen and adopted, drop, quit | groups (calls), workers (through the lane), freezer |
| group (`orchestration/group_handler.py`) | `user_worker_map`, `worker_handler_map`, `_placement_lock`, policy | place a user, launch, restart, drop a worker, freeze an idle user, judge memory and CPU | its workers' handlers, vertex |
| envelope chain (`orchestration/envelope_handler.py`) | none of its own | folds the photo and the events of every reply, layer by layer | handler, group, vertex |
| handler and connector (`orchestration/worker_handler.py`, `worker_connector.py`) | `state`, `hosted_users`, last photo, the awaited death, calls in flight | call, quit, ping, kill, report a death | one worker process |
| worker (`orchestration/spa_worker.py`) | registers of users, connections, pages; pendings, transfer flags, departing users | serve, adopt, freeze, quit | vertex (announcements), freezer, hosted application |
| freezer (`orchestration/freeze_handler.py`) | a folder per user: a store, a parcel per connection, a semaphore file | lock, write, read, drop, sweep, rename | disk |
| global store (`global_store.py`, `GlobalStoreOperations`) | one dictionary, a FIFO lock, leases in the workers | get, set, delete, read-modify-write turns | workers (calls up the lane) |
| registers (`register*.py`) | users, connections, pages with indexes | create, update, cascade drops | worker |
| template (`orchestration/template_*.py`) | a warm process that forks workers, a pipe to it and one back | fork, refuse, stop | group (its connector), the workers it forks |
| worker's entry (`orchestration/worker_entry.py`, `worker_process.py`) | a token, a member of the bus | join, present itself, leave when the wire ends | group's bus |
| soft reboot (`spa_commander.py` `quit`, `adopt_frozen_registers`) | three directories: working deposit, `reboot_temp`, `reboot_data` | park everybody, write the vertex's item, rename; wipe, read, rename back | every group and worker, freezer |
| configuration (`apply_group_settings`, `group_policy.py`) | policy per group, its generation | validate, apply to all groups or to none | vertex, groups |
| front (`spa_app.py`, `environ.py`) | the vertex it holds | start, soft quit or dry stop of the pool; HTTP and websocket glue | vertex |

What is hard to test here: two requests of a user racing through a placement, a
freeze or a launch; envelopes that carry facts older than what the vertex did
since; a process that dies between the disk and the announcement; the departure
of a whole worker while calls are still being routed to it; a turn on the global
store whose worker is gone; a reboot cut short between two disk operations; two
launches talking to one template at the same time. `PROJECT.json` lists each hazard at its line.

## Modules

| module | models | checked by |
|---|---|---|
| `AtomicStore` | the promise of the global store: one dictionary, each call in one step or never | refinement target |
| `GlobalStore` | the store as it is: arrivals, FIFO lock, leases, answers, dying wires | `MCGlobalStore` |
| `GlobalStore_proofs` | its theorems | TLAPS |
| `UserMobility` | one user between his workers and the deposit | `MCUserMobility` |
| `UserMobility_proofs` | its theorems | TLAPS |
| `Registers` | the tree of users, connections and pages of one worker, the login and its tail, the indexes above | `MCRegisters` |
| `Registers_proofs` | its theorems, whatever overlaps | TLAPS |
| `RegistersMirror_proofs` | its theorems for requests that do not overlap | TLAPS |
| `GroupPool` | one group: placements, births, closures, restarts, deaths, the round that judges them | `MCGroupPool` |
| `GroupPool_proofs` | its theorems | TLAPS |
| `AtomicPhoto` | the promise of the reboot: a photo appears whole and is adopted whole or not at all, or is given up and removed file by file | refinement target |
| `SoftReboot` | the soft quit and the start, one disk operation at a time, with the departures under way | `MCSoftReboot` |
| `SoftReboot_proofs` | its theorems | TLAPS |
| `SoftRebootKept_proofs` | that nothing old is served and that the work is kept | TLAPS |
| `Launch` | a worker coming into the world by spawn or fork, the end of its wire, the end of its group | `MCLaunch` |
| `Launch_proofs` | its theorems | TLAPS |

### GlobalStore

A call is `[op, key]` made by a context (a task or pool thread of a worker).
`phase` is where its caller stands in `GlobalStoreClient`/`GlobalStoreLease`,
`lane` where the call is on its way: `ask`, `parked` on `GlobalStoreLock`,
`answer` or `error` coming back, `commit` or `abort` going up.
Calls of different contexts are served on tasks of their own, so a lane is a set,
and `ticket` records the order in which calls parked. `holder` is
`GlobalStoreLock.holder`, `copy` the value the grant decoded, and a value is the
set of calls it contains, which is what atomicity tells apart. `Place` ...
`TakeError` are the caller's steps, `Arrive`, `WakeFirst`, `Unlock` the commander's,
`Lose` the wire (`WorkerConnector.lose` and `WorkerHandler.on_child_lost`).

### UserMobility

`vertex` is the user's row and his placement, `placing` the placement lock with
its waiters and the worker being launched, `handler[w]` the `WorkerHandler` (state,
`hosted_users`, the last photo's flag of the user, the order in flight), `down[w]`
and `up[w]` the two directions of the lane, `proc[w]` the process (row state, store,
connection, pendings, orders waiting, transfer flag, the departure under way, the
photographed copy), `deposit` the user's folder with the files that were cut short (`torn`), `rq[r]` each request with the
worker events its slot has collected. A step is what one event loop does between
two awaits. The store is the set of requests whose work it contains, so *lost*
and *stale* are set inclusions. The user has one connection and no pages.

`ResolveWorker`, `AssignUser`, `NextPlacement`, `Present`, `LaunchFails` and
`HoldTimeout` are the routing; `FreezeHostedUser`, `FreezeOrderExpires`, `OrderQuit`
the group's orders; `Fold`, `Lose`, `ReportDeath` the envelope chain;
`ReceiveRequest`, `TakeStore`, `TakeConnection`, `CloseRequest`, `SendReply` a call in
the process, `AdoptionFails` and `FetchFails` its failures; `ReceiveOrder`,
`ActOnOrder`, `Transfer`, `DepartureGoesOn`, `ParcelsWritten`, `DepartureFails`,
`CutStragglers`, `ExitProcess` a departure; `Crash` and `QuitOverdue` deaths. `HalfWritten` is what
`_write_parcels` leaves in the folder when a refusal or a death stops it: the store first, then the
connection, each straight over the old file, each whole or torn; `DepartureFails` takes nothing of it
back, as `freeze_user` does not, and a torn file fails whoever reads it (`AdoptionFails`, `FetchFails`).

`Happens` switches whole classes of disturbance on (a launch in the middle of a
placement, a long call, an expired order, a restart, a cut call, an overdue
quit, a crash, a deposit that refuses), so that each run says under which of them
its properties hold, and each counterexample names the one it needs.

### Registers

`userRows`, `connectionsOf`, `storeOf` are the rows of `user_items`, `ownerOf` and
`pagesOf` those of `connection_items`, `connectionOf` those of `page_items`: each edge
is kept in both directions, as in the code. `Brought` and `Taken` are the two
gestures of the registry (births climb, drops cascade). A request goes through the
vertex (`Send`: whose the cookie is), the row (`Receive`, `OpenFolder`, `Install`,
`InstallFails`, `FolderFails`), the verbs of the site (`NewConnection` ... `DropUser`,
`Work`, and the login, `Transfer` or `Join`), the tail of a login (`ClaimDeparture`,
`CopyParcel`, `ReleaseLogin`, `DepositFails`) and its reply. Each verb runs under
`dispatch_lock` and is one step; so is each stretch between two awaits. The reply
carries the events of its slot; `Arrive` takes the oldest reply and `OnNewUser` ...
`OnUserRowsReleased` fold its events one by one through the handler, the group
and the vertex, with the requests of other users running in between.

The pages of one drop or one adoption are one event with a set. The release of the
folder and of the claim at the end of `freeze_connection` and the release of the
rows are one step: only a verb on another thread fits between them, and what it does
there it can do just before. A refusal may destroy the parcel it was writing over
(`DepositFails`). The users stay on their worker: their departures
are `UserMobility`'s. `born`, `carries` and `met` are history: the connection each page was
opened under, whose work each store has to contain, and what has happened so far that a
property leaves out: that two requests overlapped, that the deposit refused, that a request
which had logged in opened again the connection it dropped (`Relapse`). When a connection
brings a store home to a resident, the code drops the store, and `Install` takes from
`carries` what the resident has not got of it. `Happens` says what the site does and
whether the disk refuses.

### GroupPool

`worker[w]` is the `WorkerHandler` and its wire (state, last photo's memory, temperature,
CPU admission, whether a death is awaited), `listed` is `worker_handler_map`, `place`
`user_worker_map`, `lock` `_placement_lock` with its waiters, `ask[u]` the placement of a
user under way, `round` the group's own turn, `group` the state, the wake, the
pressure clock and the policy with its generation. Three kinds of task share the
loop, and a step is what one of them does between two awaits:

- a **placement** (`Ask`, `NextPlacement`, `PlacementLaunched`, `PlacementUnlaunched`): an
  open worker, else a birth under the policy the placement was asked under, else a
  worker closed for CPU only, else the refusal; `Baptise` places a guest without it;
- the **round** (`RoundStarts`, then one of `NotDue`, `RestartSwollen`, `MissReception`,
  `ReadShape`, then `Offload` and `PutToSleep`): it buries the dead, reads the shape
  and takes one step; a quit it orders ends in `QuitEnds`, `QuitRefused` or
  `QuitOverdue` and `AfterKill`, a birth in `RoundLaunched` or `RoundUnlaunched`;
- what **changes under them**: `Sample` (the thermometer, with the hysteresis of
  `_judge_cpu_admission`), `Photo`, `Crash`, `MachineChanges`, `Apply` (a new policy and the
  admission it gives), `Parked`, `Leaves` and `ReadEnd`.

Memory is in tenths of a worker's ceiling, a temperature in tenths of a core: only
the comparisons matter. Names grow and are never used again, so the smallest living
name is the reception. Which open worker is preferred is left open, since the code
decides it by heat and by who has just admitted somebody; so is who is past its
minimum life. The presentation of a process and the wake of the launch that waits for
it are one step.

### SoftReboot

`at` is how far the vertex is: through the start (`WipeWorking`, `DropTemp`, `ReadItem` or
`ReadNothing` or `ReadFails`, `DropItem`, `DropWorking`, `RenameIn`, `Adopt` or `Unlinks` and `StartClean`,
`Expire`, `StartWorker`: one step per disk operation of `adopt_frozen_registers` and `start`), `up`,
and through the quit (`BeginQuit`, `AskToLeave` per worker, `QuitAllDone`, `WriteItem`,
`Commit`). The removal of a photo that could not be read is the one `rmtree` whose middle somebody may
read, the start after a crash, so it goes file by file (`Unlinks`); the wipe of the working deposit and
the drop of `reboot_temp` are one step, because nothing reads either before a start has removed it again.
`Expire` follows the beat's wrapper (`beats.py:75-81`): when a parcel cannot be read nobody is dropped
and the start goes on, and `PullFails` is what its owner meets later, at every request. `disk` holds the three directories, each with its item, a parcel and a lock per
user; `deposit[w]` is the directory the `FreezeHandler` of worker `w` writes in, which
`Swap` replaces in the middle of its service. `moving[u]` is the departure or the pull of a
user under way, with the directory it locked: `PullReads`, `PullFails`, `PullLands`, `Writes`,
`WriteMisses`, `WriteRefused` (which may leave the parcel torn, or whole), `Departed` read `deposit` again at each step, as `self.freeze_handler` is.
`BeginLeaving`, `Swap`, `DepartsFlagged`, `CutStragglers`, `Leaves` are a worker's `quit`.
A store is the number of the machine's life in which its user was last served, so *old*
and *lost* are comparisons; `owed[u]` is the work the machine answers for, `excused` whom
the quit does not carry: who already slept when it began, who was born or pulled
home too late to be flagged, whose write failed or missed its folder.

What goes wrong is named in `Happens` and counted by `MaxTroubles`. A crash of the vertex takes
its workers with it at once, a user has one connection and one call at a time,
announcements are read in the step that sends them (their delays are `UserMobility`'s),
and whether requests still arrive during the quit depends on the server, so `late` is
a choice. A parcel is the file of a user's store, the only one whose header a start opens; those of his
connections are in `UserMobility` and `Registers`. `PhotoOf` maps a directory under its final name to
`AtomicPhoto`'s photo, and `Given` says that a start is removing it.

### Launch

`worker[n]` is a `WorkerHandler` with its `WorkerConnector` (listed, state, pid, connected,
whether its token admits), `job[t]` how far the launch of coroutine `t` is, `process[n]`
the process launched for worker `n`, `template[k]` a template with both its pipes, `current`
the one the connector talks to. A pid is the number of the worker it was launched
for, so that a handler with another's pid is seen. `Tasks` are the coroutines that launch, `Round`
those the heartbeat runs, which have no lock and are cancelled with it.

`Spawns`, `Summons`, `Summoned`, `Asks`, `AsksInVain`, `TakesAnswer`, `FindsPipeEnded`, `TimesOut`,
`Launched`, `PresentationTimesOut`, `LetsGo` are a launch between its awaits; `Builds`,
`BuildFails`, `Forks`, `Refuses`, `TemplateDies`, `TemplateLeaves` the template; `Joins`, `Presents`,
`PresentsInVain`, `WireLost`, `Dies`, `BeatKills`, `Lose`, `Bury` the process and its wire; `Leave`,
`BeginStop`, `StopsWorker`, `CloseBus`, `StopTemplate`, `TemplateKilled`, `Exit`, `Crash` the end.
A launch in flight when the server leaves completes. Two summons that
overlap make two templates, and the second is the one talked to. `LetsGo` may come at any
time within `QUIT_TIMEOUT_SECONDS`. The kill, the burial and the removal of one worker at a stop are one
step, orders to quit are `GroupPool`'s, and a token taken back does not disconnect who has
joined. Unless `flash` happens, a woken launch goes on before the loop hears of
anything else.

## Runs

| run | question | bounds | result |
|---|---|---|---|
| `store` | is the store one atomic, fair, honest dictionary, whoever gives up or dies | 2 workers, 2 contexts, 3 calls, 2 keys, every operation | all hold |
| `store_settles` | does every call end | the contending operations, fair | holds |
| `moves` | with orders, disk failures half way and a death anywhere: one home, quiet photographs, and short of a death nothing lost, own writes read, marks right | 2 workers, 3 requests, 3 orders, 1 death | all hold |
| `settles` | does every hold fall and every request end under launches, long calls, deaths, refusals, cuts, late and overdue orders, with no worker told to quit | 2 workers, 2 requests, 1 order, 1 death, fair | both hold |
| `upheaval` | does every request end under restarts, cuts, overdue quits, expired orders | 2 workers, 2 requests, 1 order, fair | holds |
| `one_process` | does whoever waited for the placement lock find the newborn (`group_handler.py:798-799`) | one launch | violated |
| `registers` | whatever overlaps, does the tree keep its edges and each cookie lead home; without overlap and refusals, does the vertex mirror the tree, does a guest's work survive the login, and are the placed, the boarded and the held the same people | 2 connections, 1 person, 2 pages, 4 requests, 3 at once, two verbs each while nothing has overlapped and one verb after, logins, refusals | all hold |
| `pool` | are placements on listed workers, does admission follow the policy in force, is one worker born at a time, does a closure leave somebody, do placements, departures, saturations and empty groups end | 2 users, 3 births, 1 unasked change, 2 policies, fair | all hold |
| `reboot` | is what the quit set out to carry in the next life and nothing older, is a photo adopted whole or, unless a start was removing it, not at all, does every quit end and every undisturbed start come up | 1 user, 2 workers, 3 lives, 2 troubles of every kind, fair | all hold |
| `reboot_parked` | does the photo hold a parcel of everybody it calls frozen (`spa_app.py:1014-1015`) | as above | violated |
| `launch` | does whoever is listed serve, does every launch end, does everything end with the server | 2 coroutines, 2 workers, 1 trouble of every kind but `flash`, fair | all hold |
| `launch_pid` | is the pid a handler holds its own worker's (`template_connector.py:168-169`) | 1 coroutine, 2 workers, late answers | violated |

Three requests let one be served, one arrive in the middle of a departure and one
check what became of the first two; two workers are what a double home needs;
a second and third order let a departure follow an adoption that followed a
departure. In `Registers` four requests let a guest be born, log in, come back from
the deposit and meet a sister; two connections and one person are what a shared row
needs, two pages a connection that outlives one of them. One death is enough for every
recovery path: a second finds either a fresh process or the state of the first.

In `pool` three births are a reception, a worker asked for and one that replaces or
returns; the quota holds two workers, so that the group saturates. The two policies
are the CPU judgments on and off, with two and one places per worker; the group starts
under either, its reception cool or hot. The temperatures stand on either side of the
hysteresis, the loads below the veto, between veto and restart, and past the
restart, which a first photo does not reach; a worker being born is never past its minimum
life (`worker_min_life_seconds` above zero). One unasked change (a sample, a photo, a
crash, a machine full or leaving, a configuration) may come at any step; failed
launches and overdue quits are not counted. Two changes of every kind, and three among
samples, photos and overdue quits, were checked for safety once.

In `reboot` three lives let a photo be taken, adopted and taken again, so that what the
second start finds may be older than the machine; two workers let one leave while the
other still serves and pulls; two troubles let a crash follow a crash, or a torn parcel
a death, and the start that goes on with it be followed by another quit. A second user adds no step
that one cannot take, and the theorems speak of any number; with one the whole space is 116,219 states. In `launch` two coroutines are a
placement and the restart that crosses it, two names an answer that belongs to another.
Bigger instances were checked for safety once: two users over two lives, three names with one trouble.

The violated properties are quotations of the repository's own documents;
`findings` in `PROJECT.json` gives the lines. The safety runs of `UserMobility` use
the symmetry of workers and of requests, those of `Registers` the symmetry of all four
sets, the liveness runs none. The runs of `Registers`, `SoftReboot` and `Launch` let the
system stop: its requests, its lives and its names are finitely many. A property that
joins two (`TurnWillEnd`, `GuestsStayHome`, `OneSetOfPeople`, `VertexAgrees`,
`EverybodyGoesOn`, `GroupRecovers`, `RebootEnds`, `NamesSettle`) says both.

**Fairness.** Weak fairness of the steps an event loop takes by itself: taking a
message from a lane, folding, waking who waits, ending a body. Every wait on
the folder's semaphore and on a hold has a clock in the code
(`deposit_lock_wait_limit`, `REQUEST_HOLD_MAX_SECONDS`), so `DepartureFails`,
`AdoptionFails` and `HoldTimeout` are fair too when they stay possible. A crash, an
order, a launch by somebody else, an overdue quit is never assumed to happen. In
`GroupPool` three tasks are fair: the placements (`asyncio.Lock` is first come first
served, and a launch ends by its presentation or by `process_ping_timeout`), the round
(`heartbeat_loop` gives every group its turn at every beat) and the processes (whoever
is told to leave goes or is killed when `quit_process` runs out of time, and the end of a
wire is read). A new request, a sample or a photo is never assumed. In
`SoftReboot` the steps of a start, of the quit and of a worker that was told to leave are fair, as
straight coroutines with a clock on every wait (`PENDING_CALL_GRACE_SECONDS`, `QUIT_TIMEOUT_SECONDS`,
`DEPOSIT_LOCK_WAIT_LIMIT`): a site need never answer, a departure need never end. In `Launch` a launch
(each wait has a timeout), the template, the processes, the end of a wire, the burial of the
dead and the stop are fair; that somebody launches, leaves, stops or dies is not.

## Proofs

`GlobalStore_proofs` proves for any number of workers, contexts, calls and keys:
type correctness, `TurnSeesTheDictionary`, `VerdictIsHonest`, `TurnWillEnd`, `ServedInOrder`,
and that `GlobalStore` implements `AtomicStore`. The assumptions
are `CallAssumption`: every context has a worker, every call a context, and the
mark of no holder is not a call. The inductive invariant `IInv` adds to the checked
properties what they leave implicit: where on the lane a call can be for each
phase of its caller, that a call which can still be served has not been applied,
that only the holder is in the second half of a turn. Each action preserves it by
the one thing it moves; the refinement then maps a service and a published
commit to `TakeEffect`, an answer to `Tell`, a lost wire to `WireLost`, all else to a
stutter. The order of service needs only `QueueNumbers`: no two parked calls have the same number, and
the next number to be given is above them all.

`Registers_proofs` proves for any connections, persons, pages and requests, however
they overlap: type correctness, `EdgesAgree`,
`GuestsStayHome` and `PageKeepsItsConnection`. The assumption is
`RegistersAssumption`: connections, persons and the mark of nobody are distinct.
`IInv` strengthens them with what crosses the wire: an event that may be folded
(`Announced`) names a page only with the connection it was opened under and a guest
only with his own connection, a parcel (`Packed`) likewise, and the phase of a request
says what its cookie, its heir and its parcel are (`Sound`). That is why crossing
replies cannot give a page or a cookie to somebody else: whatever is late, it was true
of the page or the cookie for good. Two lemmas carry the tree through every verb,
`BroughtKeepsTree` and `TakenKeepsTree`; opening a page only widens what may be said
(`BornWidens`), because a page that was never opened is on no wire.

`RegistersMirror_proofs` proves for any connections, persons, pages, requests and verbs
`MirrorAgrees`, whatever the site does and the deposit refuses, and `OneSetOfPeople` and
`NoWorkLost` for a site that logs guests in and does nothing else to an identity
(`Happens` without `switch` and `again`: with them the code does not keep the first, see
below). It adds `ParcelsAssumption`: the mark of no parcel is not a parcel. The three speak of
the rows and of indexes that hear of them later, so `MInv` says what the indexes *will* be:
`Leads` is the course of indexes the events said and not yet folded take them through, one
`Tells` per event, and `Follows` says that at its end they agree with the rows (`Agrees`).
That is why requests must not overlap (`Alone`): with one slot there is one course, and a verb
that moves the rows appends the events that move its end the same way; a fold takes the first
step of the course and leaves its end alone; two slots would have no order. For the people and the work the
end of the course must also be `Settled`: whoever has rows is placed, save whom a login of
this request brought into being and its tail will let go (`Newcomer`); whoever is on board has
rows; and every parcel that the drops on their way do not delete (`Lasting`) lies under a
connection without rows that the cookie leads to, at most one for each (`Lodged`). `Simple` is
what a plain site keeps at every step: a row has a connection, who has no row has no store,
every parcel carries a store, a request that logged in has a person as owner, and the parcel
being written is his store of now. Each verb is proved to move the rows and the course alike
(`NewConnectionMirrors` ... `JoinMirrors`), each step of a service to leave the course where it
was, and a fold to follow it. Two of the three were false as first stated, beyond the bounds of the run:
a request that opens again what it dropped after its login leaves the guest on board (hence
`relapse`), and a store that comes home to a resident takes more with it than a guest's
work (hence what `Install` takes off `carries`).

`SoftReboot_proofs` proves for any users, workers, lives and troubles: type correctness,
`RenamesLand`, and that `SoftReboot` implements `AtomicPhoto`. The assumption is
`SoftRebootAssumption`: the marks of nobody, nothing and a torn file are no worker and no store.
`IInv` is `Typed` with `Standing`: what each directory holds at each point of the quit and of the
start (`TempStands`, `PhotoStands`, `Blank` while no vertex runs), which is what makes each rename land
and lets a photo be replaced by nothing but the next one. `Commit` maps to the promise's `Commit`,
`Adopt` and `StartClean` to theirs, a reading that fails to `GiveUp`, an unlink to `Erode` or, when it takes the
item, to `Lose`, a fall meanwhile to `Forget`, the first disk operation that consumes the photo followed by a
fall to `Lose`, all else to a stutter.

`SoftRebootKept_proofs` goes on with the same machine and proves `NothingOld` and `Kept` for any
users, workers, lives and troubles. It adds `StillnessAssumption`: the mark of nothing is not a
movement, without which a departure could not be told from nobody leaving. `NothingOld` needs
every place a store can be in, the parcels being written and read included (`NoOlder`), and that
a start has dropped `reboot_temp` and emptied every process before it knows what it began with
(`TempDropped`). `Kept` speaks of a machine that serves or is down; in between, a user's work is
handed from a process to `reboot_temp`, from there to `reboot_data`, and from there to the working
deposit, and his own moves, his requests and the quit of his worker may be half done at each.
`UserKept` says it user by user: he is awake in one process, which is his home, and whoever is
being pulled is asleep there (`Homed`); the parcel a departure is writing is his store of now,
whatever is still to be served (`Photographed`); who leaves without having been served by this
machine is not called meanwhile, or the copy would be of the wrong life (`Blocked`); who is awake
in a worker whose deposit is `reboot_temp` is flagged, so that he is in the photo (`Flagged`); and
then where his work is at each point of the quit and of the start (`Carried`). `InTurn` is the
only part about several users: workers leave one at a time, a deposit is replaced only for the
one that leaves, and at the end of the quit all are off. Most steps concern one user and leave the
others `Aside`; the quit, a process that ends, the fall of the machine and the boot touch all of
them and are proved apart.

`GroupPool_proofs` proves for any users, policies, thresholds and number of births: type
correctness, `PlacedIsListed`, `AdmissionFollows`, `OneBirthForAll` and
`ClosureLeavesSomebody`. The assumption is `PoolAssumption`: the figures are numbers, each
policy has its veto below its restart and its CPU thresholds in order, and the marks are
distinct. None of the properties is inductive, because every task sleeps between reading the
group and acting on it. `IInv` says what must still be true when it wakes: nobody is placed
on a worker that has not presented itself (`Housed`), so a launch that fails strands nobody;
every worker being born has one launch behind it and the lock says whose (`Births`), so a
second birth for a place or a reception waits for the lock; the round waits for the lock at
most once (`Queued`); every handler has the admission its photo and temperature give it
under the policy in force (`AllSound`), which `Apply` must restore for all of them at once. A
birth that replaces a restarted worker takes no lock and is why `Births` speaks of two
launches, and why `OneBirthForAll` leaves it out.

`Launch_proofs` proves for any workers, coroutines and troubles type correctness, and
`ListedServes` for any happenings but `flash`. The assumption is `LaunchAssumption`: the
round's coroutines are coroutines, and the bounds are numbers. With `flash` the property is false
of the code: the loop hears that a process is lost while the launch its presentation woke has not
gone on yet, and the worker is listed with its wire gone (a hazard, at its line). `IInv` says why it
holds otherwise, as long as workers are launched: a worker has one line in one pipe or one
coroutine about to write it, and until then no process (`OneLine`), so that no fork falls on
a worker that has a process already or is on the bus; an event that is set is that of a listed worker whose process is
on the bus (`Wired`); and a launch that was woken finds it still set (`Waking`).

`UserMobility_proofs` proves type correctness for any workers, requests and disturbances
(`MobilityAssumption`: the mark of nobody is no worker, request or number), and for any
workers, requests, orders and deaths of a calm group the properties of the run `moves`:
`SingleHome`, `NothingLost`, `VertexAgrees`, `QuietParcels` and `ReadsItsWrites`. A group is
`Calm` when nothing but a crash or a refusal of the deposit happens to it: the group orders a
user away and he is frozen, adopted, refused or dies, while no worker is launched or told to
quit and no call outlives its welcome. Outside it the first property is false (the run `birth`)
or not claimed. Read one by one the properties are far from inductive, for what the vertex
believes is late by the lanes between. `IInv` says what is in the lanes. All that concerns him
is where he is placed: elsewhere there is no row, no call, no letter (`OnlyHome`). At home an
order is the last letter down and its answer the last one up, and what says him frozen is that
answer (`Carried`, `Told`, `Order`); a row is being adopted or is active exactly as the calls
inside need it, and a vertex that believes him frozen while his row is active has the news of
the adoption on its way (`Rows`); no adoption is told after a photo that shows him idle,
which is what keeps the group from ordering away somebody it does not know is back. `Whole`
says the rest as long as nobody died: the folder is locked exactly while its worker writes, a
write copies the store of that moment, and the answered requests, with those whose reply is
still in the lane, are in the active store or in the parcel. A crash empties his process and
cuts its lane; after it `Whole` promises nothing, and the rest still holds. `ReadsItsWrites`
follows since only `CloseRequest` ends the service of a call (`OnlyClosing`), in an active row. A refused
departure leaves a parcel beside a row that lives: `Parcels` says that what is in it, and what a departure is
about to write, the row has, so that the next departure writes over nothing it would miss.

Model-checked only: `UserMobility` with births, restarts and expiries,
`PidIsOwn` and the temporal promises of `Launch`, `TheEndedLeave` and the other temporal
promises of `GroupPool`, and liveness, which is beyond the prover, like `ENABLED` and induction over data.

## Plan

1. `GlobalStore`, its promise and its proofs (done).
2. `UserMobility` and its theorems for a calm group (done for one connection); next, the
   same theorems with restarts, where `IInv` must also follow a user that is ceded.
3. `Registers` and its theorems (done, the mirror and the logins included); next, its composition with `UserMobility`:
   several connections of one user across two workers.
4. `SoftReboot`, its promise and its proofs, `Kept` and `NothingOld` included (done).
5. `GroupPool` and its theorems (done for one group); next, several groups under one
   commander, and how a user is given his.
6. `Launch`, the birth and the end of a worker, and its proofs (done); its composition with `GroupPool`
   would let a placement be answered by a ghost.
7. The vertex's own housekeeping (`drop_expired_users`, `cleanup_frozen`), the page channel,
   the validation of a configuration.

## What the models met besides

Behaviours of the code that no run states, most of them listed under `hazards` at their line.
The first three were found by TLC as violations of a document's words:

- a grant that does not fit a frame leaves as an error and the turn stays held until its
  worker dies, although `lock`'s docstring says it is released (`worker_connector.py:284`,
  `spa_commander.py:377-378`): the exceptions `TurnWillEnd` names;
- a user still being adopted when his worker is told to quit is flagged in the photo and held;
  when the adoption fails, `report_death` releases only whom the handler hosts and he is held
  for good (`envelope_handler.py:198`): `settles` runs without restarts;
- a connection that logs in as another person takes the row of the first with it when it
  was his last, while the handler keeps him on board (`register_registry.py:391`,
  `envelope_handler.py:264-268`): `registers` runs without such switches;
- a person with two connections logs in on both, and both are parked with a store: whichever comes
  home second finds him resident and its store is dropped, his own work in it, although the
  docstring says "the RESIDENT wins and what the guest did before logging in dies"
  (`spa_worker.py:1736-1737`, `:1742-1748`): `NoWorkLost` does not count what dies so;
- a request that logs in, drops its connection and opens it again before its tail makes the guest
  anew; the tail takes his row without a word and he stays on board (`spa_worker.py:2684`):
  `OneSetOfPeople` and `NoWorkLost` leave a `relapse` out;
- an ordered restart can purge a user reborn, without a flag, on the quitting worker
  while his parcels are written (`group_handler.py:1874`);
- a process that dies between reading a parcel and announcing the adoption leaves
  a user marked frozen with nothing in the deposit (`spa_worker.py:1649`);
- with requests that overlap, a parallel request that still carries the guest's
  identity can open again the connection its sister has just parked, a later login
  then overwrites the parcel, work between the copy and the release is lost, and a
  page dropped by the request that answers first stays in `page_connection_map`; this is why
  `MirrorAgrees`, `OneSetOfPeople` and `NoWorkLost` are stated for
  requests that do not overlap;
- a deposit that refuses a login's parcel leaves the person resident where nobody
  placed him (`spa_worker.py:2016`): `OneSetOfPeople` is stated without refusals;
- a request that drops a user and then logs in as him has its parcel deleted by the fold
  of its own `drop_user` (`spa_commander.py:1292`);
- `restart_worker` bears its replacement with neither the placement lock nor the growth
  gate (`group_handler.py:1588`), although the docstring of `_may_grow` says every birth
  obeys it: `OneBirthForAll` leaves that birth out;
- a placement that waited for the lock across a change of configuration, or through a failed
  launch during which a closed worker reopened, is refused although there is room
  (`group_handler.py:820`, `:963`): `EveryPlacementEnds` asks for an end, not for a place;
- the restart of a worker that had to be killed reads its death before the end of its wire:
  `report_death` raises, and the replacement waits for a later turn;
- the last worker that serves can be closed while one launched before it is still starting:
  a worker's age counts from its launch, and only the default of
  `worker_min_life_seconds` (60 s, against a launch that ends within `process_ping_timeout`,
  10 s) keeps the two apart (`group_handler.py:1612`); `ClosureLeavesSomebody` counts the one being born;
- an overloaded bus leaves a worker written quitting that was never told to leave, and a
  placement cancelled during a launch leaves its handler starting: neither is in the model;
- two launches that overlap (a restart takes no lock) meet on the template's pipe: the second
  `readline` raises, its answer stays there, and pids are shifted as after a timeout
  (`template_connector.py:181`, `group_handler.py:1588`);
- a process lost between its presentation and the wake of its launch is written `running` over
  `aborted`, and no round buries it (`worker_handler.py:572`);
- during a soft quit: a user parked by the first worker and pulled home by the second is adopted
  bare, because the second still reads the working deposit, and overwrites his parcel when it leaves;
  a departure surprised by the new handler misses its folder and raises when it unlocks
  (`freeze_handler.py:169`), a pull surprised after it read its parcel loses it; a departure that ends in the
  working deposit is not carried; a user born late on a leaving worker has no flag;
- a worker that dies under the order to quit raises `ConnectionError` through `quit_all`, and
  nobody's photo is committed; one that dies before it writes a parcel leaves
  a semaphore, carried into a life that never removes it;
- a death or a refusal in the middle of a store's parcel leaves a torn file. Carried in a photo, it is opened by
  the judgement of the expired, whose beat swallows what it raises: the start goes on, but as long as the
  file is there no round drops an expired user (`spa_commander.py:1720`, `:1971`), and every request of its owner
  fails, for the file stays when its reading fails (`spa_worker.py:2817`);
- a photo whose item could not be read once is removed file by file; a crash in the middle can leave the
  item with parcels gone, and the next start adopts what is left, although `adopt_frozen_registers` says
  "Never a partial adoption" (`spa_commander.py:1684`, `freeze_handler.py:259`): the one way in which
  `AtomicPhoto` lets a photo lose parcels;
- a deposit that refuses a departure half way leaves a parcel, or a torn file, of a user who goes on living
  where he was (`spa_worker.py:1945`), although `adopt_connection` says that "a living row and a parked parcel
  of the same connection cannot both exist" (`spa_worker.py:1697-1698`); `SingleHome` says what is left of it;
- a start that fails after `adopt_frozen_registers`, or a crash between its first and last
  disk operation, has used the photo up.

## Not modelled

The HTTP and websocket front, the hosted application, the wire formats, the
profile files, the inspector and the console: input and output, with no decision
that bears on the properties above. The page channel (`openchannel` and the queue of a page) and
the housekeeping of a running vertex have no module. Timeouts are choices and not clocks; memory
and CPU figures appear in `GroupPool` only, as the few values its thresholds tell apart.
The filter of the thermometer, the decisions journal, the CPU shares an offload ranks
users by and the cancellation of a waiting request are not in `GroupPool`. In `UserMobility` the
vertex answers announcements in time, the drop of an expired user and the login
are left out, and a purge of the deposit by another process is a single step. `rmtree` ignores its
errors: a file that cannot be removed, and the rename it would make fail, are not in `SoftReboot`.
