----------------------------- MODULE GroupPool -----------------------------
(***************************************************************************)
(* One group of workers (group_handler.py) and the handlers under it       *)
(* (worker_handler.py): who is placed where, when a worker is born, when   *)
(* it must go, and how its end is read.  Three kinds of task share the     *)
(* commander's loop: the placements, one at a time under _placement_lock,  *)
(* the group's turn of the round (ping), and the clocks and configurations *)
(* that change what both of them judge by.  A step is what a task does     *)
(* between two awaits.                                                     *)
(*                                                                         *)
(* Memory and CPU are percentages in tens: what a judgment compares, not   *)
(* what a gauge measures.  Times are choices: a wait may end whenever the  *)
(* code's clock could end it.                                              *)
(***************************************************************************)
EXTENDS Naturals, Sequences, FiniteSets, FiniteSetsExt

CONSTANTS
    Users,      \* the identities to place
    None,       \* no user, no temperature, no threshold
    Policies,   \* the settings a configuration may bring
    Heats,      \* the temperatures a sample may show
    Loads,      \* the memory a photo may show, of a worker's ceiling
    FirstLoads, \* what the photo of a presentation may show
    Ceiling,    \* worker_memory_ceiling_bytes
    Quota,      \* memory_quota_bytes
    Beats,      \* CHECK_OCCUPANCY_BEATS: the turns between two readings of the shape
    Happens,    \* which of the disturbances below can happen
    MaxBirths,  \* bound: the workers ever started; a start past it fails
    MaxChanges  \* bound: what changes under the group unasked

\* guest      a visitor without a name is served by the reception
\* sample     the thermometer reads a worker
\* photo      an envelope brings a photo
\* machine    the machine runs out of room, or has room again
\* leaving    the server leaves RUNNING
\* apply      a configuration is put in force
\* failure    a process does not start
\* crash      a process dies unasked, or stays mute
\* overdue    a process told to leave does not, or its order is never answered
Disturbances == {"guest", "sample", "photo", "machine", "leaving", "apply", "failure",
                 "crash", "overdue"}

PolicyRecords ==
    [close : Nat \cup {None}, reopen : Nat, spare : Nat, offload : Nat \cup {None},
     veto : Nat, restart : Nat, heads : Nat]

ASSUME PoolAssumption ==
    /\ None \notin Users \cup Nat \cup {"round"} /\ "round" \notin Users
    /\ Heats \subseteq Nat /\ Loads \subseteq Nat /\ Ceiling \in Nat /\ Quota \in Nat
    /\ FirstLoads \subseteq Loads /\ FirstLoads # {}
    /\ Policies \subseteq PolicyRecords /\ Policies # {}
    /\ \A p \in Policies : /\ p.veto < p.restart
                           /\ p.close # None => /\ p.reopen < p.close /\ p.spare <= p.reopen
    /\ Beats \in Nat \ {0}
    /\ Happens \subseteq Disturbances
    /\ MaxBirths \in Nat \ {0} /\ MaxChanges \in Nat

Names == 1 .. MaxBirths  \* in the order of _worker_counter: the smallest is the oldest
Nobody == 0              \* no worker

VARIABLES
    worker,     \* per name, WorkerHandler: its state, wire, photo, temperature, admission
    listed,     \* worker_handler_map
    born,       \* _worker_counter
    place,      \* user_worker_map
    ask,        \* per user: his placement under way, the policy it stands on, its newborn
    lock,       \* _placement_lock: who holds it and who waits
    round,      \* the group's turn: where it stands, what it ordered, on which worker
    group,      \* GroupHandler.state, the wake, the pressure clock, the policy, the beats
    machine,    \* what SpaCommander says of the machine and of the server
    changes     \* bound: the unasked changes so far

vars == <<worker, listed, born, place, ask, lock, round, group, machine, changes>>

States == {"none", "starting", "running", "quitting", "quitted", "aborted"}
DeadStates == {"quitted", "aborted"}
\* none: not presented; up; cut: the process is gone; gone: the end of the wire was read
Wires == {"none", "up", "cut", "gone"}

TypeOK ==
    /\ worker \in [Names -> [state : States, wire : Wires, load : Loads \cup {0},
                             heat : Heats \cup {None}, open : BOOLEAN, awaited : BOOLEAN]]
    /\ listed \subseteq Names
    /\ born \in 0 .. MaxBirths
    /\ place \in [Users -> Names \cup {Nobody}]
    /\ ask \in [Users -> [phase : {"idle", "waiting", "launching"}, policy : Nat,
                          newborn : Names \cup {Nobody}]]
    /\ lock \in [holder : Users \cup {None, "round"}, queue : Seq(Users \cup {"round"})]
    /\ round \in [at : {"beats", "quit", "killed", "lock", "launch", "slim", "silence"},
                  order : {None, "close", "restart", "reception"},
                  target : Names \cup {Nobody}, policy : Nat, due : BOOLEAN]
    /\ group \in [state : {"running", "saturated", "broken"}, woken : BOOLEAN,
                  pressure : {"past", "fresh"}, policy : Policies, generation : Nat,
                  beats : 0 .. Beats - 1]
    /\ machine \in {"roomy", "tight", "leaving"}
    /\ changes \in 0 .. MaxChanges

-----------------------------------------------------------------------------
(* What the group reads                                                    *)

Living == {w \in listed : worker[w].state \notin DeadStates}
Reception == Min(Living)
Placed(w) == {u \in Users : place[u] = w}
Policy == group.policy
Held(generation) == group.generation = generation

\* Both gates, the quota with one more ceiling in it and the machine, on the photos of
\* workers: one that was never taken shows nothing, and a worker being born weighs zero.
Affordable(workers) ==
    /\ machine # "tight"
    /\ SumFunctionOnSet([w \in Names |-> workers[w].load], Living) + Ceiling <= Quota
MayGrow == Affordable(worker)

\* WorkerHandler.assign_user: the worker judges itself on its last photo.
Admits(w) ==
    /\ w \in listed
    /\ worker[w].state = "running"
    /\ Cardinality(Placed(w)) < Policy.heads
    /\ worker[w].load <= Policy.veto

Candidates(open) == {w \in Living : worker[w].open = open /\ Admits(w)}

\* The hysteresis: where the admission of a worker lands under a policy.
AdmissionOf(handler, policy) ==
    IF handler.heat = None THEN handler.open
    ELSE handler.heat < policy.reopen \/ (handler.heat <= policy.close /\ handler.open)

\* The admission judged wrongly: a policy that is off leaves everybody as he is.
AdmissionUnderKeeps(handler, policy) ==
    handler.heat = None \/ IF policy.close = None THEN handler.open ELSE AdmissionOf(handler, policy)

\* A configuration opens who has no temperature, and everybody when it has no threshold.
AdmissionUnder(handler, policy) ==
    policy.close = None \/ handler.heat = None \/ AdmissionOf(handler, policy)

Hottest(workers) == {w \in workers : \A v \in workers : worker[v].heat <= worker[w].heat}
Coldest(workers) == {w \in workers : \A v \in workers : worker[w].heat <= worker[v].heat}

\* The others can take this worker's heat and memory in even shares, and its users by heads.
Absorbable(w) ==
    LET others == {v \in Living \ {w} : worker[v].state # "quitting"}
        count == Cardinality(others)
        Fits(own, share, limit) == own * count + share <= limit * count
        Room(v) == Max({0, Policy.heads - Cardinality(Placed(v))})
    IN /\ others # {}
       /\ \A v \in others : /\ Fits(worker[v].heat, worker[w].heat, Policy.spare)
                            /\ Fits(worker[v].load, worker[w].load, Policy.veto)
       /\ MapThenSumSet(Room, others) >= Cardinality(Placed(w))

\* Whom a closure may take, the reception excepted.
Closable(grown) == {w \in grown \ {Reception} : worker[w].state = "running"}

\* The worker to close, wrongly: the coldest, whoever it is and whoever is left to take over.
SpareUnweighed(grown) == {w \in Coldest(grown) : worker[w].state = "running"}

\* The worker to close, given who is past worker_min_life_seconds: one or none.
Spare(grown) ==
    LET candidates == Closable(grown)
    IN IF candidates = {} THEN {}
       ELSE LET coldest == Min(Coldest(candidates))
            IN {w \in {coldest} : Absorbable(w)}

-----------------------------------------------------------------------------
Blank == [state |-> "none", wire |-> "none", load |-> 0, heat |-> None,
          open |-> TRUE, awaited |-> FALSE]
Idle == [phase |-> "idle", policy |-> 0, newborn |-> Nobody]
Resting == [at |-> "silence", order |-> None, target |-> Nobody, policy |-> 0, due |-> FALSE]

\* start() has launched the reception of the base group before anybody is served; it has
\* been measured and judged.
Init ==
    /\ \E p \in Policies, heat \in Heats :
          LET first == [Blank EXCEPT !.state = "running", !.wire = "up",
                                     !.load = Min(FirstLoads), !.heat = heat]
          IN /\ worker = [w \in Names |-> IF w = 1 THEN [first EXCEPT !.open = AdmissionUnder(first, p)]
                                           ELSE Blank]
             /\ group = [state |-> "running", woken |-> FALSE, pressure |-> "past",
                         policy |-> p, generation |-> 0, beats |-> 0]
    /\ listed = {1}
    /\ born = 1
    /\ place = [u \in Users |-> Nobody]
    /\ ask = [u \in Users |-> Idle]
    /\ lock = [holder |-> None, queue |-> <<>>]
    /\ round = Resting
    /\ machine = "roomy"
    /\ changes = 0

-----------------------------------------------------------------------------
(* A birth: start_worker up to its await, and what ends the await.         *)

CanStart == machine # "leaving" /\ born < MaxBirths

\* How the group stands after a start that gave nobody: refused while leaving, else broken.
Unstarted == IF machine = "leaving" THEN group.state ELSE "broken"

Launch(remaining) ==
    /\ CanStart
    /\ born' = born + 1
    /\ listed' = remaining \cup {born + 1}
    /\ worker' = [w \in Names |-> IF w = born + 1 THEN [Blank EXCEPT !.state = "starting"]
                                  ELSE IF w \in remaining THEN worker[w] ELSE Blank]

\* The presentation, whose envelope carries a photo, and the wake of launch_process: the
\* few turns of the loop between the two are one step here.
Launched(w) ==
    \E load \in FirstLoads :
        worker' = [worker EXCEPT ![w].state = "running", ![w].wire = "up", ![w].load = load]

\* It never presented itself: killed, unlisted, and the group is broken.
Unlaunched(w) ==
    /\ "failure" \in Happens
    /\ worker' = [worker EXCEPT ![w] = Blank]
    /\ listed' = listed \ {w}

-----------------------------------------------------------------------------
(* The placement of one user: GroupHandler.assign_user.                    *)

\* The lock used wrongly: given back before the await.
HoldTillTheAwait(who, queue) == lock' = [holder |-> None, queue |-> queue]

Hold(who, queue) == lock' = [holder |-> who, queue |-> queue]
Free(queue) == lock' = [holder |-> None, queue |-> queue]

Land(u, w) ==
    /\ place' = [place EXCEPT ![u] = w]
    /\ ask' = [ask EXCEPT ![u] = Idle]

\* The last level, wrongly: whoever finds no candidate waits for one and is never told.
FallbackUntold(u, state, grows) ==
    /\ group' = [group EXCEPT !.state = state]
    /\ \/ \E w \in Candidates(FALSE) : Land(u, w)
       \/ Candidates(FALSE) = {} /\ UNCHANGED <<place, ask>>

\* The last level: a CPU-closed worker under the hard limits, or the refusal.
Fallback(u, state, grows) ==
    \/ /\ \E w \in Candidates(FALSE) : Land(u, w)
       /\ group' = [group EXCEPT !.state = state]
    \/ /\ Candidates(FALSE) = {}
       /\ ask' = [ask EXCEPT ![u] = Idle]
       /\ group' = [group EXCEPT !.state = IF grows THEN state ELSE "saturated", !.woken = TRUE]
       /\ UNCHANGED place

\* Under the lock: an open worker, else a birth, else the last level.  Which open worker
\* is a matter of heat and of who has just admitted somebody: any of them.
Turn(u, generation, queue) ==
    LET grows == Candidates(TRUE) = {} /\ MayGrow /\ Held(generation)
    IN \/ /\ \E w \in Candidates(TRUE) : Land(u, w)
          /\ Free(queue)
          /\ UNCHANGED <<worker, listed, born, group>>
       \/ /\ grows
          /\ Launch(listed)
          /\ ask' = [ask EXCEPT ![u] = [phase |-> "launching", policy |-> generation,
                                        newborn |-> born + 1]]
          /\ Hold(u, queue)
          /\ UNCHANGED <<place, group>>
       \/ /\ Candidates(TRUE) = {} /\ ~(grows /\ CanStart)
          /\ Fallback(u, IF grows THEN Unstarted ELSE group.state, MayGrow)
          /\ Free(queue)
          /\ UNCHANGED <<worker, listed, born>>

\* A request of a user with no placement: the policy is bound before the lock is asked for.
Ask(u) ==
    /\ ask[u].phase = "idle" /\ place[u] = Nobody
    /\ \/ /\ lock.holder = None /\ lock.queue = <<>>
          /\ Turn(u, group.generation, <<>>)
       \/ /\ lock.holder # None \/ lock.queue # <<>>
          /\ ask' = [ask EXCEPT ![u] = [phase |-> "waiting", policy |-> group.generation,
                                        newborn |-> Nobody]]
          /\ lock' = [lock EXCEPT !.queue = Append(@, u)]
          /\ UNCHANGED <<worker, listed, born, place, group>>
    /\ UNCHANGED <<round, machine, changes>>

NextPlacement(u) ==
    /\ lock.holder = None /\ lock.queue # <<>> /\ Head(lock.queue) = u
    /\ Turn(u, ask[u].policy, Tail(lock.queue))
    /\ UNCHANGED <<round, machine, changes>>

\* The newborn is asked like anybody else.
PlacementLaunched(u) ==
    LET w == ask[u].newborn
    IN /\ ask[u].phase = "launching"
       /\ Launched(w)
       /\ Free(lock.queue)
       /\ IF Cardinality(Placed(w)) < Policy.heads /\ worker'[w].load <= Policy.veto
          THEN Land(u, w) /\ group' = [group EXCEPT !.state = "running"]
          ELSE Fallback(u, "running", Affordable(worker'))
       /\ UNCHANGED <<listed, born, round, machine, changes>>

PlacementUnlaunched(u) ==
    /\ ask[u].phase = "launching"
    /\ Unlaunched(ask[u].newborn)
    /\ Fallback(u, "broken", MayGrow)
    /\ Free(lock.queue)
    /\ UNCHANGED <<born, round, machine, changes>>

\* A visitor without a name is served by the reception, and on_new_connection places him.
Baptise(u) ==
    /\ "guest" \in Happens
    /\ ask[u].phase = "idle" /\ place[u] = Nobody /\ group.state # "saturated"
    /\ Living # {} /\ worker[Reception].wire = "up"
    /\ place' = [place EXCEPT ![u] = Reception]
    /\ UNCHANGED <<worker, listed, born, ask, lock, round, group, machine, changes>>

-----------------------------------------------------------------------------
(* The group's turn: GroupHandler.ping.                                    *)

At(step) == round' = [Resting EXCEPT !.at = step]

\* A burial done wrongly: the placements stay, or point to nothing.
BuryTheName(dead) == place' = [u \in Users |-> place[u]]
BuryInTheVoid(dead) == place' = [u \in Users |-> IF place[u] \in dead THEN None ELSE place[u]]

\* report_death and drop_worker: out of the list, with the placements it held.
Bury(dead) == place' = [u \in Users |-> IF place[u] \in dead THEN Nobody ELSE place[u]]

\* The wake is consumed, the dead are buried, the silent are beaten: a mute one is a Crash.
RoundStarts ==
    LET dead == listed \ Living
        beats == (group.beats + 1) % Beats
    IN /\ round.at = "silence"
       /\ group' = [group EXCEPT !.woken = FALSE, !.beats = beats]
       /\ Bury(dead)
       /\ listed' = Living
       /\ worker' = [w \in Names |-> IF w \in dead THEN Blank ELSE worker[w]]
       /\ round' = [Resting EXCEPT !.at = "beats", !.due = group.woken \/ beats = 0]
       /\ UNCHANGED <<born, ask, lock, machine, changes>>

OrderQuit(w, order, workers) ==
    /\ worker' = [workers EXCEPT ![w].state = "quitting", ![w].awaited = TRUE]
    /\ round' = [Resting EXCEPT !.at = "quit", !.order = order, !.target = w]

\* _judge_cpu_admission over the living, with the temperatures of workers.
Judged(workers) ==
    IF Policy.close = None THEN workers
    ELSE [w \in Names |-> IF w \in Living
                          THEN [workers[w] EXCEPT !.open = AdmissionOf(workers[w], Policy)]
                          ELSE workers[w]]
Pressure(judged) ==
    IF \E w \in listed : judged[w].open # worker[w].open THEN "fresh" ELSE group.pressure

Suspended(judged) ==
    /\ Policy.close # None
    /\ (\E w \in Living : ~judged[w].open) \/ Pressure(judged) = "fresh"

\* Whether a reception is missing, or, wrongly, only from a group that is not broken.
MissingUnlessBroken(generation) ==
    Living = {} /\ Held(generation) /\ group.state # "broken"
Missing(generation) == Living = {} /\ Held(generation)

\* The birth of a reception, under the lock like every placement.
ReceptionTurn(generation, queue) ==
    LET due == Missing(generation)
    IN \/ /\ due /\ MayGrow
          /\ Launch(listed)
          /\ round' = [Resting EXCEPT !.at = "launch", !.order = "reception", !.target = born + 1]
          /\ Hold("round", queue)
          /\ UNCHANGED <<place, group>>
       \/ /\ ~(due /\ MayGrow /\ CanStart)
          /\ group' = [group EXCEPT !.state = IF ~due THEN @ ELSE IF MayGrow THEN Unstarted
                                              ELSE "saturated"]
          /\ At("slim") /\ Free(queue)
          /\ UNCHANGED <<worker, listed, born, place>>

\* check_occupancy: the one step the reading of the shape calls for.
NotDue ==
    /\ round.at = "beats" /\ ~round.due
    /\ At("slim")
    /\ UNCHANGED <<worker, listed, born, place, ask, lock, group, machine, changes>>

Swollen == {w \in Living : worker[w].load > Policy.restart}

RestartSwollen ==
    /\ round.at = "beats" /\ round.due /\ Swollen # {}
    /\ OrderQuit(Min(Swollen), "restart", worker)
    /\ UNCHANGED <<listed, born, place, ask, lock, group, machine, changes>>

MissReception ==
    /\ round.at = "beats" /\ round.due /\ Living = {}
    /\ \/ /\ lock.holder = None /\ lock.queue = <<>>
          /\ ReceptionTurn(group.generation, <<>>)
       \/ /\ lock.holder # None \/ lock.queue # <<>>
          /\ round' = [Resting EXCEPT !.at = "lock", !.policy = group.generation]
          /\ lock' = [lock EXCEPT !.queue = Append(@, "round")]
          /\ UNCHANGED <<worker, listed, born, place, group>>
    /\ UNCHANGED <<ask, machine, changes>>

NextReception ==
    /\ lock.holder = None /\ lock.queue # <<>> /\ Head(lock.queue) = "round"
    /\ ReceptionTurn(round.policy, Tail(lock.queue))
    /\ UNCHANGED <<ask, machine, changes>>

\* The state once the shape is read; wrongly, whatever a refusal has written stays.
StateForever == group.state
StateRead == IF group.state = "saturated" /\ MayGrow THEN "running" ELSE group.state

\* Who is past its minimum life is a matter of clocks: any of the workers.
ReadShape ==
    LET judged == Judged(worker)
        silent == (\E w \in Living : worker[w].heat = None) \/ Suspended(judged)
    IN /\ round.at = "beats" /\ round.due /\ Living # {} /\ Swollen = {}
       /\ group' = [group EXCEPT !.state = StateRead, !.pressure = Pressure(judged)]
       /\ \E grown \in SUBSET Living :
             LET spare == IF silent THEN {} ELSE Spare(grown)
             IN \/ \E w \in spare : OrderQuit(w, "close", judged)
                \/ spare = {} /\ worker' = judged /\ At("slim")
       /\ UNCHANGED <<listed, born, place, ask, lock, machine, changes>>

-----------------------------------------------------------------------------
(* The departure of a worker: quit_process, and what the round does after. *)

\* While it drains, each user_frozen gives a user back to the placement.
Parked(u) ==
    /\ place[u] # Nobody /\ worker[place[u]].awaited /\ worker[place[u]].wire = "up"
    /\ place' = [place EXCEPT ![u] = Nobody]
    /\ UNCHANGED <<worker, listed, born, ask, lock, round, group, machine, changes>>

Leaves(w) ==
    /\ worker[w].awaited /\ worker[w].wire = "up"
    /\ worker' = [worker EXCEPT ![w].wire = "cut"]
    /\ UNCHANGED <<listed, born, place, ask, lock, round, group, machine, changes>>

\* lose and on_child_lost: the parked wait says whether the death was expected.
ReadEnd(w) ==
    /\ worker[w].wire = "cut"
    /\ worker' = [worker EXCEPT ![w].wire = "gone", ![w].awaited = FALSE,
                                ![w].state = IF worker[w].awaited THEN "quitted" ELSE "aborted"]
    /\ group' = [group EXCEPT !.woken = TRUE]
    /\ UNCHANGED <<listed, born, place, ask, lock, round, machine, changes>>

\* restart_worker after the quit: the death is read, and a worker is born with no gate.
Replace(w) ==
    LET remaining == listed \ {w}
    IN /\ Bury({w})
       /\ \/ /\ Launch(remaining)
             /\ round' = [Resting EXCEPT !.at = "launch", !.order = "restart", !.target = born + 1]
             /\ UNCHANGED group
          \/ /\ ~CanStart
             /\ listed' = remaining
             /\ worker' = [worker EXCEPT ![w] = Blank]
             /\ group' = [group EXCEPT !.state = Unstarted]
             /\ At("slim") /\ UNCHANGED born

NextAfterQuit ==
    IF round.order = "restart" /\ worker[round.target].state \in DeadStates
    THEN Replace(round.target)
    ELSE At("slim") /\ UNCHANGED <<worker, listed, born, place, group>>

\* The wait for the end was resolved.
QuitEnds ==
    /\ round.at = "quit" /\ worker[round.target].state \in DeadStates
    /\ NextAfterQuit
    /\ UNCHANGED <<ask, lock, machine, changes>>

\* The order itself found nobody on the wire: the failure ends the judgment, not the round.
QuitRefused ==
    /\ round.at = "quit" /\ worker[round.target].wire \in {"cut", "gone"}
    /\ At("slim")
    /\ UNCHANGED <<worker, listed, born, place, ask, lock, group, machine, changes>>

\* The time is over, wrongly: nobody kills the process.
QuitOverdueSpared ==
    /\ "overdue" \in Happens
    /\ round.at = "quit" /\ worker[round.target].wire = "up"
    /\ worker' = [worker EXCEPT ![round.target].awaited = FALSE]
    /\ round' = [round EXCEPT !.at = "killed"]
    /\ UNCHANGED <<listed, born, place, ask, lock, group, machine, changes>>

\* The time is over: the wait is dropped and the process killed.
QuitOverdue ==
    /\ "overdue" \in Happens
    /\ round.at = "quit" /\ worker[round.target].wire = "up"
    /\ worker' = [worker EXCEPT ![round.target].wire = "cut", ![round.target].awaited = FALSE]
    /\ round' = [round EXCEPT !.at = "killed"]
    /\ UNCHANGED <<listed, born, place, ask, lock, group, machine, changes>>

\* The process is buried; whether the end of its wire was read by then is another matter,
\* and report_death refuses a worker that is not dead.
AfterKill ==
    /\ round.at = "killed"
    /\ NextAfterQuit
    /\ UNCHANGED <<ask, lock, machine, changes>>

RoundLaunched ==
    /\ round.at = "launch"
    /\ Launched(round.target)
    /\ group' = [group EXCEPT !.state = "running"]
    /\ IF round.order = "reception" THEN Free(lock.queue) ELSE UNCHANGED lock
    /\ At("slim")
    /\ UNCHANGED <<listed, born, place, ask, machine, changes>>

RoundUnlaunched ==
    /\ round.at = "launch"
    /\ Unlaunched(round.target)
    /\ group' = [group EXCEPT !.state = "broken"]
    /\ IF round.order = "reception" THEN Free(lock.queue) ELSE UNCHANGED lock
    /\ At("slim")
    /\ UNCHANGED <<born, place, ask, machine, changes>>

-----------------------------------------------------------------------------
(* The two judgments on users.  The wait for the answer of a departure is  *)
(* one step here; UserMobility models what happens in it.                  *)

Overheated ==
    {w \in Living : /\ Policy.offload # None
                    /\ worker[w].state = "running" /\ ~worker[w].open
                    /\ worker[w].heat # None /\ worker[w].heat > Policy.offload}

\* check_cpu_offload: the hottest cedes one of at least two who make its load, if one is idle.
Offload ==
    /\ round.at = "slim"
    /\ \/ UNCHANGED <<place, group>>
       \/ /\ Overheated # {}
          /\ group' = [group EXCEPT !.pressure = "fresh"]
          /\ LET target == Min(Hottest(Overheated))
             IN \E u \in Placed(target) :
                   /\ Cardinality(Placed(target)) >= 2
                   /\ \/ UNCHANGED place
                      \/ worker[target].wire = "up" /\ place' = [place EXCEPT ![u] = Nobody]
    /\ round' = Resting
    /\ UNCHANGED <<worker, listed, born, ask, lock, machine, changes>>

\* check_user_activity: who is silent for long is parked or dropped, one after the other,
\* and the rest until the next turn.
PutToSleep(u) ==
    /\ round.at = "silence"
    /\ place[u] \in Living /\ worker[place[u]].wire = "up"
    /\ place' = [place EXCEPT ![u] = Nobody]
    /\ UNCHANGED <<worker, listed, born, ask, lock, round, group, machine, changes>>

-----------------------------------------------------------------------------
(* What changes under the group.                                           *)

Change(kind) == kind \in Happens /\ changes < MaxChanges /\ changes' = changes + 1

\* sample_cpu_temperatures reads every worker: w shows heat, or nothing for want of two
\* readings; whose process is gone shows nothing, the others what they showed before.
Sample(w) ==
    /\ Change("sample")
    /\ w \in Living
    /\ \E heat \in Heats \cup {None} :
          LET read == [v \in Names |->
                  IF worker[v].wire \in {"cut", "gone"} THEN [worker[v] EXCEPT !.heat = None]
                  ELSE IF v = w THEN [worker[v] EXCEPT !.heat = heat] ELSE worker[v]]
              judged == Judged(read)
          IN worker' = judged /\ group' = [group EXCEPT !.pressure = Pressure(judged)]
    /\ UNCHANGED <<listed, born, place, ask, lock, round, machine>>

Photo(w) ==
    /\ Change("photo")
    /\ w \in listed /\ worker[w].wire = "up"
    /\ \E load \in Loads :
          /\ worker' = [worker EXCEPT ![w].load = load]
          /\ group' = [group EXCEPT !.woken = @ \/ load > Policy.restart]
    /\ UNCHANGED <<listed, born, place, ask, lock, round, machine>>

\* A process dies, or two beats found it mute and it was killed.
Crash(w) ==
    /\ Change("crash")
    /\ worker[w].wire = "up"
    /\ worker' = [worker EXCEPT ![w].wire = "cut"]
    /\ UNCHANGED <<listed, born, place, ask, lock, round, group, machine>>

MachineChanges ==
    /\ \/ /\ Change("machine") /\ machine # "leaving"
          /\ machine' \in {"roomy", "tight"} \ {machine}
       \/ /\ Change("leaving") /\ machine = "roomy" /\ machine' = "leaving"
    /\ UNCHANGED <<worker, listed, born, place, ask, lock, round, group>>

\* apply_group_settings: the new thresholds and the admission they give, in one breath.
Apply ==
    /\ Change("apply")
    /\ \E policy \in Policies \ {Policy} :
          LET reconciled == [w \in Names |->
                  IF w \in listed THEN [worker[w] EXCEPT !.open = AdmissionUnder(worker[w], policy)]
                  ELSE worker[w]]
          IN /\ worker' = reconciled
             /\ group' = [group EXCEPT !.policy = policy, !.generation = @ + 1, !.woken = TRUE,
                    !.pressure = IF policy.close = None THEN @ ELSE Pressure(reconciled)]
    /\ UNCHANGED <<listed, born, place, ask, lock, round, machine>>

QuietPasses ==
    /\ group.pressure = "fresh"
    /\ group' = [group EXCEPT !.pressure = "past"]
    /\ UNCHANGED <<worker, listed, born, place, ask, lock, round, machine, changes>>

-----------------------------------------------------------------------------
Placement == \E u \in Users : NextPlacement(u) \/ PlacementLaunched(u) \/ PlacementUnlaunched(u)
Shape == NotDue \/ RestartSwollen \/ MissReception \/ NextReception \/ ReadShape
Departure == QuitEnds \/ QuitRefused \/ AfterKill \/ RoundLaunched \/ RoundUnlaunched
Round == RoundStarts \/ Shape \/ Departure \/ Offload
Processes == QuitOverdue \/ \E w \in Names : Leaves(w) \/ ReadEnd(w)
Unasked == \/ \E w \in Names : Sample(w) \/ Photo(w) \/ Crash(w)
           \/ MachineChanges \/ Apply \/ QuietPasses

Next ==
    \/ \E u \in Users : Ask(u) \/ Baptise(u) \/ Parked(u) \/ PutToSleep(u)
    \/ Placement
    \/ Round
    \/ Processes
    \/ Unasked

Spec == Init /\ [][Next]_vars

\* The event loop runs what is ready, and every wait has a clock: a launch presents itself
\* or is given up, a worker told to leave goes or is killed.
Fairness ==
    /\ WF_vars(Placement)
    /\ WF_vars(Round)
    /\ WF_vars(Processes)

FairSpec == Spec /\ Fairness

-----------------------------------------------------------------------------
(* What the group promises.                                                *)

\* Whoever is placed is placed on a worker of the list: resolve_worker reads the one with
\* the other, and a name that left would be a KeyError for every request of his.
PlacedIsListed == \A u \in Users : place[u] \in listed \cup {Nobody}

\* Whoever moved a temperature or the thresholds, the admission of a worker is the one the
\* policy in force gives his temperature; a policy that is off leaves nobody closed, since
\* nothing would ever open him again.
AdmissionFollows ==
    \A w \in Living :
        IF Policy.close = None THEN worker[w].open
        ELSE worker[w].heat # None => /\ worker[w].heat > Policy.close => ~worker[w].open
                                      /\ worker[w].heat < Policy.reopen => worker[w].open

\* However many wait for a place, one worker at a time is being born for them or for the
\* reception; the one that replaces a restarted worker is not asked for by anybody.
OneBirthForAll ==
    LET replacing == IF round.at = "launch" /\ round.order = "restart" THEN {round.target} ELSE {}
    IN Cardinality({w \in listed : worker[w].state = "starting"} \ replacing) <= 1

\* A closure never takes away the last worker: another one serves, as far as the group can
\* know (a death that was not read yet looks like a worker that runs), or is being born.
ClosureLeavesSomebody ==
    [][(round'.at = "quit" /\ round'.order = "close" /\ round.at # "quit") =>
        \E w \in listed' : worker'[w].state \in {"starting", "running"}]_vars

\* A worker told to leave, and one whose end was read, leaves the list with his placements:
\* whoever meets him on the wire first, and whether or not the order reached him.
TheEndedLeave ==
    \A w \in Names :
        (w \in listed /\ (worker[w].state = "quitting" \/ worker[w].wire = "gone")) ~> (w \notin listed)

\* Every placement ends, in a worker or in a refusal.
EveryPlacementEnds == \A u \in Users : (ask[u].phase # "idle") ~> (ask[u].phase = "idle")

\* A saturation does not outlive its cause, unless the server leaves.
SaturationLifts ==
    (group.state = "saturated" /\ MayGrow)
        ~> (group.state # "saturated" \/ ~MayGrow \/ machine = "leaving")

\* A group with no worker gets one again, as long as it may have one.
ReceptionReturns == (Living = {}) ~> (Living # {} \/ ~MayGrow \/ ~CanStart)

\* The group recovers by its own round, nobody asking: from a saturation and
\* from the loss of its last worker (group_handler.py, check_occupancy).
GroupRecovers == SaturationLifts /\ ReceptionReturns
=============================================================================
