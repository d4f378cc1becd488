------------------------------- MODULE Launch -------------------------------
(***************************************************************************)
(* How a worker comes into the world and how its group goes                *)
(* (group_handler.py, worker_handler.py, worker_connector.py,              *)
(* template_connector.py, template_entry.py, worker_entry.py): a handler   *)
(* mints a token and asks for a process, by spawn or by a line written to  *)
(* the group's template, which forks it and answers its pid; the process   *)
(* joins the bus with the token and presents itself; the end of its wire   *)
(* is its death.  Two coroutines may launch at the same time: a placement, *)
(* under its lock, and the round, which restarts a worker without it.      *)
(*                                                                         *)
(* A worker, the process launched for it and the template summoned for it  *)
(* go by the same number, that of _worker_counter: the pid of a process is *)
(* its number.  What a group decides is GroupPool's, users are             *)
(* UserMobility's.                                                         *)
(***************************************************************************)
EXTENDS Naturals, Sequences, FiniteSets

CONSTANTS
    Tasks,        \* the coroutines that launch workers
    Round,        \* those run by the heartbeat, cancelled with it
    Happens,      \* what may go wrong
    MaxNames,     \* bound: the workers of a behaviour
    MaxTroubles   \* bound: the deaths, failures and silences of a behaviour

\* death     a worker's process dies
\* mute      a worker answers neither beat
\* nobuild   the factory of the engine raises
\* template  the template dies, in the middle of a fork perhaps
\* threads   the template has grown a thread and refuses to fork
\* crash     the server dies
\* overdue   an answer takes longer than TEMPLATE_FORK_TIMEOUT
\* flash     a process is lost before the launch its presentation woke goes on
ASSUME LaunchAssumption ==
    /\ Round \subseteq Tasks
    /\ Happens \subseteq {"death", "mute", "nobuild", "template", "threads", "crash", "overdue",
                     "flash"}
    /\ MaxNames \in Nat /\ MaxTroubles \in Nat

VARIABLES
    forks,       \* whether the group has a template
    counter,     \* _worker_counter
    worker,      \* per number: the handler and its connector
    job,         \* per coroutine: how far its launch is
    process,     \* per number: the process launched for that worker
    template,    \* per number: a template process and its pipes
    current,     \* TemplateConnector.process
    server,      \* how far the server's leaving is
    todo,        \* stop: the workers not yet taken down
    troubles     \* history: how much has gone wrong

vars == <<forks, counter, worker, job, process, template, current, server, todo, troubles>>

Names == 1..MaxNames
None == 0
Refusal == 0     \* the answer {"error": ...}

Absent ==
    [listed |-> FALSE, state |-> "starting", pid |-> None, connected |-> FALSE,
     admits |-> FALSE]
Idle == [phase |-> "idle", name |-> None, asked |-> None]
NoTemplate == [stage |-> "none", open |-> FALSE, asks |-> <<>>, answers |-> <<>>]

Init ==
    /\ forks \in BOOLEAN
    /\ counter = 0
    /\ worker = [n \in Names |-> Absent]
    /\ job = [t \in Tasks |-> Idle]
    /\ process = [n \in Names |-> "none"]
    /\ template = [k \in Names |-> NoTemplate]
    /\ current = None
    /\ server = "running"
    /\ todo = {}
    /\ troubles = 0

Trouble(kind) ==
    /\ kind \in Happens
    /\ troubles < MaxTroubles
    /\ troubles' = troubles + 1

\* A woken coroutine goes on before the loop hears of anything else, unless the
\* news were there already.
Settled == "flash" \in Happens \/ \A t \in Tasks : job[t].phase # "woken"

Up == server \in {"running", "leaving"}
BusOpen == server \in {"running", "leaving", "stopping"}
Alive == current # None /\ template[current].stage # "gone"
OnBus(n) == process[n] \in {"joined", "presented"}

\* SIGKILL to a process, whoever it is by now: one on the bus leaves a wire
\* whose end the dispatcher has not reported yet.
Killed(pid) ==
    [n \in Names |-> IF n # pid THEN process[n]
                     ELSE IF OnBus(n) THEN "lost"
                     ELSE IF process[n] = "born" THEN "gone" ELSE process[n]]

\* connector.stop: the token is forgotten, the event cleared.
OffTheBus(n) == [worker[n] EXCEPT !.admits = FALSE, !.connected = FALSE]
Unlisted(n) == [OffTheBus(n) EXCEPT !.listed = FALSE]
-----------------------------------------------------------------------------
(* The launch.                                                             *)

\* start_worker: refused while the server leaves; then the handler is listed
\* and its connector mints the token.
Mints(t) ==
    /\ server = "running" /\ job[t].phase = "idle" /\ counter < MaxNames
    /\ counter' = counter + 1
Launching == [Absent EXCEPT !.listed = TRUE, !.admits = TRUE]
Goes(t, phase, k) == job' = [job EXCEPT ![t] = [phase |-> phase, name |-> counter', asked |-> k]]

Spawns(t) ==
    /\ Settled
    /\ ~forks /\ Mints(t)
    /\ worker' = [worker EXCEPT ![counter'] = [Launching EXCEPT !.pid = counter']]
    /\ process' = [process EXCEPT ![counter'] = "born"]
    /\ Goes(t, "presenting", None)
    /\ UNCHANGED <<forks, template, current, server, todo, troubles>>

\* Nobody to ask: a template is started, and the coroutine waits for that.
Summons(t) ==
    /\ Settled
    /\ forks /\ ~Alive /\ Mints(t)
    /\ worker' = [worker EXCEPT ![counter'] = Launching]
    /\ Goes(t, "summoning", None)
    /\ UNCHANGED <<forks, process, template, current, server, todo, troubles>>

\* The template that was started is the one talked to from now on, even if
\* another was started meanwhile: its first lines are the engine and the ask.
Summoned(t) ==
    LET n == job[t].name IN
    /\ Settled
    /\ job[t].phase = "summoning"
    /\ template' = [template EXCEPT ![n] =
                      [stage |-> "building", open |-> TRUE, asks |-> <<n>>, answers |-> <<>>]]
    /\ current' = n
    /\ job' = [job EXCEPT ![t].phase = "waiting", ![t].asked = n]
    /\ UNCHANGED <<forks, counter, worker, process, server, todo, troubles>>

Reads(k) == \E t \in Tasks : job[t].phase = "waiting" /\ job[t].asked = k
Writes(n, k) == template' = [template EXCEPT ![k].asks = Append(@, n)]

\* One line down, one line up.  Whoever comes while another waits may still
\* find a line that has arrived and was not taken.
Asks(t) ==
    /\ Settled
    /\ forks /\ Alive /\ Mints(t)
    /\ Reads(current) => template[current].answers # <<>>
    /\ worker' = [worker EXCEPT ![counter'] = Launching]
    /\ Writes(counter', current)
    /\ Goes(t, "waiting", current)
    /\ UNCHANGED <<forks, process, current, server, todo, troubles>>

\* readline raises when another coroutine is waiting for the same stream: the
\* launch has failed, and its line is in the pipe.
AsksInVain(t) ==
    /\ Settled
    /\ forks /\ Alive /\ Mints(t)
    /\ Reads(current)
    /\ Writes(counter', current)
    /\ UNCHANGED <<forks, worker, job, process, current, server, todo, troubles>>

\* mutant of Fails: the name stays in worker_handler_map
FailsKeepsTheName(t) ==
    /\ worker' = [worker EXCEPT ![job[t].name] = OffTheBus(job[t].name)]
    /\ job' = [job EXCEPT ![t] = Idle]

\* The except of start_worker.  A worker the round has buried meanwhile is not
\* in the map: the del raises, and the same is left behind.
Fails(t) ==
    /\ worker' = [worker EXCEPT ![job[t].name] = Unlisted(job[t].name)]
    /\ job' = [job EXCEPT ![t] = Idle]

TakesAnswer(t) ==
    LET n == job[t].name
        k == job[t].asked
        pid == Head(template[k].answers)
    IN  /\ Settled
        /\ job[t].phase = "waiting" /\ template[k].answers # <<>>
        /\ template' = [template EXCEPT ![k].answers = Tail(@)]
        /\ IF pid = Refusal
           THEN Fails(t)
           ELSE /\ worker' = [worker EXCEPT ![n].pid = pid]
                /\ job' = [job EXCEPT ![t].phase =
                             IF worker[n].connected THEN "woken" ELSE "presenting"]
        /\ UNCHANGED <<forks, counter, process, current, server, todo, troubles>>

\* TemplateRefused: the pipe ended instead.
FindsPipeEnded(t) ==
    /\ Settled
    /\ job[t].phase = "waiting"
    /\ template[job[t].asked].stage = "gone" /\ template[job[t].asked].answers = <<>>
    /\ Fails(t)
    /\ UNCHANGED <<forks, counter, process, template, current, server, todo, troubles>>

\* TemplateRefused: nothing in 60 s.  The line stays in the pipe.
TimesOut(t) ==
    /\ Settled
    /\ job[t].phase = "waiting" /\ "overdue" \in Happens
    /\ Fails(t)
    /\ UNCHANGED <<forks, counter, process, template, current, server, todo, troubles>>

Launched(t) ==
    /\ job[t].phase = "woken"
    /\ worker' = [worker EXCEPT ![job[t].name].state = "running"]
    /\ job' = [job EXCEPT ![t] = Idle]
    /\ UNCHANGED <<forks, counter, process, template, current, server, todo, troubles>>

\* mutant of PresentationTimesOut: a process that has died is waited for
WaitsForTheLiving(t) ==
    LET pid == worker[job[t].name].pid IN
    /\ Settled
    /\ job[t].phase = "presenting"
    /\ pid # None /\ process[pid] # "gone"
    /\ process' = Killed(pid)
    /\ job' = [job EXCEPT ![t].phase = "killing"]
    /\ UNCHANGED <<forks, counter, worker, template, current, server, todo, troubles>>

\* process_ping_timeout: the process is killed and its end awaited.  When stop
\* has been there before, there is no process to speak of and the kill raises.
PresentationTimesOut(t) ==
    LET pid == worker[job[t].name].pid IN
    /\ Settled
    /\ job[t].phase = "presenting"
    /\ IF pid = None
       THEN Fails(t) /\ UNCHANGED process
       ELSE /\ process' = Killed(pid)
            /\ job' = [job EXCEPT ![t].phase = "killing"]
            /\ UNCHANGED worker
    /\ UNCHANGED <<forks, counter, template, current, server, todo, troubles>>

\* It is buried, or thirty seconds have passed.
LetsGo(t) ==
    /\ Settled
    /\ job[t].phase = "killing"
    /\ Fails(t)
    /\ UNCHANGED <<forks, counter, process, template, current, server, todo, troubles>>
-----------------------------------------------------------------------------
(* The template.                                                           *)

Builds(k) ==
    /\ Settled
    /\ template[k].stage = "building"
    /\ template' = [template EXCEPT ![k].stage = "ready"]
    /\ UNCHANGED <<forks, counter, worker, job, process, current, server, todo, troubles>>

BuildFails(k) ==
    /\ Settled
    /\ template[k].stage = "building"
    /\ Trouble("nobuild")
    /\ template' = [template EXCEPT ![k].stage = "gone"]
    /\ UNCHANGED <<forks, counter, worker, job, process, current, server, todo>>

Served(k) == template[k].stage = "ready" /\ template[k].asks # <<>>
Born(k) == process' = [process EXCEPT ![Head(template[k].asks)] = "born"]
Answers(k, answer) ==
    template' = [template EXCEPT ![k].asks = Tail(@), ![k].answers = Append(@, answer)]

Forks(k) ==
    /\ Settled
    /\ Served(k) /\ Born(k)
    /\ Answers(k, Head(template[k].asks))
    /\ UNCHANGED <<forks, counter, worker, job, current, server, todo, troubles>>

Refuses(k) ==
    /\ Settled
    /\ Served(k)
    /\ Trouble("threads")
    /\ Answers(k, Refusal)
    /\ UNCHANGED <<forks, counter, worker, job, process, current, server, todo>>

\* It dies, idle or between a fork and its answer.
TemplateDies(k) ==
    /\ Settled
    /\ template[k].stage \in {"building", "ready"}
    /\ Trouble("template")
    /\ template' = [template EXCEPT ![k].stage = "gone", ![k].asks = <<>>]
    /\ \/ UNCHANGED process
       \/ Served(k) /\ Born(k)
    /\ UNCHANGED <<forks, counter, worker, job, current, server, todo>>

\* Its pipe has ended and every line has been served.
TemplateLeaves(k) ==
    /\ Settled
    /\ template[k].stage = "ready" /\ ~template[k].open /\ template[k].asks = <<>>
    /\ template' = [template EXCEPT ![k].stage = "gone"]
    /\ UNCHANGED <<forks, counter, worker, job, process, current, server, todo, troubles>>
-----------------------------------------------------------------------------
(* The worker's process and the end of its wire.                           *)

\* mutant of Joins: one that is not admitted tries again
JoinsOrTriesAgain(n) ==
    /\ Settled
    /\ process[n] = "born" /\ BusOpen /\ worker[n].admits
    /\ process' = [process EXCEPT ![n] = "joined"]
    /\ UNCHANGED <<forks, counter, worker, job, template, current, server, todo, troubles>>

\* The bus admits the token minted last; whoever is rejected ends.
Joins(n) ==
    /\ Settled
    /\ process[n] = "born"
    /\ process' = [process EXCEPT ![n] = IF BusOpen /\ worker[n].admits THEN "joined" ELSE "gone"]
    /\ UNCHANGED <<forks, counter, worker, job, template, current, server, todo, troubles>>

\* Its first call.  Whoever launches it and is waiting for it is woken.
Presents(n) ==
    /\ Settled
    /\ process[n] = "joined" /\ BusOpen /\ worker[n].listed
    /\ process' = [process EXCEPT ![n] = "presented"]
    /\ worker' = [worker EXCEPT ![n].connected = TRUE]
    /\ job' = [t \in Tasks |-> IF job[t].phase = "presenting" /\ job[t].name = n
                               THEN [job[t] EXCEPT !.phase = "woken"] ELSE job[t]]
    /\ UNCHANGED <<forks, counter, template, current, server, todo, troubles>>

\* kbus.Refused: not a worker of this group any more.
PresentsInVain(n) ==
    /\ Settled
    /\ process[n] = "joined" /\ BusOpen /\ ~worker[n].listed
    /\ process' = [process EXCEPT ![n] = "gone"]
    /\ UNCHANGED <<forks, counter, worker, job, template, current, server, todo, troubles>>

\* The bus is closed under it: on_wire_lost, and it leaves.
WireLost(n) ==
    /\ Settled
    /\ OnBus(n) /\ ~BusOpen
    /\ process' = [process EXCEPT ![n] = "gone"]
    /\ UNCHANGED <<forks, counter, worker, job, template, current, server, todo, troubles>>

Dies(n) ==
    /\ Settled
    /\ process[n] \in {"born", "joined", "presented"} /\ Trouble("death")
    /\ process' = Killed(n)
    /\ UNCHANGED <<forks, counter, worker, job, template, current, server, todo>>

\* ping_process: mute to both beats, the process the handler knows is killed.
BeatKills(n) ==
    /\ Settled
    /\ Up /\ worker[n].listed /\ worker[n].state = "running" /\ worker[n].connected
    /\ worker[n].pid # None /\ Trouble("mute")
    /\ process' = Killed(worker[n].pid)
    /\ worker' = [worker EXCEPT ![n].pid = None]
    /\ UNCHANGED <<forks, counter, job, template, current, server, todo>>

\* mutant of Lose: the event is cleared before it is read
LoseClearsFirst(n) ==
    /\ Settled
    /\ process[n] = "lost"
    /\ process' = [process EXCEPT ![n] = "gone"]
    /\ worker' = IF worker[n].listed THEN [worker EXCEPT ![n].connected = FALSE] ELSE worker
    /\ UNCHANGED <<forks, counter, job, template, current, server, todo, troubles>>

\* on_member_lost, lose, on_child_lost: the end of a presented worker's wire is
\* its death, unless its name was taken off the bus before.
Lose(n) ==
    /\ Settled
    /\ process[n] = "lost"
    /\ process' = [process EXCEPT ![n] = "gone"]
    /\ worker' = IF worker[n].listed /\ worker[n].connected
                 THEN [worker EXCEPT ![n].connected = FALSE,
                                     ![n].state = IF worker[n].admits THEN "aborted" ELSE @]
                 ELSE worker
    /\ UNCHANGED <<forks, counter, job, template, current, server, todo, troubles>>

\* The round, between two of its own steps: report_death, drop_worker.
Bury(n) ==
    /\ Settled
    /\ Up /\ \A t \in Round : job[t].phase = "idle"
    /\ worker[n].listed /\ worker[n].state = "aborted"
    /\ worker' = [worker EXCEPT ![n] = Unlisted(n)]
    /\ UNCHANGED <<forks, counter, job, process, template, current, server, todo, troubles>>
-----------------------------------------------------------------------------
(* The end of the group.                                                   *)

\* server_leaving: births are refused, the launches in flight go on.
Leave ==
    /\ Settled
    /\ server = "running" /\ server' = "leaving"
    /\ UNCHANGED <<forks, counter, worker, job, process, template, current, todo, troubles>>

\* mutant of BeginStop: every name there could be is gone through
BeginStopForEveryName ==
    /\ Settled
    /\ server = "leaving" /\ server' = "stopping"
    /\ job' = [t \in Tasks |-> IF t \in Round THEN Idle ELSE job[t]]
    /\ todo' = Names
    /\ UNCHANGED <<forks, counter, worker, process, template, current, troubles>>

\* stop, of the vertex and then of the group: the heartbeat is cancelled in
\* whatever it awaits, and what it was launching stays listed.
BeginStop ==
    /\ Settled
    /\ server = "leaving" /\ server' = "stopping"
    /\ job' = [t \in Tasks |-> IF t \in Round THEN Idle ELSE job[t]]
    /\ todo' = {n \in Names : worker[n].listed}
    /\ UNCHANGED <<forks, counter, worker, process, template, current, troubles>>

\* Killed and buried, then off the bus; with no process yet there is only the
\* name to take off.
StopsWorker(n) ==
    /\ Settled
    /\ server = "stopping" /\ n \in todo
    /\ todo' = todo \ {n}
    /\ process' = Killed(worker[n].pid)
    /\ worker' = [worker EXCEPT ![n] = [OffTheBus(n) EXCEPT !.pid = None]]
    /\ UNCHANGED <<forks, counter, job, template, current, server, troubles>>

CloseBus ==
    /\ Settled
    /\ server = "stopping" /\ todo = {}
    /\ server' = "closed"
    /\ UNCHANGED <<forks, counter, worker, job, process, template, current, todo, troubles>>

StopTemplate ==
    /\ Settled
    /\ server = "closed" /\ server' = "stopped"
    /\ current' = None
    /\ template' = IF Alive THEN [template EXCEPT ![current].open = FALSE] ELSE template
    /\ UNCHANGED <<forks, counter, worker, job, process, todo, troubles>>

\* TEMPLATE_STOP_TIMEOUT: it is killed if it stays.
TemplateKilled(k) ==
    /\ Settled
    /\ server = "stopped" /\ template[k].stage \in {"building", "ready"} /\ ~template[k].open
    /\ template' = [template EXCEPT ![k].stage = "gone", ![k].asks = <<>>]
    /\ UNCHANGED <<forks, counter, worker, job, process, current, server, todo, troubles>>

\* The process of the server ends: every pipe it held does, and every coroutine.
Ends ==
    /\ server' = "exited"
    /\ template' = [k \in Names |-> [template[k] EXCEPT !.open = FALSE]]
    /\ job' = [t \in Tasks |-> Idle]
    /\ UNCHANGED <<forks, counter, worker, process, current, todo>>

Exit ==
    /\ Settled
    /\ server = "stopped"
    /\ \A k \in Names : template[k].stage # "none" /\ ~template[k].open
                          => template[k].stage = "gone"
    /\ Ends
    /\ UNCHANGED troubles

Crash ==
    /\ Settled
    /\ server # "exited"
    /\ Trouble("crash")
    /\ Ends
-----------------------------------------------------------------------------
LaunchSteps(t) ==
    \/ Summoned(t) \/ TakesAnswer(t) \/ FindsPipeEnded(t) \/ Launched(t)
    \/ PresentationTimesOut(t) \/ LetsGo(t)
TemplateSteps(k) == Builds(k) \/ Forks(k) \/ TemplateLeaves(k)
ProcessSteps(n) == Joins(n) \/ Presents(n) \/ PresentsInVain(n) \/ WireLost(n) \/ Lose(n)
StopSteps == BeginStop \/ CloseBus \/ StopTemplate \/ Exit \/ \E n \in Names : StopsWorker(n)

Next ==
    \/ \E t \in Tasks :
         Spawns(t) \/ Summons(t) \/ Asks(t) \/ AsksInVain(t) \/ TimesOut(t) \/ LaunchSteps(t)
    \/ \E k \in Names :
         BuildFails(k) \/ Refuses(k) \/ TemplateDies(k) \/ TemplateKilled(k) \/ TemplateSteps(k)
    \/ \E n \in Names : Dies(n) \/ BeatKills(n) \/ Bury(n) \/ ProcessSteps(n)
    \/ Leave \/ Crash \/ StopSteps

\* The clocks, the loop and its round, the templates and the processes go on; a
\* template and a process have finitely many steps, so none is overtaken for ever.
Fairness ==
    /\ \A t \in Tasks : WF_vars(LaunchSteps(t))
    /\ WF_vars(\E k \in Names : TemplateSteps(k)) /\ WF_vars(\E n \in Names : ProcessSteps(n))
    /\ WF_vars(\E n \in Names : Bury(n))
    /\ WF_vars(StopSteps)

Spec == Init /\ [][Next]_vars /\ Fairness
-----------------------------------------------------------------------------
(* Properties.                                                             *)

\* Every variable keeps its shape: a template answers the numbers of processes
\* it forked, and is asked for workers that were listed.
Worker ==
    [listed : BOOLEAN, state : {"starting", "running", "aborted"}, pid : Names \cup {None},
     connected : BOOLEAN, admits : BOOLEAN]
Job ==
    [phase : {"idle", "summoning", "waiting", "presenting", "woken", "killing"},
     name : Names \cup {None}, asked : Names \cup {None}]
TypeOK ==
    /\ forks \in BOOLEAN
    /\ counter \in 0..MaxNames
    /\ worker \in [Names -> Worker]
    /\ job \in [Tasks -> Job]
    /\ process \in [Names -> {"none", "born", "joined", "presented", "lost", "gone"}]
    /\ \A k \in Names :
         /\ template[k].stage \in {"none", "building", "ready", "gone"}
         /\ template[k].open \in BOOLEAN
         /\ template[k].asks \in Seq(1..counter)
         /\ template[k].answers \in Seq((1..counter) \cup {Refusal})
    /\ current \in Names \cup {None}
    /\ server \in {"running", "leaving", "stopping", "closed", "stopped", "exited"}
    /\ todo \subseteq 1..counter
    /\ troubles \in 0..MaxTroubles

\* launch_process, on_child_lost, the except of start_worker: whoever is in
\* worker_handler_map is being launched by somebody, or is on the bus, or his
\* death is written where the round reads it: nobody is placed on a ghost.
ListedServes ==
    Up => \A n \in Names : worker[n].listed =>
        \/ \E t \in Tasks : job[t].name = n
        \/ worker[n].state = "running" /\ worker[n].connected /\ process[n] \in {"presented", "lost"}
        \/ worker[n].state = "aborted"

\* TemplateConnector.fork_worker: "The forked child's pid": the process a
\* handler kills, and asks whether it is alive, is its own.
PidIsOwn == \A n \in Names : worker[n].pid \in {None, n}

\* wait_for in fork_worker and in launch_process: a launch ends, whatever becomes
\* of the template and of the process, and with it the placement lock is free.
LaunchSettles == \A t \in Tasks : job[t].phase # "idle" ~> job[t].phase = "idle"

\* "settles every process whose end has not been read yet": a worker that died
\* on board leaves the group, unless the group goes first.
TheDeadLeave ==
    \A n \in Names : (worker[n].listed /\ process[n] = "gone") ~> (~worker[n].listed \/ ~Up)

\* A name goes all its way: the launch that takes it ends, and when its process
\* is gone the list lets it go (worker_handler.py, launch_process; drop_worker).
NamesSettle == LaunchSettles /\ TheDeadLeave

\* stop, on_wire_lost, the pipe that ends: once the server is gone no template
\* and no worker is left behind, those whose launch was cut short included.
NobodySurvives ==
    server = "exited" ~>
        \A n \in Names : process[n] \in {"none", "gone"} /\ template[n].stage \in {"none", "gone"}
=============================================================================
