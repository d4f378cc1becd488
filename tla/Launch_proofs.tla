---------------------------- MODULE Launch_proofs ----------------------------
(***************************************************************************)
(* What holds of the launches of any number of workers by any number of    *)
(* coroutines, whatever goes wrong: every variable keeps its shape, and as *)
(* long as the loop hears of a death after the launch it woke has gone on, *)
(* whoever is listed is being launched, serves, or is known to be dead.    *)
(***************************************************************************)
EXTENDS Launch, TLAPS

WorkerState == {"starting", "running", "aborted"}
Phases == {"idle", "summoning", "waiting", "presenting", "woken", "killing"}
ProcessState == {"none", "born", "joined", "presented", "lost", "gone"}
Stages == {"none", "building", "ready", "gone"}
Courses == {"running", "leaving", "stopping", "closed", "stopped", "exited"}
Minted == 1..counter
Templates ==
    [stage : Stages, open : BOOLEAN, asks : Seq(Minted), answers : Seq(Minted \cup {Refusal})]

\* TypeOK, with what a step needs of whom a launch is for.
Typed ==
    /\ forks \in BOOLEAN /\ counter \in 0..MaxNames /\ troubles \in 0..MaxTroubles
    /\ worker \in [Names -> Worker] /\ process \in [Names -> ProcessState]
    /\ job \in [Tasks -> Job]
    /\ template \in [Names -> Templates]
    /\ current \in Names \cup {None}
    /\ server \in Courses /\ todo \in SUBSET Minted
    /\ \A n \in Names : worker[n].listed => n \in Minted
    /\ \A t \in Tasks : /\ job[t].phase # "idle" => job[t].name \in Minted
                        /\ job[t].phase = "idle" => job[t].name = None
                        /\ job[t].phase = "waiting" => job[t].asked \in Names

\* Whose line is still in a pipe, and whose is about to be written: nobody twice, and
\* their processes are still to be forked.
Asked(n) == \E k \in Names : \E i \in DOMAIN template[k].asks : template[k].asks[i] = n
Summoning(n) == \E t \in Tasks : job[t].phase = "summoning" /\ job[t].name = n
NoLineTwice ==
    \A k, l \in Names : \A i \in DOMAIN template[k].asks, j \in DOMAIN template[l].asks :
        template[k].asks[i] = template[l].asks[j] => k = l /\ i = j
NobodyTwice == \A s, t \in Tasks : job[s].name = job[t].name => s = t \/ job[s].name = None
NotYetAsked == \A n \in Names : Summoning(n) => ~Asked(n)
Unforked == \A n \in Names : n \notin Minted \/ Asked(n) \/ Summoning(n) => process[n] = "none"
OneLine == NoLineTwice /\ NobodyTwice /\ NotYetAsked /\ Unforked

\* As long as workers are launched, the event of a handler is its process on the bus.
Wired ==
    \A n \in Names :
        /\ worker[n].connected => worker[n].listed /\ process[n] \in {"presented", "lost"}
        /\ worker[n].listed => worker[n].admits
Waking == \A t \in Tasks : job[t].phase = "woken" => worker[job[t].name].connected

Serves(n) ==
    \/ \E t \in Tasks : job[t].name = n
    \/ worker[n].state = "running" /\ worker[n].connected /\ process[n] \in {"presented", "lost"}
    \/ worker[n].state = "aborted"
Manned == \A n \in Names : worker[n].listed => Serves(n)

IInv == Typed /\ (Up => OneLine /\ Wired /\ Waking /\ Manned)
-----------------------------------------------------------------------------
(* Types.                                                                  *)

LEMMA Constants == /\ MaxNames \in Nat /\ MaxTroubles \in Nat /\ Round \subseteq Tasks
                   /\ None \notin Names /\ Names \subseteq Nat
BY LaunchAssumption DEF LaunchAssumption, None, Names

LEMMA SeqWidens ==
    ASSUME NEW S, NEW T, S \subseteq T, NEW s \in Seq(S) PROVE s \in Seq(T)
<1>1. \A i \in 1 .. Len(s) : s[i] \in T
  OBVIOUS
<1>2. s = [i \in 1 .. Len(s) |-> s[i]] /\ Len(s) \in Nat
  OBVIOUS
<1> QED
  BY <1>1, <1>2

LEMMA MintedAreNames == Typed => Minted \subseteq Names /\ counter \in Nat
BY Constants DEF Typed, Minted, Names

\* What taking a number leaves in its shape.
LEMMA MintsWiden ==
    ASSUME Typed, NEW t \in Tasks, Mints(t)
    PROVE  /\ counter' = counter + 1 /\ counter' \in Names
           /\ counter' \in Minted' /\ counter' \notin Minted /\ counter' \in 0..MaxNames
           /\ Minted' = Minted \cup {counter'}
           /\ template \in [Names -> Templates']
           /\ todo \in SUBSET Minted'
<1>1. /\ counter' = counter + 1 /\ counter' \in Names
      /\ counter' \in Minted' /\ counter' \notin Minted /\ counter' \in 0..MaxNames
      /\ Minted' = Minted \cup {counter'}
  BY Constants DEF Typed, Mints, Minted, Names
<1>2. ASSUME NEW k \in Names PROVE template[k] \in Templates'
  <2>1. template[k] \in Templates
    BY DEF Typed
  <2>2. template[k].asks \in Seq(Minted') /\ template[k].answers \in Seq(Minted' \cup {Refusal})
    BY <2>1, <1>1, SeqWidens DEF Templates
  <2> QED
    BY <2>1, <2>2 DEF Templates
<1>3. template \in [Names -> Templates']
  BY <1>2 DEF Typed
<1> QED
  BY <1>1, <1>3 DEF Typed

LEMMA KilledTyped ==
    ASSUME Typed, NEW pid PROVE Killed(pid) \in [Names -> ProcessState]
BY DEF Typed, Killed, ProcessState

LEMMA UnlistedTyped ==
    ASSUME Typed, NEW n \in Names
    PROVE  /\ OffTheBus(n) \in Worker /\ Unlisted(n) \in Worker
           /\ OffTheBus(n).listed = worker[n].listed /\ ~Unlisted(n).listed
<1>1. worker[n] \in Worker
  BY DEF Typed
<1>2. OffTheBus(n) \in Worker /\ OffTheBus(n).listed = worker[n].listed
  BY <1>1 DEF OffTheBus, Worker
<1>3. Unlisted(n) \in Worker /\ ~Unlisted(n).listed
  BY <1>2 DEF Unlisted, Worker
<1> QED
  BY <1>2, <1>3

LEMMA LaunchingTyped == Launching \in Worker /\ Launching.listed
BY Constants DEF Launching, Absent, Worker, None

LEMMA TroubleTyped ==
    ASSUME Typed, NEW kind, Trouble(kind) PROVE troubles' \in 0..MaxTroubles
BY Constants DEF Typed, Trouble

\* Writing in one template.
LEMMA WrittenTyped ==
    ASSUME Typed, UNCHANGED counter, NEW k \in Names, NEW x \in Templates,
           template' = [template EXCEPT ![k] = x]
    PROVE  template' \in [Names -> Templates']
<1>1. Templates' = Templates
  BY DEF Templates, Minted
<1> QED
  BY <1>1 DEF Typed

LEMMA SpawnsTyped == ASSUME Typed, NEW t \in Tasks, Spawns(t) PROVE Typed'
<1>1. [Launching EXCEPT !.pid = counter'] \in Worker
  BY MintsWiden, LaunchingTyped DEF Spawns, Worker
<1>2. /\ worker' \in [Names -> Worker] /\ process' \in [Names -> ProcessState]
      /\ job' \in [Tasks -> Job]
  BY <1>1, MintsWiden DEF Spawns, Typed, Goes, Job, ProcessState, None
<1>3. \A n \in Names : worker'[n].listed => n \in Minted'
  BY MintsWiden DEF Spawns, Typed
<1>4. \A s \in Tasks : /\ job'[s].phase # "idle" => job'[s].name \in Minted'
                       /\ job'[s].phase = "idle" => job'[s].name = None
                       /\ job'[s].phase = "waiting" => job'[s].asked \in Names
  BY MintsWiden DEF Spawns, Typed, Goes
<1> QED
  BY <1>2, <1>3, <1>4, MintsWiden DEF Spawns, Typed

LEMMA SummonsTyped == ASSUME Typed, NEW t \in Tasks, Summons(t) PROVE Typed'
<1>2. /\ worker' \in [Names -> Worker] /\ job' \in [Tasks -> Job]
  BY LaunchingTyped, MintsWiden DEF Summons, Typed, Goes, Job, None
<1>3. \A n \in Names : worker'[n].listed => n \in Minted'
  BY MintsWiden DEF Summons, Typed
<1>4. \A s \in Tasks : /\ job'[s].phase # "idle" => job'[s].name \in Minted'
                       /\ job'[s].phase = "idle" => job'[s].name = None
                       /\ job'[s].phase = "waiting" => job'[s].asked \in Names
  BY MintsWiden DEF Summons, Typed, Goes
<1> QED
  BY <1>2, <1>3, <1>4, MintsWiden DEF Summons, Typed

\* A line written to a living template.
LEMMA WritesTyped ==
    ASSUME Typed, NEW t \in Tasks, Mints(t), Alive, Writes(counter', current)
    PROVE  current \in Names /\ template' \in [Names -> Templates']
<1>1. current \in Names
  BY DEF Typed, Alive
<1>2. template[current] \in Templates'
  BY <1>1, MintsWiden
<1>3. Append(template[current].asks, counter') \in Seq(Minted')
  BY <1>2, MintsWiden DEF Templates
<1>4. [template[current] EXCEPT !.asks = Append(@, counter')] \in Templates'
  BY <1>2, <1>3 DEF Templates
<1> QED
  BY <1>1, <1>4, MintsWiden DEF Writes

LEMMA AsksTyped == ASSUME Typed, NEW t \in Tasks, Asks(t) PROVE Typed'
<1>1. current \in Names /\ template' \in [Names -> Templates']
  BY WritesTyped DEF Asks
<1>2. /\ worker' \in [Names -> Worker] /\ job' \in [Tasks -> Job]
  BY <1>1, LaunchingTyped, MintsWiden DEF Asks, Typed, Goes, Job, None
<1>3. \A n \in Names : worker'[n].listed => n \in Minted'
  BY MintsWiden DEF Asks, Typed
<1>4. \A s \in Tasks : /\ job'[s].phase # "idle" => job'[s].name \in Minted'
                       /\ job'[s].phase = "idle" => job'[s].name = None
                       /\ job'[s].phase = "waiting" => job'[s].asked \in Names
  BY <1>1, MintsWiden DEF Asks, Typed, Goes
<1> QED
  BY <1>1, <1>2, <1>3, <1>4, MintsWiden DEF Asks, Typed

LEMMA AsksInVainTyped == ASSUME Typed, NEW t \in Tasks, AsksInVain(t) PROVE Typed'
<1>1. template' \in [Names -> Templates']
  BY WritesTyped DEF AsksInVain
<1>2. \A n \in Names : worker'[n].listed => n \in Minted'
  BY MintsWiden DEF AsksInVain, Typed
<1>3. \A s \in Tasks : job'[s].phase # "idle" => job'[s].name \in Minted'
  BY MintsWiden DEF AsksInVain, Typed
<1> QED
  BY <1>1, <1>2, <1>3, MintsWiden DEF AsksInVain, Typed

LEMMA SummonedTyped == ASSUME Typed, NEW t \in Tasks, Summoned(t) PROVE Typed'
<1> DEFINE n == job[t].name
<1>1. n \in Minted /\ n \in Names
  BY MintedAreNames DEF Summoned, Typed
<1>2. <<n>> \in Seq(Minted) /\ <<>> \in Seq(Minted \cup {Refusal})
  BY <1>1
<1>3. [stage |-> "building", open |-> TRUE, asks |-> <<n>>, answers |-> <<>>] \in Templates
  BY <1>2 DEF Templates, Stages
<1>4. template' \in [Names -> Templates']
  BY <1>1, <1>3, WrittenTyped DEF Summoned
<1>5. job' \in [Tasks -> Job]
  BY <1>1 DEF Summoned, Typed, Job
<1>6. \A s \in Tasks : /\ job'[s].phase # "idle" => job'[s].name \in Minted
                       /\ job'[s].phase = "idle" => job'[s].name = None
                       /\ job'[s].phase = "waiting" => job'[s].asked \in Names
  BY <1>1, <1>5 DEF Summoned, Typed
<1>7. Minted' = Minted
  BY DEF Summoned, Minted
<1> QED
  BY <1>1, <1>4, <1>5, <1>6, <1>7 DEF Summoned, Typed

\* What the except of start_worker leaves in its shape.
LEMMA FailsTyped ==
    ASSUME Typed, NEW t \in Tasks, job[t].phase # "idle", Fails(t)
    PROVE  /\ worker' \in [Names -> Worker] /\ job' \in [Tasks -> Job]
           /\ \A n \in Names : worker'[n].listed => worker[n].listed
           /\ \A s \in Tasks : job'[s] = job[s] \/ job'[s] = Idle
           /\ \A s \in Tasks : /\ job'[s].phase # "idle" => job'[s].name \in Minted
                               /\ job'[s].phase = "idle" => job'[s].name = None
                               /\ job'[s].phase = "waiting" => job'[s].asked \in Names
<1>1. job[t].name \in Names
  BY MintedAreNames DEF Typed
<1>2. worker' \in [Names -> Worker] /\ \A n \in Names : worker'[n].listed => worker[n].listed
  BY <1>1, UnlistedTyped DEF Fails, Typed
<1>3. Idle \in Job /\ Idle.phase = "idle" /\ Idle.name = None
  BY DEF Idle, Job
<1>4. job' \in [Tasks -> Job] /\ \A s \in Tasks : job'[s] = job[s] \/ job'[s] = Idle
  BY <1>3 DEF Fails, Typed
<1>5. \A s \in Tasks : /\ job'[s].phase # "idle" => job'[s].name \in Minted
                       /\ job'[s].phase = "idle" => job'[s].name = None
                       /\ job'[s].phase = "waiting" => job'[s].asked \in Names
  BY <1>3, <1>4 DEF Typed
<1> QED
  BY <1>2, <1>4, <1>5

LEMMA MintsNothing == ASSUME UNCHANGED counter PROVE Minted' = Minted /\ Templates' = Templates
BY DEF Minted, Templates

LEMMA TakesAnswerTyped == ASSUME Typed, NEW t \in Tasks, TakesAnswer(t) PROVE Typed'
<1> DEFINE n == job[t].name
           k == job[t].asked
           pid == Head(template[k].answers)
<1>1. n \in Minted /\ n \in Names /\ k \in Names /\ template[k] \in Templates
  BY MintedAreNames DEF TakesAnswer, Typed
<1>2. Minted' = Minted /\ UNCHANGED <<forks, counter, process, current, server, todo, troubles>>
  BY MintsNothing DEF TakesAnswer
<1>3. template' \in [Names -> Templates']
  <2>1. /\ Tail(template[k].answers) \in Seq(Minted \cup {Refusal})
        /\ pid \in Minted \cup {Refusal}
    BY <1>1 DEF TakesAnswer, Templates
  <2>2. [template[k] EXCEPT !.answers = Tail(@)] \in Templates
    BY <1>1, <2>1 DEF Templates
  <2> QED
    BY <1>1, <1>2, <2>2, WrittenTyped DEF TakesAnswer
<1>4. /\ worker' \in [Names -> Worker] /\ job' \in [Tasks -> Job]
      /\ \A m \in Names : worker'[m].listed => worker[m].listed
      /\ \A s \in Tasks : /\ job'[s].phase # "idle" => job'[s].name \in Minted
                          /\ job'[s].phase = "idle" => job'[s].name = None
                          /\ job'[s].phase = "waiting" => job'[s].asked \in Names
  <2>1. CASE pid = Refusal
    BY <2>1, FailsTyped DEF TakesAnswer
  <2>2. CASE pid # Refusal
    <3>1. pid \in Names
      BY <1>1, <2>2, MintedAreNames DEF TakesAnswer, Templates
    <3>2. worker' = [worker EXCEPT ![n].pid = pid]
      BY <2>2 DEF TakesAnswer
    <3>3. PICK q \in {"woken", "presenting"} : job' = [job EXCEPT ![t].phase = q]
      <4>1. job' = [job EXCEPT ![t].phase = IF worker[n].connected THEN "woken" ELSE "presenting"]
        BY <2>2 DEF TakesAnswer
      <4> QED
        BY <4>1
    <3>4. worker' \in [Names -> Worker] /\ \A m \in Names : worker'[m].listed => worker[m].listed
      BY <1>1, <3>1, <3>2 DEF Typed, Worker
    <3>5. job' \in [Tasks -> Job]
      BY <3>3 DEF Typed, Job
    <3>6. \A s \in Tasks : /\ job'[s].phase # "idle" => job'[s].name \in Minted
                           /\ job'[s].phase = "idle" => job'[s].name = None
                           /\ job'[s].phase = "waiting" => job'[s].asked \in Names
      BY <1>1, <3>3 DEF Typed, TakesAnswer
    <3> QED
      BY <3>4, <3>5, <3>6
  <2> QED
    BY <2>1, <2>2
<1> QED
  BY <1>2, <1>3, <1>4 DEF Typed

LEMMA FailingTyped ==
    ASSUME Typed, NEW t \in Tasks, job[t].phase # "idle", Fails(t),
           UNCHANGED <<forks, counter, process, template, current, server, todo, troubles>>
    PROVE  Typed'
BY FailsTyped, MintsNothing DEF Typed

LEMMA LaunchedTyped == ASSUME Typed, NEW t \in Tasks, Launched(t) PROVE Typed'
<1>1. job[t].name \in Names
  BY MintedAreNames DEF Launched, Typed
<1>2. worker' \in [Names -> Worker] /\ \A n \in Names : worker'[n].listed => worker[n].listed
  BY <1>1 DEF Launched, Typed, Worker
<1>3. Idle \in Job /\ Idle.phase = "idle" /\ Idle.name = None
  BY DEF Idle, Job
<1>4. job' \in [Tasks -> Job]
  BY <1>3 DEF Launched, Typed
<1>5. \A s \in Tasks : /\ job'[s].phase # "idle" => job'[s].name \in Minted
                       /\ job'[s].phase = "idle" => job'[s].name = None
                       /\ job'[s].phase = "waiting" => job'[s].asked \in Names
  BY <1>3 DEF Launched, Typed
<1> QED
  BY <1>2, <1>4, <1>5, MintsNothing DEF Launched, Typed

LEMMA PresentationTimesOutTyped ==
    ASSUME Typed, NEW t \in Tasks, PresentationTimesOut(t) PROVE Typed'
<1>1. CASE worker[job[t].name].pid = None
  BY <1>1, FailingTyped DEF PresentationTimesOut
<1>2. CASE worker[job[t].name].pid # None
  <2>1. /\ process' \in [Names -> ProcessState]
        /\ job' = [job EXCEPT ![t].phase = "killing"] /\ job[t].phase = "presenting"
        /\ UNCHANGED <<forks, counter, worker, template, current, server, todo, troubles>>
    BY <1>2, KilledTyped DEF PresentationTimesOut
  <2>2. job' \in [Tasks -> Job]
    BY <2>1 DEF Typed, Job
  <2>3. \A s \in Tasks : /\ job'[s].phase # "idle" => job'[s].name \in Minted
                         /\ job'[s].phase = "idle" => job'[s].name = None
                         /\ job'[s].phase = "waiting" => job'[s].asked \in Names
    BY <2>1 DEF Typed
  <2> QED
    BY <2>1, <2>2, <2>3, MintsNothing DEF Typed
<1> QED
  BY <1>1, <1>2

\* The template's steps.

\* A new stage, a pipe that ends, or lines that are gone.
LEMMA StagedTyped ==
    ASSUME Typed, NEW k \in Names, NEW stage \in Stages
    PROVE  /\ [template EXCEPT ![k].stage = stage] \in [Names -> Templates]
           /\ [template EXCEPT ![k].stage = stage, ![k].asks = <<>>] \in [Names -> Templates]
           /\ [template EXCEPT ![k].open = FALSE] \in [Names -> Templates]
<1>1. template[k] \in Templates
  BY DEF Typed
<1>2. /\ [template[k] EXCEPT !.stage = stage] \in Templates
      /\ [template[k] EXCEPT !.open = FALSE] \in Templates
  BY <1>1 DEF Templates
<1>3. [template[k] EXCEPT !.stage = stage, !.asks = <<>>] \in Templates
  <2>1. <<>> \in Seq(Minted)
    OBVIOUS
  <2> QED
    BY <1>1, <2>1 DEF Templates
<1> QED
  BY <1>2, <1>3 DEF Typed

\* Steps of the template alone.
LEMMA TemplateAlone ==
    ASSUME Typed, UNCHANGED <<forks, counter, worker, job, server, todo>>,
           template' \in [Names -> Templates], process' \in [Names -> ProcessState],
           current' \in Names \cup {None}, troubles' \in 0..MaxTroubles
    PROVE  Typed'
BY MintsNothing DEF Typed

LEMMA AnswersTyped ==
    ASSUME Typed, NEW k \in Names, NEW answer \in Minted \cup {Refusal}, Served(k),
           Answers(k, answer)
    PROVE  /\ template' \in [Names -> Templates]
           /\ Head(template[k].asks) \in Minted
<1>1. template[k] \in Templates /\ template[k].asks # <<>>
  BY DEF Typed, Served
<1>2. Tail(template[k].asks) \in Seq(Minted) /\ Head(template[k].asks) \in Minted
  BY <1>1 DEF Templates
<1>3. Append(template[k].answers, answer) \in Seq(Minted \cup {Refusal})
  BY <1>1 DEF Templates
<1>4. [template[k] EXCEPT !.asks = Tail(@), !.answers = Append(@, answer)] \in Templates
  BY <1>1, <1>2, <1>3 DEF Templates
<1>5. template' = [template EXCEPT ![k] =
                     [template[k] EXCEPT !.asks = Tail(@), !.answers = Append(@, answer)]]
  BY DEF Answers, Typed
<1> QED
  BY <1>2, <1>4, <1>5 DEF Typed

LEMMA BornTyped ==
    ASSUME Typed, NEW k \in Names, Served(k), Born(k)
    PROVE  process' \in [Names -> ProcessState]
BY DEF Typed, Born, ProcessState

LEMMA TemplateStepsTyped ==
    ASSUME Typed, NEW k \in Names,
           \/ Builds(k) \/ BuildFails(k) \/ Forks(k) \/ Refuses(k) \/ TemplateDies(k)
           \/ TemplateLeaves(k) \/ TemplateKilled(k)
    PROVE  Typed'
<1> USE DEF Stages
<1>1. CASE Builds(k)
  BY <1>1, StagedTyped, TemplateAlone DEF Builds, Typed
<1>2. CASE BuildFails(k)
  BY <1>2, StagedTyped, TroubleTyped, TemplateAlone DEF BuildFails, Typed
<1>3. CASE Forks(k)
  <2>1. Served(k) /\ Born(k) /\ Answers(k, Head(template[k].asks))
        /\ UNCHANGED <<forks, counter, worker, job, current, server, todo, troubles>>
    BY <1>3 DEF Forks
  <2>2. Head(template[k].asks) \in Minted
    BY <2>1 DEF Typed, Served, Templates
  <2> QED
    BY <2>1, <2>2, AnswersTyped, BornTyped, TemplateAlone DEF Typed
<1>4. CASE Refuses(k)
  BY <1>4, AnswersTyped, TroubleTyped, TemplateAlone DEF Refuses, Typed
<1>5. CASE TemplateDies(k)
  <2>1. process' \in [Names -> ProcessState]
    BY <1>5, BornTyped DEF TemplateDies, Typed
  <2> QED
    BY <1>5, <2>1, StagedTyped, TroubleTyped, TemplateAlone DEF TemplateDies, Typed
<1>6. CASE TemplateLeaves(k)
  BY <1>6, StagedTyped, TemplateAlone DEF TemplateLeaves, Typed
<1>7. CASE TemplateKilled(k)
  BY <1>7, StagedTyped, TemplateAlone DEF TemplateKilled, Typed
<1> QED
  BY <1>1, <1>2, <1>3, <1>4, <1>5, <1>6, <1>7

\* The process, its wire and its end.

LEMMA WorkersAlone ==
    ASSUME Typed, UNCHANGED <<forks, counter, job, template, current, server>>,
           todo' \in SUBSET todo, troubles' \in 0..MaxTroubles,
           worker' \in [Names -> Worker], process' \in [Names -> ProcessState],
           \A n \in Names : worker'[n].listed => worker[n].listed
    PROVE  Typed'
BY MintsNothing DEF Typed

LEMMA JoinsTyped == ASSUME Typed, NEW n \in Names, Joins(n) PROVE Typed'
<1>1. process' \in [Names -> ProcessState]
  BY DEF Joins, Typed, ProcessState
<1> QED
  BY <1>1, WorkersAlone DEF Joins, Typed

LEMMA PresentsTyped == ASSUME Typed, NEW n \in Names, Presents(n) PROVE Typed'
<1>1. process' \in [Names -> ProcessState]
  BY DEF Presents, Typed, ProcessState
<1>2. worker' \in [Names -> Worker] /\ \A m \in Names : worker'[m].listed => worker[m].listed
  BY DEF Presents, Typed, Worker
<1>3. \A t \in Tasks : \/ job'[t] = job[t]
                       \/ /\ job[t].phase = "presenting"
                          /\ job'[t] = [job[t] EXCEPT !.phase = "woken"]
  BY DEF Presents
<1>4. job' = [t \in Tasks |-> job'[t]]
  BY DEF Presents
<1>5. job' \in [Tasks -> Job]
  <2>1. ASSUME NEW t \in Tasks PROVE job'[t] \in Job
    <3>1. job[t] \in Job
      BY DEF Typed
    <3> QED
      BY <1>3, <3>1 DEF Job
  <2> QED
    BY <1>4, <2>1
<1>6. \A t \in Tasks : /\ job'[t].phase # "idle" => job'[t].name \in Minted
                       /\ job'[t].phase = "idle" => job'[t].name = None
                       /\ job'[t].phase = "waiting" => job'[t].asked \in Names
  <2>1. ASSUME NEW t \in Tasks
        PROVE  /\ job'[t].phase # "idle" => job'[t].name \in Minted
               /\ job'[t].phase = "idle" => job'[t].name = None
               /\ job'[t].phase = "waiting" => job'[t].asked \in Names
    <3>1. job[t] \in Job
      BY DEF Typed
    <3>2. CASE job'[t] = job[t]
      BY <3>2 DEF Typed
    <3>3. CASE job[t].phase = "presenting" /\ job'[t] = [job[t] EXCEPT !.phase = "woken"]
      BY <3>1, <3>3 DEF Typed, Job
    <3> QED
      BY <1>3, <3>2, <3>3
  <2> QED
    BY <2>1
<1>7. /\ UNCHANGED <<forks, counter, template, current, server, todo, troubles>>
      /\ Minted' = Minted
  BY MintsNothing DEF Presents
<1> QED
  BY <1>1, <1>2, <1>5, <1>6, <1>7, MintsNothing DEF Typed

LEMMA EndsOfProcessTyped ==
    ASSUME Typed, NEW n \in Names, PresentsInVain(n) \/ WireLost(n) \/ Dies(n) PROVE Typed'
<1>1. process' \in [Names -> ProcessState]
  <2>1. CASE PresentsInVain(n) \/ WireLost(n)
    BY <2>1 DEF PresentsInVain, WireLost, Typed, ProcessState
  <2>2. CASE Dies(n)
    BY <2>2, KilledTyped DEF Dies
  <2> QED
    BY <2>1, <2>2
<1>2. troubles' \in 0..MaxTroubles
  BY TroubleTyped DEF PresentsInVain, WireLost, Dies, Typed
<1>3. UNCHANGED <<forks, counter, worker, job, template, current, server, todo>>
  BY DEF PresentsInVain, WireLost, Dies
<1> QED
  BY <1>1, <1>2, <1>3, WorkersAlone DEF Typed

LEMMA BeatKillsTyped == ASSUME Typed, NEW n \in Names, BeatKills(n) PROVE Typed'
<1>1. worker' \in [Names -> Worker] /\ \A m \in Names : worker'[m].listed => worker[m].listed
  BY DEF BeatKills, Typed, Worker
<1> QED
  BY <1>1, TroubleTyped, KilledTyped, WorkersAlone DEF BeatKills

LEMMA LoseTyped == ASSUME Typed, NEW n \in Names, Lose(n) PROVE Typed'
<1>1. process' \in [Names -> ProcessState]
  BY DEF Lose, Typed, ProcessState
<1>2. PICK state \in {"starting", "running", "aborted"} :
        \/ worker' = worker
        \/ worker' = [worker EXCEPT ![n].connected = FALSE, ![n].state = state]
  <2>1. worker[n].state \in {"starting", "running", "aborted"}
    BY DEF Typed, Worker
  <2>2. CASE worker[n].listed /\ worker[n].connected
    <3>1. worker' = [worker EXCEPT ![n].connected = FALSE,
                                   ![n].state = IF worker[n].admits THEN "aborted" ELSE @]
      BY <2>2 DEF Lose
    <3>2. CASE worker[n].admits
      BY <3>1, <3>2
    <3>3. CASE ~worker[n].admits
      BY <2>1, <3>1, <3>3
    <3> QED
      BY <3>2, <3>3
  <2>3. CASE ~(worker[n].listed /\ worker[n].connected)
    BY <2>3 DEF Lose
  <2> QED
    BY <2>2, <2>3
<1>3. /\ worker[n] \in Worker
      /\ [worker[n] EXCEPT !.connected = FALSE, !.state = state] \in Worker
      /\ [worker[n] EXCEPT !.connected = FALSE, !.state = state].listed = worker[n].listed
  BY DEF Typed, Worker
<1>4. \/ worker' = worker
      \/ worker' = [worker EXCEPT ![n] = [worker[n] EXCEPT !.connected = FALSE, !.state = state]]
  BY <1>2 DEF Typed
<1>5. worker' \in [Names -> Worker] /\ \A m \in Names : worker'[m].listed => worker[m].listed
  BY <1>3, <1>4 DEF Typed
<1> QED
  BY <1>1, <1>5, WorkersAlone DEF Lose, Typed

LEMMA BuryTyped == ASSUME Typed, NEW n \in Names, Bury(n) PROVE Typed'
<1>1. worker' \in [Names -> Worker] /\ \A m \in Names : worker'[m].listed => worker[m].listed
  BY UnlistedTyped DEF Bury, Typed
<1> QED
  BY <1>1, WorkersAlone DEF Bury, Typed

\* The end of the group.

LEMMA ServerAlone ==
    ASSUME Typed, UNCHANGED <<forks, counter, worker, process>>,
           server' \in Courses, todo' \in SUBSET Minted, troubles' \in 0..MaxTroubles,
           current' \in Names \cup {None}, template' \in [Names -> Templates],
           job' \in [Tasks -> Job], \A t \in Tasks : job'[t] = job[t] \/ job'[t] = Idle
    PROVE  Typed'
<1>1. Idle.phase = "idle" /\ Idle.name = None
  BY DEF Idle
<1>2. \A t \in Tasks : /\ job'[t].phase # "idle" => job'[t].name \in Minted
                       /\ job'[t].phase = "idle" => job'[t].name = None
                       /\ job'[t].phase = "waiting" => job'[t].asked \in Names
  BY <1>1 DEF Typed
<1> QED
  BY <1>2, MintsNothing DEF Typed

LEMMA StopStepsTyped ==
    ASSUME Typed, Leave \/ BeginStop \/ CloseBus \/ StopTemplate PROVE Typed'
<1> USE DEF Courses
<1>1. CASE Leave
  BY <1>1, ServerAlone DEF Leave, Typed
<1>2. CASE BeginStop
  <2>1. todo' \in SUBSET Minted
    BY <1>2 DEF BeginStop, Typed
  <2>2. Idle \in Job
    BY DEF Idle, Job
  <2>3. job' \in [Tasks -> Job] /\ \A t \in Tasks : job'[t] = job[t] \/ job'[t] = Idle
    BY <1>2, <2>2 DEF BeginStop, Typed
  <2> QED
    BY <1>2, <2>1, <2>3, ServerAlone DEF BeginStop, Typed
<1>3. CASE CloseBus
  BY <1>3, ServerAlone DEF CloseBus, Typed
<1>4. CASE StopTemplate
  <2>1. template' \in [Names -> Templates]
    <3>1. Alive => current \in Names
      BY DEF Typed, Alive
    <3>2. template \in [Names -> Templates] /\ "gone" \in Stages
      BY DEF Typed, Stages
    <3>3. CASE Alive
      BY <1>4, <3>1, <3>2, <3>3, StagedTyped DEF StopTemplate
    <3>4. CASE ~Alive
      BY <1>4, <3>2, <3>4 DEF StopTemplate
    <3>5. Templates' = Templates
      BY <1>4, MintsNothing DEF StopTemplate
    <3> QED
      BY <3>3, <3>4, <3>5
  <2> QED
    BY <1>4, <2>1, ServerAlone DEF StopTemplate, Typed
<1> QED
  BY <1>1, <1>2, <1>3, <1>4

LEMMA StopsWorkerTyped == ASSUME Typed, NEW n \in Names, StopsWorker(n) PROVE Typed'
<1>1. [OffTheBus(n) EXCEPT !.pid = None] \in Worker
  BY UnlistedTyped DEF Worker
<1>2. [OffTheBus(n) EXCEPT !.pid = None].listed = worker[n].listed
  BY UnlistedTyped DEF Worker
<1>3. worker' \in [Names -> Worker] /\ \A m \in Names : worker'[m].listed => worker[m].listed
  BY <1>1, <1>2 DEF StopsWorker, Typed
<1> QED
  BY <1>3, KilledTyped, WorkersAlone DEF StopsWorker, Typed

LEMMA EndsTyped == ASSUME Typed, Exit \/ Crash PROVE Typed'
<1>1. Ends /\ troubles' \in 0..MaxTroubles
  BY TroubleTyped DEF Exit, Crash, Typed
<1>2. template' \in [Names -> Templates]
  <2>1. \A k \in Names : [template[k] EXCEPT !.open = FALSE] \in Templates
    BY DEF Typed, Templates
  <2> QED
    BY <1>1, <2>1 DEF Ends
<1>3. Idle \in Job
  BY DEF Idle, Job
<1> QED
  BY <1>1, <1>2, <1>3, ServerAlone DEF Ends, Courses, Typed
-----------------------------------------------------------------------------
LEMMA TypedInit == Init => Typed
<1> SUFFICES ASSUME Init PROVE Typed
  OBVIOUS
<1>1. Minted = {}
  BY DEF Init, Minted
<1>2. NoTemplate \in Templates
  <2>1. <<>> \in Seq(Minted) /\ <<>> \in Seq(Minted \cup {Refusal})
    OBVIOUS
  <2> QED
    BY <2>1 DEF NoTemplate, Templates, Stages
<1>3. Absent \in Worker /\ ~Absent.listed /\ Idle \in Job /\ Idle.name = None /\ Idle.phase = "idle"
  BY DEF Absent, Worker, Idle, Job
<1> QED
  BY <1>2, <1>3, Constants DEF Init, Typed, ProcessState, Courses

LEMMA TypedStep == Typed /\ [Next]_vars => Typed'
<1> SUFFICES ASSUME Typed, [Next]_vars PROVE Typed'
  OBVIOUS
<1>1. ASSUME NEW t \in Tasks,
             Spawns(t) \/ Summons(t) \/ Asks(t) \/ AsksInVain(t) \/ TimesOut(t) \/ LaunchSteps(t)
      PROVE  Typed'
  <2>1. CASE TimesOut(t)
    BY <2>1, FailingTyped DEF TimesOut
  <2>2. CASE LetsGo(t)
    BY <2>2, FailingTyped DEF LetsGo
  <2>3. CASE FindsPipeEnded(t)
    BY <2>3, FailingTyped DEF FindsPipeEnded
  <2> QED
    BY <1>1, <2>1, <2>2, <2>3, SpawnsTyped, SummonsTyped, AsksTyped, AsksInVainTyped,
       SummonedTyped, TakesAnswerTyped, LaunchedTyped, PresentationTimesOutTyped
    DEF LaunchSteps
<1>2. ASSUME NEW k \in Names,
             \/ BuildFails(k) \/ Refuses(k) \/ TemplateDies(k) \/ TemplateKilled(k)
             \/ TemplateSteps(k)
      PROVE  Typed'
  BY <1>2, TemplateStepsTyped DEF TemplateSteps
<1>3. ASSUME NEW n \in Names, Dies(n) \/ BeatKills(n) \/ Bury(n) \/ ProcessSteps(n)
      PROVE  Typed'
  BY <1>3, JoinsTyped, PresentsTyped, EndsOfProcessTyped, BeatKillsTyped, LoseTyped, BuryTyped
  DEF ProcessSteps
<1>4. CASE Leave \/ Crash \/ StopSteps
  BY <1>4, StopStepsTyped, StopsWorkerTyped, EndsTyped DEF StopSteps
<1>5. CASE UNCHANGED vars
  BY <1>5, MintsNothing DEF vars, Typed
<1> QED
  BY <1>1, <1>2, <1>3, <1>4, <1>5 DEF Next

LEMMA TypedIsTypeOK == Typed => TypeOK
<1> SUFFICES ASSUME Typed PROVE TypeOK
  OBVIOUS
<1>1. ASSUME NEW k \in Names
      PROVE  /\ template[k].stage \in {"none", "building", "ready", "gone"}
             /\ template[k].open \in BOOLEAN
             /\ template[k].asks \in Seq(1..counter)
             /\ template[k].answers \in Seq((1..counter) \cup {Refusal})
  <2>1. template[k] \in Templates
    BY DEF Typed
  <2> QED
    BY <2>1 DEF Templates, Stages, Minted
<1> QED
  BY <1>1 DEF Typed, TypeOK, ProcessState, Courses, Minted

\* Every variable keeps its shape, whoever launches, dies or stops in whatever order: a
\* template answers numbers of workers that were minted, and is asked for such numbers
\* only (start_worker, fork_worker, TemplateProcess).
THEOREM TypeCorrect == Spec => []TypeOK
<1>1. Init => Typed
  BY TypedInit
<1>2. Typed /\ [Next]_vars => Typed'
  BY TypedStep
<1>3. Typed => TypeOK
  BY TypedIsTypeOK
<1> QED
  BY <1>1, <1>2, <1>3, PTL DEF Spec
-----------------------------------------------------------------------------
(* What is listed is manned.                                               *)

Calm == \A t \in Tasks : job[t].phase # "woken"
Known == OneLine /\ Wired /\ Waking /\ Manned

\* A line taken, and a line written.
LEMMA TailLines ==
    ASSUME NEW S, NEW q \in Seq(S), q # <<>>
    PROVE  /\ Head(q) = q[1] /\ 1 \in DOMAIN q
           /\ \A i \in DOMAIN Tail(q) : i + 1 \in DOMAIN q /\ Tail(q)[i] = q[i + 1] /\ i \in 1..Len(q)
           /\ DOMAIN q = 1..Len(q) /\ Len(q) \in Nat
OBVIOUS

LEMMA AppendLines ==
    ASSUME NEW S, NEW q \in Seq(S), NEW e
    PROVE  \A i \in DOMAIN Append(q, e) :
             \/ i \in DOMAIN q /\ Append(q, e)[i] = q[i]
             \/ i = Len(q) + 1 /\ Append(q, e)[i] = e
OBVIOUS

LEMMA LinesAreMinted ==
    ASSUME Typed
    PROVE  /\ \A k \in Names : template[k].asks \in Seq(Minted)
           /\ \A n : Asked(n) => n \in Minted
           /\ \A n : Summoning(n) => n \in Minted
<1>1. \A k \in Names : template[k].asks \in Seq(Minted)
  BY DEF Typed, Templates
<1>2. \A k \in Names : \A i \in DOMAIN template[k].asks : template[k].asks[i] \in Minted
  BY <1>1
<1> QED
  BY <1>1, <1>2 DEF Asked, Summoning, Typed

\* No line written: fewer are asked for, fewer are summoned for.
LEMMA LinesShrink ==
    ASSUME Typed, OneLine, Minted' = Minted, NoLineTwice',
           \A n \in Names : (Asked(n)' => Asked(n)) /\ (Summoning(n)' => Summoning(n)),
           \A t \in Tasks : job'[t].name \in {job[t].name, None},
           \A n \in Names : /\ n \notin Minted \/ Asked(n)' \/ Summoning(n)'
                            /\ process[n] = "none"
                            => process'[n] = "none"
    PROVE  OneLine'
<1>1. NobodyTwice'
  BY DEF OneLine, NobodyTwice
<1>2. NotYetAsked'
  BY DEF OneLine, NotYetAsked
<1>3. Unforked'
  BY DEF OneLine, Unforked
<1> QED
  BY <1>1, <1>2, <1>3 DEF OneLine

LEMMA SameLines ==
    ASSUME OneLine, \A k \in Names : template'[k].asks = template[k].asks
    PROVE  NoLineTwice' /\ \A n : Asked(n)' <=> Asked(n)
BY DEF OneLine, NoLineTwice, Asked

LEMMA SameJobs ==
    ASSUME NEW n, \A t \in Tasks : job'[t] = job[t] \/ job'[t].phase # "summoning"
    PROVE  Summoning(n)' => Summoning(n)
BY DEF Summoning

\* A line taken out of a pipe: nobody asks for its number any more.
LEMMA HeadGoes ==
    ASSUME Typed, OneLine, NEW k \in Names, template[k].asks # <<>>,
           NEW n, n = Head(template[k].asks),
           template'[k].asks = Tail(template[k].asks) \/ template'[k].asks = <<>>,
           \A l \in Names \ {k} : template'[l].asks = template[l].asks
    PROVE  /\ NoLineTwice' /\ \A m : Asked(m)' => Asked(m)
           /\ Asked(n) /\ ~Asked(n)' /\ n \in Minted
<1> DEFINE q == template[k].asks
<1>1. q \in Seq(Minted) /\ q # <<>>
  BY LinesAreMinted
<1>2. /\ Head(q) = q[1] /\ 1 \in DOMAIN q
      /\ \A i \in DOMAIN Tail(q) : i + 1 \in DOMAIN q /\ Tail(q)[i] = q[i + 1] /\ i \in 1..Len(q)
      /\ DOMAIN q = 1..Len(q) /\ Len(q) \in Nat
  BY <1>1, TailLines
<1>3. \A l \in Names : \A i \in DOMAIN template'[l].asks :
        \E j \in DOMAIN template[l].asks :
          /\ template'[l].asks[i] = template[l].asks[j]
          /\ l # k => j = i
          /\ l = k => j = i + 1 /\ i \in 1..Len(q)
  <2>1. ASSUME NEW l \in Names, l # k, NEW i \in DOMAIN template'[l].asks
        PROVE  \E j \in DOMAIN template[l].asks : template'[l].asks[i] = template[l].asks[j] /\ j = i
    BY <2>1
  <2>2. ASSUME NEW i \in DOMAIN template'[k].asks
        PROVE  /\ i + 1 \in DOMAIN q /\ template'[k].asks[i] = q[i + 1] /\ i \in 1..Len(q)
    <3>1. CASE template'[k].asks = Tail(q)
      BY <1>2, <2>2, <3>1
    <3>2. CASE template'[k].asks = <<>>
      BY <2>2, <3>2
    <3> QED
      BY <3>1, <3>2
  <2> QED
    BY <2>1, <2>2
<1>4. NoLineTwice'
  <2> SUFFICES ASSUME NEW l \in Names, NEW m \in Names,
                      NEW i \in DOMAIN template'[l].asks, NEW j \in DOMAIN template'[m].asks,
                      template'[l].asks[i] = template'[m].asks[j]
               PROVE  l = m /\ i = j
    BY DEF NoLineTwice
  <2>1. PICK x \in DOMAIN template[l].asks :
          /\ template'[l].asks[i] = template[l].asks[x]
          /\ l # k => x = i
          /\ l = k => x = i + 1 /\ i \in 1..Len(q)
    BY <1>3
  <2>2. PICK y \in DOMAIN template[m].asks :
          /\ template'[m].asks[j] = template[m].asks[y]
          /\ m # k => y = j
          /\ m = k => y = j + 1 /\ j \in 1..Len(q)
    BY <1>3
  <2>3. template[l].asks[x] = template[m].asks[y]
    BY <2>1, <2>2
  <2>4. l = m /\ x = y
    BY <2>3 DEF OneLine, NoLineTwice
  <2> QED
    BY <2>1, <2>2, <2>4
<1>5. \A m : Asked(m)' => Asked(m)
  BY <1>3 DEF Asked
<1>6. Asked(n) /\ n = q[1]
  BY <1>2 DEF Asked
<1>7. ~Asked(n)'
  <2> SUFFICES ASSUME NEW l \in Names, NEW i \in DOMAIN template'[l].asks,
                      template'[l].asks[i] = n
               PROVE  FALSE
    BY DEF Asked
  <2>1. PICK x \in DOMAIN template[l].asks :
          /\ template'[l].asks[i] = template[l].asks[x]
          /\ l # k => x = i
          /\ l = k => x = i + 1 /\ i \in 1..Len(q)
    BY <1>3
  <2>2. template[l].asks[x] = template[k].asks[1]
    BY <1>6, <2>1
  <2>3. l = k /\ x = 1
    BY <1>2, <2>2 DEF OneLine, NoLineTwice
  <2> QED
    BY <2>1, <2>3
<1>8. n \in Minted
  BY <1>6, LinesAreMinted
<1> QED
  BY <1>4, <1>5, <1>6, <1>7, <1>8

\* A line written for a number nobody has asked for.
LEMMA LineComes ==
    ASSUME Typed, OneLine, NEW k \in Names, NEW n, ~Asked(n),
           \/ template'[k].asks = Append(template[k].asks, n)
           \/ template'[k].asks = <<n>>,
           \A l \in Names \ {k} : template'[l].asks = template[l].asks
    PROVE  NoLineTwice' /\ \A m : Asked(m)' => Asked(m) \/ m = n
<1> DEFINE q == template[k].asks
<1>1. q \in Seq(Minted)
  BY LinesAreMinted
<1>2. \A i \in DOMAIN template'[k].asks :
        \/ i \in DOMAIN q /\ template'[k].asks[i] = q[i]
        \/ template'[k].asks[i] = n
  <2>1. CASE template'[k].asks = Append(q, n)
    <3>1. \A i \in DOMAIN Append(q, n) :
            \/ i \in DOMAIN q /\ Append(q, n)[i] = q[i]
            \/ i = Len(q) + 1 /\ Append(q, n)[i] = n
      BY <1>1, AppendLines
    <3> QED
      BY <2>1, <3>1
  <2>2. CASE template'[k].asks = <<n>>
    BY <2>2
  <2> QED
    BY <2>1, <2>2
<1>3. \A i, j \in DOMAIN template'[k].asks :
        template'[k].asks[i] = n /\ template'[k].asks[j] = n => i = j
  <2>1. CASE template'[k].asks = Append(q, n)
    <3>1. \A i \in DOMAIN q : q[i] # n
      BY DEF Asked
    <3>2. \A i \in DOMAIN Append(q, n) :
            \/ i \in DOMAIN q /\ Append(q, n)[i] = q[i]
            \/ i = Len(q) + 1 /\ Append(q, n)[i] = n
      BY <1>1, AppendLines
    <3> QED
      BY <2>1, <3>1, <3>2
  <2>2. CASE template'[k].asks = <<n>>
    BY <2>2
  <2> QED
    BY <2>1, <2>2
<1>4. \A l \in Names : \A i \in DOMAIN template'[l].asks :
        \/ i \in DOMAIN template[l].asks /\ template'[l].asks[i] = template[l].asks[i]
        \/ l = k /\ template'[l].asks[i] = n
  BY <1>2
<1>5. NoLineTwice'
  <2> SUFFICES ASSUME NEW l \in Names, NEW m \in Names,
                      NEW i \in DOMAIN template'[l].asks, NEW j \in DOMAIN template'[m].asks,
                      template'[l].asks[i] = template'[m].asks[j]
               PROVE  l = m /\ i = j
    BY DEF NoLineTwice
  <2>1. CASE template'[l].asks[i] = n
    <3>1. l = k /\ m = k
      BY <1>4, <2>1 DEF Asked
    <3> QED
      BY <1>3, <2>1, <3>1
  <2>2. CASE template'[l].asks[i] # n
    <3>1. /\ i \in DOMAIN template[l].asks /\ template'[l].asks[i] = template[l].asks[i]
          /\ j \in DOMAIN template[m].asks /\ template'[m].asks[j] = template[m].asks[j]
      BY <1>4, <2>2
    <3>2. template[l].asks[i] = template[m].asks[j]
      BY <3>1
    <3> QED
      BY <3>1, <3>2 DEF OneLine, NoLineTwice
  <2> QED
    BY <2>1, <2>2
<1>6. \A m : Asked(m)' => Asked(m) \/ m = n
  BY <1>4 DEF Asked
<1> QED
  BY <1>5, <1>6

\* Who is listed, who is waited for and whose process serves stay as they are.
LEMMA SameWorkers ==
    ASSUME Known,
           \A n \in Names : /\ worker'[n].listed = worker[n].listed
                            /\ worker'[n].state = worker[n].state
                            /\ worker'[n].connected = worker[n].connected
                            /\ worker'[n].admits = worker[n].admits,
           \A t \in Tasks : job'[t].name = job[t].name,
           \A n \in Names : process[n] \in {"presented", "lost"}
                              => process'[n] \in {"presented", "lost"}
    PROVE  Wired' /\ Manned'
<1>1. Wired'
  BY DEF Known, Wired
<1>2. Manned'
  BY DEF Known, Manned, Serves
<1> QED
  BY <1>1, <1>2

LEMMA KilledKeeps ==
    ASSUME NEW pid, process' = Killed(pid)
    PROVE  \A n \in Names : /\ process[n] = "none" => process'[n] = "none"
                            /\ process[n] \in {"presented", "lost"}
                                 => process'[n] \in {"presented", "lost"}
BY DEF Killed, OnBus

\* The number just taken.
LEMMA MintsFresh ==
    ASSUME Typed, Known, NEW t \in Tasks, Mints(t), NEW n, n = counter'
    PROVE  /\ n \in Names /\ process[n] = "none" /\ ~worker[n].listed /\ ~worker[n].connected
           /\ ~Asked(n) /\ ~Summoning(n) /\ \A s \in Tasks : job[s].name # n
           /\ job[t].name = None /\ job[t].phase = "idle" /\ n # None
           /\ Minted' = Minted \cup {n}
<1>1. n \in Names /\ n \notin Minted /\ Minted' = Minted \cup {n} /\ n # None
  BY MintsWiden, Constants
<1>2. process[n] = "none"
  BY <1>1 DEF Known, OneLine, Unforked
<1>3. ~worker[n].listed /\ ~worker[n].connected
  BY <1>1 DEF Typed, Known, Wired
<1>4. ~Asked(n) /\ ~Summoning(n)
  BY <1>1, LinesAreMinted
<1>5. \A s \in Tasks : job[s].name # n
  BY <1>1 DEF Typed
<1>6. job[t].name = None /\ job[t].phase = "idle"
  BY DEF Typed, Mints
<1> QED
  BY <1>1, <1>2, <1>3, <1>4, <1>5, <1>6

\* A new name in the list, and the coroutine that launches it.
LEMMA NewName ==
    ASSUME Typed, Known, Calm, NEW t \in Tasks, Mints(t), NEW n, n = counter',
           NEW w \in Worker, w.listed, w.admits, ~w.connected, NEW j \in Job, j.name = n,
           j.phase # "woken",
           worker' = [worker EXCEPT ![n] = w], job' = [job EXCEPT ![t] = j],
           \A m \in Names \ {n} : process'[m] = process[m]
    PROVE  NobodyTwice' /\ Wired' /\ Waking' /\ Manned'
<1>1. /\ n \in Names /\ \A s \in Tasks : job[s].name # n
      /\ job[t].name = None /\ n # None
  BY MintsFresh
<1>2. /\ worker'[n] = w /\ \A m \in Names \ {n} : worker'[m] = worker[m]
      /\ job'[t] = j /\ \A s \in Tasks \ {t} : job'[s] = job[s]
  BY <1>1 DEF Typed
<1>3. NobodyTwice'
  BY <1>1, <1>2 DEF Known, OneLine, NobodyTwice
<1>4. Wired'
  BY <1>2 DEF Known, Wired
<1>5. Waking'
  BY <1>2 DEF Waking, Calm
<1>6. Manned'
  <2> SUFFICES ASSUME NEW m \in Names, worker'[m].listed PROVE Serves(m)'
    BY DEF Manned
  <2>1. CASE m = n
    BY <1>2, <2>1 DEF Serves
  <2>2. CASE m # n
    <3>1. Serves(m) /\ m # None
      BY <1>2, <2>2, Constants DEF Known, Manned
    <3>2. CASE \E s \in Tasks : job[s].name = m
      BY <1>1, <1>2, <3>1, <3>2 DEF Serves
    <3>3. CASE ~\E s \in Tasks : job[s].name = m
      BY <1>2, <2>2, <3>1, <3>3 DEF Serves
    <3> QED
      BY <3>2, <3>3
  <2> QED
    BY <2>1, <2>2
<1> QED
  BY <1>3, <1>4, <1>5, <1>6

LEMMA SpawnsKnown == ASSUME Typed, Known, Calm, NEW t \in Tasks, Spawns(t) PROVE Known'
<1>1. PICK n : n = counter'
  OBVIOUS
<1>2. /\ n \in Names /\ process[n] = "none" /\ ~Asked(n) /\ ~Summoning(n)
      /\ job[t].phase = "idle" /\ Minted' = Minted \cup {n}
  BY <1>1, MintsFresh DEF Spawns
<1>3. NobodyTwice' /\ Wired' /\ Waking' /\ Manned'
  <2> DEFINE w == [Launching EXCEPT !.pid = n]
             j == [phase |-> "presenting", name |-> n, asked |-> None]
  <2>1. /\ w \in Worker /\ w.listed /\ w.admits /\ ~w.connected
        /\ j \in Job /\ j.name = n /\ j.phase # "woken"
    BY <1>2, LaunchingTyped DEF Launching, Absent, Worker, Job, None
  <2>2. /\ worker' = [worker EXCEPT ![n] = w] /\ job' = [job EXCEPT ![t] = j]
        /\ \A m \in Names \ {n} : process'[m] = process[m]
    BY <1>1, <1>2 DEF Spawns, Goes, Typed
  <2>3. Mints(t)
    BY DEF Spawns
  <2> HIDE DEF w, j
  <2> QED
    BY <1>1, <2>1, <2>2, <2>3, NewName
<1>4. NoLineTwice' /\ \A m : Asked(m)' <=> Asked(m)
  BY SameLines DEF Spawns, Known
<1>5. job'[t].phase = "presenting" /\ \A s \in Tasks \ {t} : job'[s] = job[s]
  BY DEF Spawns, Goes, Typed
<1>6. \A m : Summoning(m)' => Summoning(m)
  BY <1>5 DEF Summoning
<1>7. NotYetAsked'
  BY <1>4, <1>6 DEF Known, OneLine, NotYetAsked
<1>8. Unforked'
  BY <1>1, <1>2, <1>4, <1>6 DEF Known, OneLine, Unforked, Spawns, Typed
<1> QED
  BY <1>3, <1>4, <1>7, <1>8 DEF Known, OneLine

LEMMA SummonsKnown == ASSUME Typed, Known, Calm, NEW t \in Tasks, Summons(t) PROVE Known'
<1>1. PICK n : n = counter'
  OBVIOUS
<1>2. /\ n \in Names /\ process[n] = "none" /\ ~Asked(n) /\ ~Summoning(n)
      /\ job[t].phase = "idle" /\ Minted' = Minted \cup {n}
  BY <1>1, MintsFresh DEF Summons
<1>3. NobodyTwice' /\ Wired' /\ Waking' /\ Manned'
  <2> DEFINE w == Launching
             j == [phase |-> "summoning", name |-> n, asked |-> None]
  <2>1. /\ w \in Worker /\ w.listed /\ w.admits /\ ~w.connected
        /\ j \in Job /\ j.name = n /\ j.phase # "woken"
    BY <1>2, LaunchingTyped DEF Launching, Absent, Worker, Job, None
  <2>2. /\ worker' = [worker EXCEPT ![n] = w] /\ job' = [job EXCEPT ![t] = j]
        /\ \A m \in Names \ {n} : process'[m] = process[m]
    BY <1>1, <1>2 DEF Summons, Goes, Typed
  <2>3. Mints(t)
    BY DEF Summons
  <2> HIDE DEF w, j
  <2> QED
    BY <1>1, <2>1, <2>2, <2>3, NewName
<1>4. NoLineTwice' /\ \A m : Asked(m)' <=> Asked(m)
  BY SameLines DEF Summons, Known
<1>5. job'[t].name = n /\ \A s \in Tasks \ {t} : job'[s] = job[s]
  BY <1>1 DEF Summons, Goes, Typed
<1>6. \A m : Summoning(m)' => Summoning(m) \/ m = n
  BY <1>5 DEF Summoning
<1>7. NotYetAsked'
  BY <1>2, <1>4, <1>6 DEF Known, OneLine, NotYetAsked
<1>8. Unforked'
  BY <1>2, <1>4, <1>6 DEF Known, OneLine, Unforked, Summons
<1> QED
  BY <1>3, <1>4, <1>7, <1>8 DEF Known, OneLine

\* The line of a number nobody is summoned for.
LEMMA NewLine ==
    ASSUME Typed, Known, NEW t \in Tasks, Mints(t), Alive, NEW n, n = counter', Writes(n, current),
           UNCHANGED process, \A m : Summoning(m)' => Summoning(m)
    PROVE  NoLineTwice' /\ NotYetAsked' /\ Unforked'
<1>1. /\ n \in Names /\ process[n] = "none" /\ ~Asked(n) /\ ~Summoning(n)
      /\ Minted' = Minted \cup {n} /\ current \in Names
  BY MintsFresh DEF Alive, Typed
<1>2. /\ template'[current].asks = Append(template[current].asks, n)
      /\ \A l \in Names \ {current} : template'[l].asks = template[l].asks
  <2>1. template[current] \in Templates
    BY <1>1 DEF Typed
  <2> QED
    BY <1>1, <2>1 DEF Writes, Typed, Templates
<1>3. NoLineTwice' /\ \A m : Asked(m)' => Asked(m) \/ m = n
  BY <1>1, <1>2, LineComes DEF Known
<1>4. NotYetAsked'
  BY <1>1, <1>3 DEF Known, OneLine, NotYetAsked
<1>5. Unforked'
  BY <1>1, <1>3 DEF Known, OneLine, Unforked
<1> QED
  BY <1>3, <1>4, <1>5

LEMMA AsksKnown == ASSUME Typed, Known, Calm, NEW t \in Tasks, Asks(t) PROVE Known'
<1>1. PICK n : n = counter'
  OBVIOUS
<1>2. n \in Names /\ job[t].phase = "idle" /\ current \in Names
  BY <1>1, MintsFresh DEF Asks, Alive, Typed
<1>3. NobodyTwice' /\ Wired' /\ Waking' /\ Manned'
  <2> DEFINE w == Launching
             j == [phase |-> "waiting", name |-> n, asked |-> current]
  <2>1. /\ w \in Worker /\ w.listed /\ w.admits /\ ~w.connected
        /\ j \in Job /\ j.name = n /\ j.phase # "woken"
    BY <1>2, LaunchingTyped DEF Launching, Absent, Worker, Job, None
  <2>2. /\ worker' = [worker EXCEPT ![n] = w] /\ job' = [job EXCEPT ![t] = j]
        /\ \A m \in Names \ {n} : process'[m] = process[m]
    BY <1>1, <1>2 DEF Asks, Goes, Typed
  <2>3. Mints(t)
    BY DEF Asks
  <2> HIDE DEF w, j
  <2> QED
    BY <1>1, <2>1, <2>2, <2>3, NewName
<1>4. job'[t].phase = "waiting" /\ \A s \in Tasks \ {t} : job'[s] = job[s]
  BY DEF Asks, Goes, Typed
<1>5. \A m : Summoning(m)' => Summoning(m)
  BY <1>4 DEF Summoning
<1>6. NoLineTwice' /\ NotYetAsked' /\ Unforked'
  BY <1>1, <1>5, NewLine DEF Asks
<1> QED
  BY <1>3, <1>6 DEF Known, OneLine

LEMMA AsksInVainKnown ==
    ASSUME Typed, Known, Calm, NEW t \in Tasks, AsksInVain(t) PROVE Known'
<1>1. PICK n : n = counter'
  OBVIOUS
<1>2. \A m : Summoning(m)' => Summoning(m)
  BY DEF AsksInVain, Summoning
<1>3. NoLineTwice' /\ NotYetAsked' /\ Unforked'
  BY <1>1, <1>2, NewLine DEF AsksInVain
<1>4. NobodyTwice' /\ Waking'
  BY DEF AsksInVain, Known, OneLine, NobodyTwice, Waking
<1>5. Wired' /\ Manned'
  BY SameWorkers DEF AsksInVain
<1> QED
  BY <1>3, <1>4, <1>5 DEF Known, OneLine

LEMMA SummonedKnown == ASSUME Typed, Known, Calm, NEW t \in Tasks, Summoned(t) PROVE Known'
<1>1. PICK n : n = job[t].name
  OBVIOUS
<1>2. n \in Names /\ n # None /\ Summoning(n) /\ ~Asked(n) /\ job[t].phase = "summoning"
  BY <1>1, MintedAreNames, Constants DEF Summoned, Typed, Summoning, Known, OneLine, NotYetAsked
<1>3. /\ job'[t].phase = "waiting" /\ job'[t].name = n
      /\ \A s \in Tasks \ {t} : job'[s] = job[s]
  BY <1>1 DEF Summoned, Typed, Job
<1>4. \A m : Summoning(m)' => Summoning(m) /\ m # n
  <2> SUFFICES ASSUME NEW m, NEW s \in Tasks, job'[s].phase = "summoning", job'[s].name = m
               PROVE  Summoning(m) /\ m # n
    BY DEF Summoning
  <2>1. s # t /\ job[s].phase = "summoning" /\ job[s].name = m
    BY <1>3
  <2>2. m # n
    BY <1>1, <1>2, <2>1 DEF Known, OneLine, NobodyTwice
  <2> QED
    BY <2>1, <2>2 DEF Summoning
<1>5. /\ template'[n].asks = <<n>>
      /\ \A l \in Names \ {n} : template'[l].asks = template[l].asks
  BY <1>1, <1>2 DEF Summoned, Typed
<1>6. NoLineTwice' /\ \A m : Asked(m)' => Asked(m) \/ m = n
  BY <1>2, <1>5, LineComes DEF Known
<1>7. NotYetAsked'
  BY <1>4, <1>6 DEF Known, OneLine, NotYetAsked
<1>8. Unforked'
  BY <1>2, <1>4, <1>6 DEF Known, OneLine, Unforked, Summoned, Minted
<1>9. NobodyTwice'
  BY <1>1, <1>3 DEF Known, OneLine, NobodyTwice
<1>10. Waking'
  BY <1>3 DEF Calm, Waking
<1>11. Wired' /\ Manned'
  BY <1>1, <1>3, SameWorkers DEF Summoned
<1> QED
  BY <1>6, <1>7, <1>8, <1>9, <1>10, <1>11 DEF Known, OneLine

\* What is left behind where a launch fails: whoever it was for is not listed.
LEMMA FailsKnown ==
    ASSUME Typed, Known, Calm, NEW t \in Tasks, job[t].phase # "idle", Fails(t),
           \A k \in Names : template'[k].asks = template[k].asks, UNCHANGED <<counter, process>>
    PROVE  Known'
<1>1. PICK n : n = job[t].name
  OBVIOUS
<1>2. n \in Names /\ n # None
  BY <1>1, MintedAreNames, Constants DEF Typed
<1>3. /\ job'[t].phase = "idle" /\ job'[t].name = None
      /\ \A s \in Tasks \ {t} : job'[s] = job[s]
  BY DEF Fails, Idle, Typed
<1>4. worker[n] \in Worker
  BY <1>2 DEF Typed
<1>5. /\ ~worker'[n].listed /\ ~worker'[n].connected
      /\ \A m \in Names \ {n} : worker'[m] = worker[m]
  BY <1>1, <1>2, <1>4 DEF Fails, Unlisted, OffTheBus, Typed, Worker
<1>6. NoLineTwice' /\ \A m : Asked(m)' <=> Asked(m)
  BY SameLines DEF Known
<1>7. \A m : Summoning(m)' => Summoning(m)
  BY <1>3 DEF Summoning
<1>8. OneLine'
  BY <1>3, <1>6, <1>7, MintsNothing, LinesShrink DEF Known
<1>9. Wired'
  BY <1>5 DEF Known, Wired
<1>10. Waking'
  BY <1>3 DEF Calm, Waking
<1>11. Manned'
  <2> SUFFICES ASSUME NEW m \in Names, worker'[m].listed PROVE Serves(m)'
    BY DEF Manned
  <2>1. m # n /\ Serves(m)
    BY <1>5 DEF Known, Manned
  <2>2. CASE \E s \in Tasks : job[s].name = m
    BY <1>1, <1>3, <2>1, <2>2 DEF Serves
  <2>3. CASE ~\E s \in Tasks : job[s].name = m
    BY <1>5, <2>1, <2>3 DEF Serves
  <2> QED
    BY <2>2, <2>3
<1> QED
  BY <1>8, <1>9, <1>10, <1>11 DEF Known

\* Launches that move on, with the lines as they are and nobody's name let go.
LEMMA SameNames ==
    ASSUME Typed, Known, Minted' = Minted,
           \A k \in Names : template'[k].asks = template[k].asks,
           \A t \in Tasks : /\ job'[t].name = job[t].name
                            /\ job'[t] = job[t] \/ job'[t].phase # "summoning",
           \A n \in Names : process[n] = "none" => process'[n] = "none"
    PROVE  OneLine'
<1>1. NoLineTwice' /\ \A m : Asked(m)' <=> Asked(m)
  BY SameLines DEF Known
<1>2. \A m : Summoning(m)' => Summoning(m)
  BY DEF Summoning
<1> QED
  BY <1>1, <1>2, LinesShrink DEF Known

LEMMA TakesAnswerKnown ==
    ASSUME Typed, Known, Calm, NEW t \in Tasks, TakesAnswer(t) PROVE Known'
<1> DEFINE n == job[t].name
           k == job[t].asked
<1>1. n \in Names /\ k \in Names /\ job[t].phase = "waiting"
  BY MintedAreNames DEF TakesAnswer, Typed
<1>2. \A l \in Names : template'[l].asks = template[l].asks
  <2>1. template[k] \in Templates
    BY <1>1 DEF Typed
  <2> QED
    BY <1>1, <2>1 DEF TakesAnswer, Typed, Templates
<1>3. UNCHANGED <<counter, process>> /\ Minted' = Minted
  BY MintsNothing DEF TakesAnswer
<1>4. CASE Head(template[k].answers) = Refusal
  BY <1>1, <1>2, <1>3, <1>4, FailsKnown DEF TakesAnswer
<1>5. CASE Head(template[k].answers) # Refusal
  <2>1. /\ worker' = [worker EXCEPT ![n].pid = Head(template[k].answers)]
        /\ job' = [job EXCEPT ![t].phase = IF worker[n].connected THEN "woken" ELSE "presenting"]
    BY <1>5 DEF TakesAnswer
  <2>2. \A m \in Names : /\ worker'[m].listed = worker[m].listed
                         /\ worker'[m].state = worker[m].state
                         /\ worker'[m].connected = worker[m].connected
                         /\ worker'[m].admits = worker[m].admits
    BY <1>1, <2>1 DEF Typed, Worker
  <2>3. /\ \A s \in Tasks \ {t} : job'[s] = job[s]
        /\ job'[t].name = job[t].name
        /\ job'[t].phase = IF worker[n].connected THEN "woken" ELSE "presenting"
    BY <2>1 DEF Typed, Job
  <2>4. Wired' /\ Manned'
    BY <1>3, <2>2, <2>3, SameWorkers
  <2>5. Waking'
    BY <1>1, <2>2, <2>3 DEF Calm, Waking
  <2>6. OneLine'
    BY <1>2, <1>3, <2>3, SameNames
  <2> QED
    BY <2>4, <2>5, <2>6 DEF Known
<1> QED
  BY <1>4, <1>5

\* The launch its process's presentation has woken: it serves.
LEMMA LaunchedKnown == ASSUME Typed, Known, NEW t \in Tasks, Launched(t) PROVE Known'
<1>1. PICK n : n = job[t].name
  OBVIOUS
<1>2. n \in Names /\ n # None /\ worker[n].connected
  BY <1>1, MintedAreNames, Constants DEF Launched, Typed, Known, Waking
<1>3. /\ job'[t].phase = "idle" /\ job'[t].name = None
      /\ \A s \in Tasks \ {t} : job'[s] = job[s]
  BY DEF Launched, Idle, Typed
<1>4. worker[n] \in Worker
  BY <1>2 DEF Typed
<1>5. /\ worker'[n].state = "running"
      /\ \A m \in Names : /\ worker'[m].listed = worker[m].listed
                          /\ worker'[m].connected = worker[m].connected
                          /\ worker'[m].admits = worker[m].admits
                          /\ m # n => worker'[m].state = worker[m].state
  BY <1>1, <1>2, <1>4 DEF Launched, Typed, Worker
<1>6. NoLineTwice' /\ \A m : Asked(m)' <=> Asked(m)
  BY SameLines DEF Known, Launched
<1>7. \A m : Summoning(m)' => Summoning(m)
  BY <1>3 DEF Summoning
<1>8. OneLine'
  BY <1>3, <1>6, <1>7, MintsNothing, LinesShrink DEF Known, Launched
<1>9. Wired'
  BY <1>5 DEF Known, Wired, Launched
<1>10. Waking'
  <2> SUFFICES ASSUME NEW s \in Tasks, job'[s].phase = "woken" PROVE worker'[job'[s].name].connected
    BY DEF Waking
  <2>1. s # t /\ job'[s] = job[s]
    BY <1>3
  <2>2. job[s].name \in Names /\ worker[job[s].name].connected
    BY <2>1, MintedAreNames DEF Typed, Known, Waking
  <2> QED
    BY <1>5, <2>1, <2>2
<1>11. Manned'
  <2> SUFFICES ASSUME NEW m \in Names, worker'[m].listed PROVE Serves(m)'
    BY DEF Manned
  <2>1. CASE m = n
    BY <1>2, <1>5, <2>1 DEF Serves, Known, Wired, Launched
  <2>2. CASE m # n
    <3>1. Serves(m)
      BY <1>5 DEF Known, Manned
    <3>2. CASE \E s \in Tasks : job[s].name = m
      BY <1>1, <1>3, <2>2, <3>2 DEF Serves
    <3>3. CASE ~\E s \in Tasks : job[s].name = m
      BY <1>5, <2>2, <3>1, <3>3 DEF Serves, Launched
    <3> QED
      BY <3>2, <3>3
  <2> QED
    BY <2>1, <2>2
<1> QED
  BY <1>8, <1>9, <1>10, <1>11 DEF Known

LEMMA PresentationTimesOutKnown ==
    ASSUME Typed, Known, Calm, NEW t \in Tasks, PresentationTimesOut(t) PROVE Known'
<1>1. CASE worker[job[t].name].pid = None
  BY <1>1, FailsKnown DEF PresentationTimesOut
<1>2. CASE worker[job[t].name].pid # None
  <2>1. PICK pid : pid = worker[job[t].name].pid
    OBVIOUS
  <2>2. /\ process' = Killed(pid) /\ UNCHANGED <<counter, worker, template>>
        /\ job' = [job EXCEPT ![t].phase = "killing"]
    BY <1>2, <2>1 DEF PresentationTimesOut
  <2>3. /\ \A s \in Tasks \ {t} : job'[s] = job[s]
        /\ job'[t].name = job[t].name /\ job'[t].phase = "killing"
    BY <2>2 DEF Typed, Job
  <2>4. Wired' /\ Manned'
    BY <2>2, <2>3, KilledKeeps, SameWorkers
  <2>5. Waking'
    BY <2>3 DEF Calm, Waking
  <2>6. OneLine'
    BY <2>2, <2>3, KilledKeeps, MintsNothing, SameNames
  <2> QED
    BY <2>4, <2>5, <2>6 DEF Known
<1> QED
  BY <1>1, <1>2

LEMMA WakingStays == ASSUME Calm, UNCHANGED job PROVE Waking'
BY DEF Calm, Waking

\* A template's stage, its pipe, its answers: no line is touched.
LEMMA LinesKept ==
    ASSUME Typed, Known, Calm, UNCHANGED <<counter, worker, job, process>>,
           \A k \in Names : template'[k].asks = template[k].asks
    PROVE  Known'
<1>1. OneLine'
  BY MintsNothing, SameNames
<1>2. Wired' /\ Manned'
  BY SameWorkers
<1> QED
  BY <1>1, <1>2, WakingStays DEF Known

\* A line served or lost with its template; a process born of it perhaps.
LEMMA LineServed ==
    ASSUME Typed, Known, Calm, UNCHANGED <<counter, worker, job>>, NEW k \in Names, Served(k),
           template'[k].asks = Tail(template[k].asks) \/ template'[k].asks = <<>>,
           \A l \in Names \ {k} : template'[l].asks = template[l].asks,
           process' = process \/ Born(k)
    PROVE  Known'
<1>1. PICK n : n = Head(template[k].asks)
  OBVIOUS
<1>2. /\ NoLineTwice' /\ \A m : Asked(m)' => Asked(m)
      /\ Asked(n) /\ ~Asked(n)' /\ n \in Minted /\ n \in Names
  BY <1>1, HeadGoes, MintedAreNames DEF Known, Served
<1>3. process[n] = "none" /\ ~Summoning(n)
  BY <1>2 DEF Known, OneLine, Unforked, NotYetAsked
<1>4. \A m \in Names : process'[m] = process[m] \/ m = n
  BY <1>1 DEF Born, Typed
<1>5. \A m : Summoning(m)' <=> Summoning(m)
  BY DEF Summoning
<1>6. OneLine'
  BY <1>2, <1>3, <1>4, <1>5, MintsNothing, LinesShrink DEF Known
<1>7. Wired' /\ Manned'
  BY <1>3, <1>4, SameWorkers
<1> QED
  BY <1>6, <1>7, WakingStays DEF Known

LEMMA TemplateStepsKnown ==
    ASSUME Typed, Known, Calm, Up, NEW k \in Names,
           \/ Builds(k) \/ BuildFails(k) \/ Forks(k) \/ Refuses(k) \/ TemplateDies(k)
           \/ TemplateLeaves(k) \/ TemplateKilled(k)
    PROVE  Known'
<1>1. template[k] \in Templates
  BY DEF Typed
<1>2. CASE Builds(k) \/ BuildFails(k) \/ TemplateLeaves(k)
  <2>1. PICK stage : template' = [template EXCEPT ![k].stage = stage]
    BY <1>2 DEF Builds, BuildFails, TemplateLeaves
  <2>2. \A l \in Names : template'[l].asks = template[l].asks
    BY <1>1, <2>1 DEF Typed, Templates
  <2> QED
    BY <1>2, <2>2, LinesKept DEF Builds, BuildFails, TemplateLeaves
<1>3. CASE Forks(k) \/ Refuses(k)
  <2>1. PICK answer : Answers(k, answer)
    BY <1>3 DEF Forks, Refuses
  <2>2. /\ template'[k].asks = Tail(template[k].asks)
        /\ \A l \in Names \ {k} : template'[l].asks = template[l].asks
    BY <1>1, <2>1 DEF Answers, Typed, Templates
  <2>3. /\ Served(k) /\ UNCHANGED <<counter, worker, job>>
        /\ process' = process \/ Born(k)
    BY <1>3 DEF Forks, Refuses
  <2> QED
    BY <2>2, <2>3, LineServed
<1>4. CASE TemplateDies(k)
  <2>1. template' = [template EXCEPT ![k].stage = "gone", ![k].asks = <<>>]
    BY <1>4 DEF TemplateDies
  <2>2. /\ template'[k].asks = <<>>
        /\ \A l \in Names \ {k} : template'[l].asks = template[l].asks
    BY <1>1, <2>1 DEF Typed, Templates
  <2>3. /\ UNCHANGED <<counter, worker, job>>
        /\ process' = process \/ (Served(k) /\ Born(k))
    BY <1>4 DEF TemplateDies
  <2>4. CASE Served(k)
    BY <2>2, <2>3, <2>4, LineServed
  <2>5. CASE ~Served(k)
    <3>1. process' = process
      BY <2>3, <2>5
    <3>2. CASE template[k].asks = <<>>
      BY <2>2, <2>3, <3>1, <3>2, LinesKept
    <3>3. CASE template[k].asks # <<>>
      <4>1. PICK n : n = Head(template[k].asks)
        OBVIOUS
      <4>2. NoLineTwice' /\ \A m : Asked(m)' => Asked(m)
        BY <2>2, <3>3, <4>1, HeadGoes DEF Known
      <4>3. \A m : Summoning(m)' <=> Summoning(m)
        BY <2>3 DEF Summoning
      <4>4. OneLine'
        BY <2>3, <3>1, <4>2, <4>3, MintsNothing, LinesShrink DEF Known
      <4>5. Wired' /\ Manned'
        BY <2>3, <3>1, SameWorkers
      <4> QED
        BY <2>3, <4>4, <4>5, WakingStays DEF Known
    <3> QED
      BY <3>2, <3>3
  <2> QED
    BY <2>4, <2>5
<1>5. CASE TemplateKilled(k)
  BY <1>5 DEF TemplateKilled, Up
<1> QED
  BY <1>2, <1>3, <1>4, <1>5

\* A process goes on or is gone, the handlers know nothing of it yet.
LEMMA ProcessAlone ==
    ASSUME Typed, Known, Calm, UNCHANGED <<counter, job, template>>,
           \A n \in Names : /\ worker'[n].listed = worker[n].listed
                            /\ worker'[n].state = worker[n].state
                            /\ worker'[n].connected = worker[n].connected
                            /\ worker'[n].admits = worker[n].admits,
           \A n \in Names : /\ process[n] = "none" => process'[n] = "none"
                            /\ process[n] \in {"presented", "lost"}
                                 => process'[n] \in {"presented", "lost"}
    PROVE  Known'
<1>1. OneLine'
  BY MintsNothing, SameNames
<1>2. Wired' /\ Manned'
  BY SameWorkers
<1> QED
  BY <1>1, <1>2, WakingStays DEF Known

LEMMA ProcessStepsKnown ==
    ASSUME Typed, Known, Calm, Up, NEW n \in Names,
           \/ Joins(n) \/ PresentsInVain(n) \/ WireLost(n) \/ Dies(n) \/ BeatKills(n)
    PROVE  Known'
<1>1. CASE Joins(n)
  <2>1. \A m \in Names : /\ process[m] = "none" => process'[m] = "none"
                         /\ process[m] \in {"presented", "lost"}
                              => process'[m] \in {"presented", "lost"}
    BY <1>1 DEF Joins, Typed
  <2> QED
    BY <1>1, <2>1, ProcessAlone DEF Joins
<1>2. CASE PresentsInVain(n)
  <2>1. \A m \in Names : /\ process[m] = "none" => process'[m] = "none"
                         /\ process[m] \in {"presented", "lost"}
                              => process'[m] \in {"presented", "lost"}
    BY <1>2 DEF PresentsInVain, Typed
  <2> QED
    BY <1>2, <2>1, ProcessAlone DEF PresentsInVain
<1>3. CASE WireLost(n)
  BY <1>3 DEF WireLost, Up, BusOpen
<1>4. CASE Dies(n)
  BY <1>4, KilledKeeps, ProcessAlone DEF Dies
<1>5. CASE BeatKills(n)
  <2>1. PICK pid : pid = worker[n].pid
    OBVIOUS
  <2>2. \A m \in Names : /\ worker'[m].listed = worker[m].listed
                         /\ worker'[m].state = worker[m].state
                         /\ worker'[m].connected = worker[m].connected
                         /\ worker'[m].admits = worker[m].admits
    BY <1>5 DEF BeatKills, Typed, Worker
  <2>3. process' = Killed(pid) /\ UNCHANGED <<counter, job, template>>
    BY <1>5, <2>1 DEF BeatKills
  <2> QED
    BY <2>2, <2>3, KilledKeeps, ProcessAlone
<1> QED
  BY <1>1, <1>2, <1>3, <1>4, <1>5

LEMMA PresentsKnown == ASSUME Typed, Known, Calm, NEW n \in Names, Presents(n) PROVE Known'
<1>1. /\ process[n] = "joined" /\ process'[n] = "presented" /\ worker[n].listed
      /\ \A m \in Names \ {n} : process'[m] = process[m]
  BY DEF Presents, Typed
<1>2. \A m \in Names : /\ worker'[m].listed = worker[m].listed
                       /\ worker'[m].state = worker[m].state
                       /\ worker'[m].connected = (worker[m].connected \/ m = n)
                       /\ worker'[m].admits = worker[m].admits
  <2>1. worker' = [worker EXCEPT ![n].connected = TRUE]
    BY DEF Presents
  <2>2. \A m \in Names : worker[m] \in Worker
    BY DEF Typed
  <2> QED
    BY <2>1, <2>2 DEF Typed, Worker
<1>3. \A t \in Tasks : /\ job'[t].name = job[t].name
                       /\ job'[t] = job[t] \/ (job'[t].phase = "woken" /\ job'[t].name = n)
  <2> SUFFICES ASSUME NEW t \in Tasks
               PROVE  /\ job'[t].name = job[t].name
                      /\ job'[t] = job[t] \/ (job'[t].phase = "woken" /\ job'[t].name = n)
    OBVIOUS
  <2>1. job[t] \in Job
    BY DEF Typed
  <2>2. CASE job[t].phase = "presenting" /\ job[t].name = n
    <3>1. job'[t] = [job[t] EXCEPT !.phase = "woken"]
      BY <2>2 DEF Presents
    <3> QED
      BY <2>1, <2>2, <3>1 DEF Job
  <2>3. CASE ~(job[t].phase = "presenting" /\ job[t].name = n)
    BY <2>3 DEF Presents
  <2> QED
    BY <2>2, <2>3
<1>4. OneLine'
  BY <1>1, <1>3, MintsNothing, SameNames DEF Presents
<1>5. Wired'
  BY <1>1, <1>2 DEF Known, Wired
<1>6. Waking'
  BY <1>2, <1>3 DEF Calm, Waking
<1>7. Manned'
  <2> SUFFICES ASSUME NEW m \in Names, worker'[m].listed PROVE Serves(m)'
    BY DEF Manned
  <2>1. Serves(m)
    BY <1>2 DEF Known, Manned
  <2>2. CASE \E t \in Tasks : job[t].name = m
    BY <1>3, <2>2 DEF Serves
  <2>3. CASE ~\E t \in Tasks : job[t].name = m
    BY <1>1, <1>2, <2>1, <2>3 DEF Serves
  <2> QED
    BY <2>2, <2>3
<1> QED
  BY <1>4, <1>5, <1>6, <1>7 DEF Known

\* The end of a wire: whoever served is known to be dead.
LEMMA LoseKnown == ASSUME Typed, Known, Calm, NEW n \in Names, Lose(n) PROVE Known'
<1>1. /\ process[n] = "lost" /\ process'[n] = "gone"
      /\ \A m \in Names \ {n} : process'[m] = process[m]
  BY DEF Lose, Typed
<1>2. /\ \A m \in Names : /\ worker'[m].listed = worker[m].listed
                          /\ worker'[m].admits = worker[m].admits
                          /\ m # n => worker'[m] = worker[m]
      /\ ~worker'[n].connected
      /\ worker'[n].state = IF worker[n].connected THEN "aborted" ELSE worker[n].state
  <2>1. worker[n] \in Worker
    BY DEF Typed
  <2>2. CASE worker[n].connected
    <3>1. worker' = [worker EXCEPT ![n].connected = FALSE, ![n].state = "aborted"]
      BY <2>2 DEF Lose, Known, Wired
    <3>2. worker' = [worker EXCEPT ![n] = [worker[n] EXCEPT !.connected = FALSE,
                                                            !.state = "aborted"]]
      BY <3>1 DEF Typed
    <3> QED
      BY <2>1, <2>2, <3>2 DEF Typed, Worker
  <2>3. CASE ~worker[n].connected
    BY <2>3 DEF Lose
  <2> QED
    BY <2>2, <2>3
<1>3. OneLine'
  BY <1>1, MintsNothing, SameNames DEF Lose
<1>4. Wired'
  BY <1>1, <1>2 DEF Known, Wired
<1>5. Manned'
  <2> SUFFICES ASSUME NEW m \in Names, worker'[m].listed PROVE Serves(m)'
    BY DEF Manned
  <2>1. Serves(m) /\ UNCHANGED job
    BY <1>2 DEF Known, Manned, Lose
  <2>2. CASE m = n
    BY <1>2, <2>1, <2>2 DEF Serves
  <2>3. CASE m # n
    BY <1>1, <1>2, <2>1, <2>3 DEF Serves
  <2> QED
    BY <2>2, <2>3
<1> QED
  BY <1>3, <1>4, <1>5, WakingStays DEF Known, Lose

LEMMA BuryKnown == ASSUME Typed, Known, Calm, NEW n \in Names, Bury(n) PROVE Known'
<1>1. worker[n] \in Worker
  BY DEF Typed
<1>2. /\ ~worker'[n].listed /\ ~worker'[n].connected
      /\ \A m \in Names \ {n} : worker'[m] = worker[m]
  BY <1>1 DEF Bury, Unlisted, OffTheBus, Typed, Worker
<1>3. OneLine'
  BY MintsNothing, SameNames DEF Bury
<1>4. Wired'
  BY <1>2 DEF Known, Wired, Bury
<1>5. Manned'
  BY <1>2 DEF Known, Manned, Serves, Bury
<1> QED
  BY <1>3, <1>4, <1>5, WakingStays DEF Known, Bury

LEMMA KnownInit == Init => Known
<1> SUFFICES ASSUME Init PROVE Known
  OBVIOUS
<1>1. \A k \in Names : template[k].asks = <<>> /\ process[k] = "none"
  BY DEF Init, NoTemplate
<1>2. \A t \in Tasks : job[t].name = None /\ job[t].phase = "idle"
  BY DEF Init, Idle
<1>3. \A n \in Names : ~worker[n].listed /\ ~worker[n].connected
  BY DEF Init, Absent
<1>4. OneLine
  BY <1>1, <1>2 DEF OneLine, NoLineTwice, NobodyTwice, NotYetAsked, Unforked, Summoning
<1> QED
  BY <1>2, <1>3, <1>4 DEF Known, Wired, Waking, Manned

\* Nothing brings a server back.
LEMMA UpBefore == ASSUME [Next]_vars, Up' PROVE Up
<1>1. ASSUME NEW t \in Tasks,
             Spawns(t) \/ Summons(t) \/ Asks(t) \/ AsksInVain(t) \/ TimesOut(t) \/ LaunchSteps(t)
      PROVE  UNCHANGED server
  BY <1>1 DEF Spawns, Summons, Asks, AsksInVain, TimesOut, LaunchSteps, Summoned, TakesAnswer,
     FindsPipeEnded, Launched, PresentationTimesOut, LetsGo
<1>2. ASSUME NEW k \in Names,
             \/ BuildFails(k) \/ Refuses(k) \/ TemplateDies(k) \/ TemplateKilled(k)
             \/ TemplateSteps(k)
      PROVE  UNCHANGED server
  BY <1>2 DEF BuildFails, Refuses, TemplateDies, TemplateKilled, TemplateSteps, Builds, Forks,
     TemplateLeaves
<1>3. ASSUME NEW n \in Names, Dies(n) \/ BeatKills(n) \/ Bury(n) \/ ProcessSteps(n)
      PROVE  UNCHANGED server
  BY <1>3 DEF Dies, BeatKills, Bury, ProcessSteps, Joins, Presents, PresentsInVain, WireLost,
     Lose
<1>4. CASE Leave
  BY <1>4 DEF Leave, Up
<1>5. CASE StopSteps \/ Crash
  BY <1>5 DEF StopSteps, BeginStop, CloseBus, StopTemplate, Exit, Crash, Ends, StopsWorker, Up
<1>6. CASE UNCHANGED vars
  BY <1>6 DEF vars, Up
<1> QED
  BY <1>1, <1>2, <1>3, <1>4, <1>5, <1>6 DEF Next, Up

LEMMA KnownStep ==
    ASSUME "flash" \notin Happens, Typed, Known, [Next]_vars, Up, Up' PROVE Known'
<1>1. ASSUME NEW t \in Tasks,
             Spawns(t) \/ Summons(t) \/ Asks(t) \/ AsksInVain(t) \/ TimesOut(t) \/ LaunchSteps(t)
      PROVE  Known'
  <2>1. CASE Launched(t)
    BY <2>1, LaunchedKnown
  <2>2. CASE ~Launched(t)
    <3>1. Calm
      BY <1>1, <2>2 DEF Calm, Settled, Spawns, Summons, Asks, AsksInVain, TimesOut, LaunchSteps,
         Summoned, TakesAnswer, FindsPipeEnded, PresentationTimesOut, LetsGo
    <3>2. CASE TimesOut(t) \/ LetsGo(t) \/ FindsPipeEnded(t)
      BY <3>1, <3>2, FailsKnown DEF TimesOut, LetsGo, FindsPipeEnded
    <3> QED
      BY <1>1, <2>2, <3>1, <3>2, SpawnsKnown, SummonsKnown, AsksKnown, AsksInVainKnown,
         SummonedKnown, TakesAnswerKnown, PresentationTimesOutKnown DEF LaunchSteps
  <2> QED
    BY <2>1, <2>2
<1>2. ASSUME NEW k \in Names,
             \/ BuildFails(k) \/ Refuses(k) \/ TemplateDies(k) \/ TemplateKilled(k)
             \/ TemplateSteps(k)
      PROVE  Known'
  <2>1. Calm
    BY <1>2 DEF Calm, Settled, BuildFails, Refuses, TemplateDies, TemplateKilled, TemplateSteps,
       Builds, Forks, TemplateLeaves
  <2> QED
    BY <1>2, <2>1, TemplateStepsKnown DEF TemplateSteps
<1>3. ASSUME NEW n \in Names, Dies(n) \/ BeatKills(n) \/ Bury(n) \/ ProcessSteps(n)
      PROVE  Known'
  <2>1. Calm
    BY <1>3 DEF Calm, Settled, Dies, BeatKills, Bury, ProcessSteps, Joins, Presents,
       PresentsInVain, WireLost, Lose
  <2> QED
    BY <1>3, <2>1, ProcessStepsKnown, PresentsKnown, LoseKnown, BuryKnown DEF ProcessSteps
<1>4. CASE Leave
  <2>1. Calm /\ UNCHANGED <<counter, worker, job, process, template>>
    BY <1>4 DEF Leave, Calm, Settled
  <2> QED
    BY <2>1, LinesKept
<1>5. CASE StopSteps \/ Crash
  BY <1>5 DEF StopSteps, BeginStop, CloseBus, StopTemplate, Exit, Crash, Ends, StopsWorker, Up
<1>6. CASE UNCHANGED vars
  BY <1>6 DEF vars, Known, OneLine, NoLineTwice, NobodyTwice, NotYetAsked, Unforked, Asked,
     Summoning, Minted, Wired, Waking, Manned, Serves
<1> QED
  BY <1>1, <1>2, <1>3, <1>4, <1>5, <1>6 DEF Next

\* Whoever is in worker_handler_map is being launched by somebody, or is on the bus, or his
\* death is written where the round reads it, as long as a launch that a presentation woke
\* goes on before the loop hears that the process is lost (launch_process, on_child_lost,
\* the except of start_worker).
THEOREM NobodyIsAGhost == ASSUME "flash" \notin Happens PROVE Spec => []ListedServes
<1>1. Init => IInv
  BY TypedInit, KnownInit DEF IInv, Known
<1>2. IInv /\ [Next]_vars => IInv'
  BY TypedStep, KnownStep, UpBefore DEF IInv, Known
<1>3. IInv => ListedServes
  BY DEF IInv, ListedServes, Manned, Serves
<1> QED
  BY <1>1, <1>2, <1>3, PTL DEF Spec
=============================================================================
