------------------------- MODULE GroupPool_proofs -------------------------
(***************************************************************************)
(* What holds of a group for any users, policies, thresholds and number of *)
(* births, whatever dies, refuses or changes under it: who is placed is    *)
(* placed on a worker of the list, the admission of a worker follows the   *)
(* policy in force, one worker at a time is born for whoever waits, and a  *)
(* closure leaves somebody.                                                *)
(***************************************************************************)
EXTENDS GroupPool, FiniteSetTheorems, TLAPS

Handlers ==
    [state : States, wire : Wires, load : Loads \cup {0}, heat : Heats \cup {None},
     open : BOOLEAN, awaited : BOOLEAN]

\* TypeOK, cut where the actions cut it.
PoolTyped ==
    /\ worker \in [Names -> Handlers]
    /\ listed \subseteq Names
    /\ born \in 0 .. MaxBirths
PlacesTyped == place \in [Users -> Names \cup {Nobody}]
TasksTyped ==
    /\ ask \in [Users -> [phase : {"idle", "waiting", "launching"}, policy : Nat,
                          newborn : Names \cup {Nobody}]]
    /\ lock \in [holder : Users \cup {None, "round"}, queue : Seq(Users \cup {"round"})]
    /\ round \in [at : {"beats", "quit", "killed", "lock", "launch", "slim", "silence"},
                  order : {None, "close", "restart", "reception"},
                  target : Names \cup {Nobody}, policy : Nat, due : BOOLEAN]
GroupTyped ==
    /\ group \in [state : {"running", "saturated", "broken"}, woken : BOOLEAN,
                  pressure : {"past", "fresh"}, policy : Policies, generation : Nat,
                  beats : 0 .. Beats - 1]
    /\ machine \in {"roomy", "tight", "leaving"}
    /\ changes \in 0 .. MaxChanges
Typed == PoolTyped /\ PlacesTyped /\ TasksTyped /\ GroupTyped

Starters == {w \in Names : worker[w].state = "starting"}

\* The admission a handler has is the one a policy gives its temperature.
Follows(handler, policy) ==
    IF policy.close = None THEN handler.open
    ELSE handler.heat # None => /\ handler.heat > policy.close => ~handler.open
                                /\ handler.heat < policy.reopen => handler.open

\* A handler has a wire once its process has presented itself, and a photo from then on.
Sound(handler, policy) ==
    /\ handler.wire = "none" <=> handler.state \in {"none", "starting"}
    /\ handler.wire = "none" => handler.load = 0 /\ ~handler.awaited
    /\ handler.state \notin DeadStates => Follows(handler, policy)

\* The list holds exactly the handlers that stand for something, under names already given.
Listing ==
    \A w \in Names : IF w \in listed THEN worker[w].state # "none" /\ w <= born
                     ELSE worker[w] = Blank

AllSound == \A w \in Names : Sound(worker[w], Policy)
Pool == PoolTyped /\ Listing /\ AllSound

\* Nobody is placed on a worker that has not presented itself.
Housed == \A u \in Users : place[u] \in (listed \ Starters) \cup {Nobody}

\* Every worker being born has one launch behind it, and the lock says whose.
Births ==
    /\ \A u \in Users : lock.holder = u <=> ask[u].phase = "launching"
    /\ lock.holder = "round" <=> (round.at = "launch" /\ round.order = "reception")
    /\ \A u \in Users : ask[u].phase = "launching" => ask[u].newborn \in Starters
    /\ round.at = "launch" => round.target \in Starters /\ round.order \in {"restart", "reception"}
    /\ \A u \in Users : ask[u].phase = "launching" /\ round.at = "launch"
                            => ask[u].newborn # round.target
    /\ \A w \in Starters : \/ \E u \in Users : ask[u].phase = "launching" /\ ask[u].newborn = w
                           \/ round.at = "launch" /\ round.target = w

\* The round waits for the lock at most once, and does nothing else meanwhile.
Queued ==
    \A i \in 1 .. Len(lock.queue) :
        lock.queue[i] = "round" =>
            /\ round.at = "lock"
            /\ \A j \in 1 .. Len(lock.queue) : lock.queue[j] = "round" => j = i

Targeted == round.at \in {"quit", "killed"} => round.target \in Names

IInv == Pool /\ PlacesTyped /\ TasksTyped /\ GroupTyped /\ Housed /\ Births /\ Queued /\ Targeted

-----------------------------------------------------------------------------
(* The constants, and the least of a set of numbers.                       *)

LEMMA TypeOKIsTyped == TypeOK <=> Typed
BY DEF TypeOK, Typed, PoolTyped, PlacesTyped, TasksTyped, GroupTyped, Handlers

LEMMA Constants ==
    /\ None \notin Users /\ None \notin Nat /\ None # "round" /\ "round" \notin Users
    /\ Heats \subseteq Nat /\ Loads \subseteq Nat
    /\ FirstLoads \subseteq Loads /\ FirstLoads # {}
    /\ MaxBirths \in Nat /\ MaxBirths > 0 /\ MaxChanges \in Nat
    /\ Beats \in Nat /\ Beats > 0
BY PoolAssumption DEF PoolAssumption

LEMMA PolicyNumbers ==
    ASSUME NEW p \in Policies
    PROVE  /\ p.close \in Nat \cup {None} /\ p.reopen \in Nat
           /\ p.veto \in Nat /\ p.restart \in Nat /\ p.veto < p.restart
           /\ p.close # None => p.reopen < p.close
BY PoolAssumption DEF PoolAssumption, PolicyRecords

Below == {pair \in Nat \X Nat : pair[1] < pair[2]}

LEMMA BelowIsWellFounded == IsWellFoundedOn(Below, Nat)
<1>1. Below = OpToRel(<, Nat)
  BY DEF OpToRel, Below
<1> QED
  BY <1>1, NatLessThanWellFounded

\* Min of a set of numbers is in it, which the choice of a worker relies on.
LEMMA LeastExists ==
    ASSUME NEW S, S \subseteq Nat, S # {}
    PROVE  Min(S) \in S /\ \A n \in S : Min(S) <= n
<1>1. PICK m \in S : \A n \in S : ~ (<<n, m>> \in Below)
  BY BelowIsWellFounded, WFMin, Zenon
<1>2. ASSUME NEW n \in S PROVE m <= n
  <2>1. m \in Nat /\ n \in Nat
    OBVIOUS
  <2>2. n < m => <<n, m>> \in Below
    BY <2>1 DEF Below
  <2> QED
    BY <1>1, <2>1, <2>2
<1> QED
  BY <1>2 DEF Min

LEMMA BlankIsSound == Blank \in Handlers /\ \A p : Sound(Blank, p)
BY DEF Blank, Handlers, States, Wires, Sound, Follows, DeadStates

LEMMA NamesAreNumbers == Names \subseteq Nat /\ Nobody \notin Names /\ 1 \in Names
BY Constants DEF Names, Nobody

-----------------------------------------------------------------------------
(* What one handler may become.                                            *)

\* One handler changes: the pool stays sound if what it becomes is.
LEMMA OneHandlerChanges ==
    ASSUME Pool, NEW w \in listed, NEW h \in Handlers, Sound(h, Policy), h.state # "none",
           worker' = [worker EXCEPT ![w] = h], UNCHANGED <<listed, born>>, Policy' = Policy
    PROVE  Pool' /\ Starters' = (Starters \ {w}) \cup (IF h.state = "starting" THEN {w} ELSE {})
<1>1. w \in Names /\ worker' \in [Names -> Handlers]
  BY DEF Pool, PoolTyped
<1>2. PoolTyped'
  BY <1>1 DEF Pool, PoolTyped
<1>3. \A v \in Names : worker'[v] = IF v = w THEN h ELSE worker[v]
  BY <1>1 DEF Pool, PoolTyped
<1>4. Listing'
  BY <1>1, <1>3 DEF Pool, Listing
<1>5. AllSound'
  BY <1>3 DEF Pool, AllSound
<1> QED
  BY <1>1, <1>2, <1>3, <1>4, <1>5 DEF Pool, Starters

\* A process that has presented itself keeps its temperature and its admission, whatever
\* its wire shows and whether or not its end is read.
LEMMA PresentedChanges ==
    ASSUME Pool, NEW w \in Names, worker[w].wire # "none", NEW h \in Handlers,
           h.wire # "none", h.state = worker[w].state \/ h.state \in DeadStates,
           h.heat = worker[w].heat, h.open = worker[w].open,
           worker' = [worker EXCEPT ![w] = h], UNCHANGED <<listed, born>>, Policy' = Policy
    PROVE  Pool' /\ Starters' = Starters
<1>1. w \in listed
  BY DEF Pool, Listing, Blank
<1>2. Sound(worker[w], Policy) /\ worker[w].state \notin {"none", "starting"}
  BY DEF Pool, AllSound, Sound
<1>3. h.state \notin {"none", "starting"}
  BY <1>2 DEF DeadStates
<1>4. Sound(h, Policy)
  BY <1>2, <1>3 DEF Sound, Follows, DeadStates
<1>5. Pool' /\ Starters' = (Starters \ {w}) \cup (IF h.state = "starting" THEN {w} ELSE {})
  BY <1>1, <1>3, <1>4, OneHandlerChanges
<1> QED
  BY <1>2, <1>3, <1>5 DEF Starters

\* A birth takes a name nobody had, and what it leaves out of the list is blank.
LEMMA LaunchAddsOne ==
    ASSUME Pool, NEW remaining \in SUBSET listed, Starters \subseteq remaining,
           Launch(remaining), Policy' = Policy
    PROVE  /\ Pool'
           /\ born + 1 \in Names /\ born + 1 \notin listed /\ born + 1 \notin Starters
           /\ Starters' = Starters \cup {born + 1}
           /\ listed' = remaining \cup {born + 1}
<1>1. /\ born \in Nat /\ born < MaxBirths /\ born + 1 \in Names
      /\ listed \subseteq Names
  BY Constants DEF Launch, CanStart, Pool, PoolTyped, Names
<1>2. born + 1 \notin listed
  BY <1>1 DEF Pool, Listing
<1>3. born + 1 \notin Starters
  BY <1>1, <1>2 DEF Pool, Listing, Starters, Blank
<1> DEFINE new == [Blank EXCEPT !.state = "starting"]
<1>4. new \in Handlers /\ Sound(new, Policy) /\ new.state = "starting"
  BY DEF Blank, Handlers, States, Wires, Sound, Follows, DeadStates
<1>5. \A w \in Names : worker'[w] = IF w = born + 1 THEN new
                                    ELSE IF w \in remaining THEN worker[w] ELSE Blank
  BY DEF Launch
<1>6. worker' \in [Names -> Handlers]
  BY <1>4, BlankIsSound DEF Launch, Pool, PoolTyped
<1> HIDE DEF new
<1>7. born' = born + 1 /\ listed' = remaining \cup {born + 1}
  BY DEF Launch
<1>8. PoolTyped'
  BY <1>7, <1>1, <1>6, Constants DEF PoolTyped
<1>9. Listing'
  <2> SUFFICES ASSUME NEW w \in Names
               PROVE  IF w \in listed' THEN worker'[w].state # "none" /\ w <= born'
                      ELSE worker'[w] = Blank
    BY DEF Listing
  <2>1. CASE w = born + 1
    BY <1>7, <1>1, <1>4, <1>5, <2>1
  <2>2. CASE w # born + 1 /\ w \in remaining
    <3>1. worker[w].state # "none" /\ w <= born
      BY <2>2 DEF Pool, Listing
    <3> QED
      BY <1>1, <1>5, <2>2, <3>1, NamesAreNumbers DEF Launch
  <2>3. CASE w # born + 1 /\ w \notin remaining
    BY <1>5, <2>3 DEF Launch
  <2> QED
    BY <2>1, <2>2, <2>3
<1>10. AllSound'
  BY <1>4, <1>5, BlankIsSound DEF Pool, AllSound
<1>11. Starters' = Starters \cup {born + 1}
  <2>1. \A w \in Names : worker'[w].state = "starting" <=> w \in Starters \cup {born + 1}
    BY <1>3, <1>4, <1>5 DEF Starters, Blank
  <2> QED
    BY <1>1, <2>1 DEF Starters
<1> QED
  BY <1>1, <1>2, <1>3, <1>8, <1>9, <1>10, <1>11 DEF Pool, Launch

\* A newborn presents itself, or is taken out of the list.
LEMMA LaunchEnds ==
    ASSUME Pool, NEW w \in Starters, UNCHANGED born, Policy' = Policy,
           (Launched(w) /\ UNCHANGED listed) \/ Unlaunched(w)
    PROVE  Pool' /\ Starters' = Starters \ {w}
<1>1. w \in Names /\ w \in listed /\ worker[w].state = "starting" /\ worker[w] \in Handlers
  BY DEF Starters, Pool, PoolTyped, Listing, Blank
<1>2. CASE Launched(w) /\ UNCHANGED listed
  <2>1. PICK load \in FirstLoads :
           worker' = [worker EXCEPT ![w].state = "running", ![w].wire = "up", ![w].load = load]
    BY <1>2 DEF Launched
  <2> DEFINE h == [worker[w] EXCEPT !.state = "running", !.wire = "up", !.load = load]
  <2>2. worker' = [worker EXCEPT ![w] = h]
    BY <1>1, <2>1 DEF Pool, PoolTyped
  <2>3. h \in Handlers /\ h.state = "running" /\ h.wire = "up" /\ h.heat = worker[w].heat
        /\ h.open = worker[w].open
    BY <1>1, Constants DEF Handlers, States, Wires
  <2>4. Follows(worker[w], Policy)
    BY <1>1 DEF Pool, AllSound, Sound, DeadStates
  <2>5. Sound(h, Policy)
    BY <2>3, <2>4 DEF Sound, Follows
  <2> HIDE DEF h
  <2>6. Pool' /\ Starters' = (Starters \ {w}) \cup (IF h.state = "starting" THEN {w} ELSE {})
    BY <1>1, <1>2, <2>2, <2>3, <2>5, OneHandlerChanges
  <2> QED
    BY <2>3, <2>6
<1>3. CASE Unlaunched(w)
  <2>1. \A v \in Names : worker'[v] = IF v = w THEN Blank ELSE worker[v]
    BY <1>1, <1>3 DEF Unlaunched, Pool, PoolTyped
  <2>2. PoolTyped'
    BY <1>1, <1>3, BlankIsSound DEF Unlaunched, Pool, PoolTyped
  <2>3. Listing'
    BY <1>1, <1>3, <2>1 DEF Unlaunched, Pool, Listing
  <2>4. AllSound'
    BY <2>1, BlankIsSound DEF Pool, AllSound
  <2>5. Starters' = Starters \ {w}
    BY <2>1 DEF Starters, Blank
  <2> QED
    BY <2>2, <2>3, <2>4, <2>5 DEF Pool
<1> QED
  BY <1>2, <1>3

\* The judged: whoever lives has the admission the policy gives him, and nothing else moves.
LEMMA JudgedAgree ==
    ASSUME NEW read \in [Names -> Handlers], Policy \in Policies,
           \A w \in Names : \/ Sound(read[w], Policy)
                            \/ w \in Living /\ /\ read[w].wire = "none" <=> read[w].state \in {"none", "starting"}
                                               /\ read[w].wire = "none" => read[w].load = 0 /\ ~read[w].awaited
                                               /\ Policy.close = None => read[w].open
    PROVE  /\ Judged(read) \in [Names -> Handlers]
           /\ \A w \in Names : /\ Sound(Judged(read)[w], Policy)
                               /\ Judged(read)[w].state = read[w].state
                               /\ Judged(read)[w].load = read[w].load
                               /\ Judged(read)[w].wire = read[w].wire
                               /\ Judged(read)[w].awaited = read[w].awaited
                               /\ Judged(read)[w].heat = read[w].heat
                               /\ w \notin Living => Judged(read)[w] = read[w]
<1>1. CASE Policy.close = None
  <2>1. Judged(read) = read
    BY <1>1 DEF Judged
  <2>2. \A w \in Names : Sound(read[w], Policy)
    BY <1>1 DEF Sound, Follows
  <2> QED
    BY <2>1, <2>2
<1>2. CASE Policy.close # None
  <2> DEFINE after(w) == IF w \in Living THEN [read[w] EXCEPT !.open = AdmissionOf(read[w], Policy)]
                         ELSE read[w]
  <2>1. Judged(read) = [w \in Names |-> after(w)]
    BY <1>2 DEF Judged
  <2>2. ASSUME NEW w \in Names
        PROVE  /\ after(w) \in Handlers /\ Sound(after(w), Policy)
               /\ after(w).state = read[w].state /\ after(w).load = read[w].load
               /\ after(w).wire = read[w].wire /\ after(w).awaited = read[w].awaited
               /\ after(w).heat = read[w].heat
    <3>1. read[w] \in Handlers
      OBVIOUS
    <3>2. CASE w \notin Living
      BY <2>2, <3>1, <3>2
    <3>3. CASE w \in Living
      <4>1. AdmissionOf(read[w], Policy) \in BOOLEAN
        BY <3>1 DEF AdmissionOf, Handlers
      <4>2. after(w) \in Handlers
        BY <3>1, <3>3, <4>1 DEF Handlers
      <4>3. /\ after(w).state = read[w].state /\ after(w).load = read[w].load
            /\ after(w).wire = read[w].wire /\ after(w).awaited = read[w].awaited
            /\ after(w).heat = read[w].heat /\ after(w).open = AdmissionOf(read[w], Policy)
        BY <3>1, <3>3 DEF Handlers
      <4>4. Follows(after(w), Policy)
        <5>1. read[w].heat = None \/ read[w].heat \in Nat
          BY <3>1, Constants DEF Handlers
        <5>2. Policy.close \in Nat /\ Policy.reopen \in Nat /\ Policy.reopen < Policy.close
          BY <1>2, PolicyNumbers
        <5>3. CASE read[w].heat = None
          BY <1>2, <4>3, <5>3 DEF Follows
        <5>4. CASE read[w].heat \in Nat
          <6>1. read[w].heat > Policy.close => ~AdmissionOf(read[w], Policy)
            BY <5>2, <5>4, Constants DEF AdmissionOf
          <6>2. read[w].heat < Policy.reopen => AdmissionOf(read[w], Policy)
            BY <5>2, <5>4, Constants DEF AdmissionOf
          <6> HIDE DEF after
          <6> QED
            BY <1>2, <4>3, <6>1, <6>2 DEF Follows
        <5> QED
          BY <5>1, <5>3, <5>4
      <4>5. Sound(after(w), Policy)
        BY <4>3, <4>4 DEF Sound
      <4> QED
        BY <4>2, <4>3, <4>5
    <3> QED
      BY <3>2, <3>3
  <2> QED
    BY <2>1, <2>2
<1> QED
  BY <1>1, <1>2

-----------------------------------------------------------------------------
(* Who is being born, and who waits for the lock.                          *)

\* Nothing begins and nothing ends: the births stand as they were.
LEMMA BirthsStand ==
    ASSUME Births, Starters' = Starters, lock'.holder = lock.holder,
           \A u \in Users : \/ ask'[u] = ask[u]
                            \/ ask[u].phase # "launching" /\ ask'[u].phase # "launching",
           round' = round \/ (round.at # "launch" /\ round'.at # "launch")
    PROVE  Births'
<1>1. CASE round' = round
  BY <1>1 DEF Births
<1>2. CASE round.at # "launch" /\ round'.at # "launch"
  BY <1>2 DEF Births
<1> QED
  BY <1>1, <1>2

\* A placement takes the lock and launches.
LEMMA PlacementBegins ==
    ASSUME Births, TasksTyped, NEW u \in Users, NEW b, NEW generation, b \notin Starters,
           lock.holder = None, lock'.holder = u, round' = round, Starters' = Starters \cup {b},
           ask' = [ask EXCEPT ![u] = [phase |-> "launching", policy |-> generation, newborn |-> b]]
    PROVE  Births'
<1>1. \A v \in Users : /\ ask[v].phase # "launching"
                       /\ ask'[v] = IF v = u THEN [phase |-> "launching", policy |-> generation, newborn |-> b]
                                    ELSE ask[v]
  BY Constants DEF Births, TasksTyped
<1>2. ~(round.at = "launch" /\ round.order = "reception")
  BY Constants DEF Births
<1>3. lock'.holder # "round"
  BY Constants
<1> QED
  BY <1>1, <1>2, <1>3 DEF Births

\* A placement whose launch is over gives the lock back.
LEMMA PlacementOver ==
    ASSUME Births, TasksTyped, NEW u \in Users, ask[u].phase = "launching",
           lock'.holder = None, round' = round, Starters' = Starters \ {ask[u].newborn},
           ask' = [ask EXCEPT ![u] = Idle]
    PROVE  Births'
<1>1. \A v \in Users : /\ ask[v].phase = "launching" => v = u
                       /\ ask'[v].phase # "launching"
  BY DEF Births, TasksTyped, Idle
<1>2. ~(round.at = "launch" /\ round.order = "reception")
  BY Constants DEF Births
<1> QED
  BY <1>1, <1>2, Constants DEF Births

\* The round launches, for a reception under the lock and for a restart without it.
LEMMA RoundBegins ==
    ASSUME Births, NEW b, b \notin Starters, ask' = ask, Starters' = Starters \cup {b},
           round.at # "launch", round'.at = "launch", round'.target = b,
           \/ round'.order = "reception" /\ lock.holder = None /\ lock'.holder = "round"
           \/ round'.order = "restart" /\ lock'.holder = lock.holder
    PROVE  Births'
<1>1. lock.holder # "round"
  BY DEF Births
<1>2. CASE round'.order = "reception" /\ lock.holder = None /\ lock'.holder = "round"
  <2>1. \A u \in Users : ask[u].phase # "launching"
    BY <1>2, Constants DEF Births
  <2> QED
    BY <1>2, <2>1, Constants DEF Births
<1>3. CASE round'.order = "restart" /\ lock'.holder = lock.holder
  BY <1>1, <1>3 DEF Births
<1> QED
  BY <1>2, <1>3

\* The round's launch is over.
LEMMA RoundOver ==
    ASSUME Births, ask' = ask, Starters' = Starters \ {round.target},
           round.at = "launch", round'.at # "launch",
           lock'.holder = IF round.order = "reception" THEN None ELSE lock.holder
    PROVE  Births'
<1>1. CASE round.order = "reception"
  <2>1. \A u \in Users : ask[u].phase # "launching"
    BY <1>1, Constants DEF Births
  <2> QED
    BY <1>1, <2>1, Constants DEF Births
<1>2. CASE round.order # "reception"
  BY <1>2 DEF Births
<1> QED
  BY <1>1, <1>2

\* The queue stands, and the round was not in it or goes on waiting.
LEMMA QueueStands ==
    ASSUME Queued, lock'.queue = lock.queue, round'.at = round.at \/ round.at # "lock"
    PROVE  Queued'
BY DEF Queued

\* The next in the queue is served: whoever is left was behind him.
LEMMA QueueServed ==
    ASSUME Queued, TasksTyped, lock.queue # <<>>, lock'.queue = Tail(lock.queue),
           round'.at = round.at \/ Head(lock.queue) = "round"
    PROVE  Queued'
<1> DEFINE q == lock.queue
<1>1. q \in Seq(Users \cup {"round"}) /\ q # <<>>
  BY DEF TasksTyped
<1>2. /\ Len(q) \in Nat /\ Len(q) > 0 /\ Len(Tail(q)) = Len(q) - 1 /\ Head(q) = q[1]
      /\ \A i \in 1 .. Len(Tail(q)) : Tail(q)[i] = q[i + 1]
  BY <1>1
<1>3. SUFFICES ASSUME NEW i \in 1 .. Len(Tail(q)), Tail(q)[i] = "round"
               PROVE  /\ round'.at = "lock"
                      /\ \A j \in 1 .. Len(Tail(q)) : Tail(q)[j] = "round" => j = i
  BY DEF Queued
<1>4. i + 1 \in 1 .. Len(q) /\ q[i + 1] = "round" /\ 1 \in 1 .. Len(q)
  BY <1>2, <1>3
<1>5. round.at = "lock" /\ \A j \in 1 .. Len(q) : q[j] = "round" => j = i + 1
  BY <1>4 DEF Queued
<1>6. Head(q) # "round"
  BY <1>2, <1>4, <1>5
<1>7. ASSUME NEW j \in 1 .. Len(Tail(q)), Tail(q)[j] = "round" PROVE j = i
  <2>1. j + 1 \in 1 .. Len(q) /\ q[j + 1] = "round"
    BY <1>2, <1>7
  <2> QED
    BY <1>5, <2>1
<1> QED
  BY <1>5, <1>6, <1>7

\* One more waits at the end of the queue; the round only when it was not there.
LEMMA QueueGrows ==
    ASSUME Queued, TasksTyped, NEW x \in Users \cup {"round"}, lock'.queue = Append(lock.queue, x),
           \/ x \in Users /\ round'.at = round.at
           \/ x = "round" /\ round.at # "lock" /\ round'.at = "lock"
    PROVE  Queued'
<1> DEFINE q == lock.queue
<1>1. /\ q \in Seq(Users \cup {"round"}) /\ Len(q) \in Nat
      /\ Len(Append(q, x)) = Len(q) + 1 /\ Append(q, x)[Len(q) + 1] = x
      /\ \A i \in 1 .. Len(q) : Append(q, x)[i] = q[i]
  BY DEF TasksTyped
<1>2. CASE x \in Users /\ round'.at = round.at
  <2>1. \A i \in 1 .. Len(q) + 1 : Append(q, x)[i] = "round" => i \in 1 .. Len(q) /\ q[i] = "round"
    BY <1>1, <1>2, Constants
  <2> QED
    BY <1>1, <1>2, <2>1 DEF Queued
<1>3. CASE x = "round" /\ round.at # "lock" /\ round'.at = "lock"
  <2>1. \A i \in 1 .. Len(q) : q[i] # "round"
    BY <1>3 DEF Queued
  <2>2. \A i \in 1 .. Len(q) + 1 : Append(q, x)[i] = "round" => i = Len(q) + 1
    BY <1>1, <2>1
  <2> QED
    BY <1>1, <1>3, <2>2 DEF Queued
<1> QED
  BY <1>2, <1>3

-----------------------------------------------------------------------------
(* The placements.                                                         *)

\* Whoever may take a user is on the list and has presented itself.
LEMMA CandidatesServe ==
    ASSUME PoolTyped, NEW open, NEW w \in Candidates(open)
    PROVE  w \in Names /\ w \in listed /\ w \in Living /\ worker[w].state = "running" /\ w \notin Starters
BY DEF Candidates, Admits, Living, Starters, PoolTyped

\* The last level ends the placement, on a worker closed for CPU or nowhere.
LEMMA FallbackEnds ==
    ASSUME GroupTyped, NEW u \in Users, NEW state \in {"running", "saturated", "broken"}, NEW grows,
           Fallback(u, state, grows), UNCHANGED <<machine, changes>>
    PROVE  /\ GroupTyped' /\ Policy' = Policy
           /\ ask' = [ask EXCEPT ![u] = Idle]
           /\ \/ place' = place
              \/ \E w \in Candidates(FALSE) : place' = [place EXCEPT ![u] = w]
<1>1. CASE \E w \in Candidates(FALSE) : Land(u, w) /\ group' = [group EXCEPT !.state = state]
  <2>1. GroupTyped' /\ Policy' = Policy
    BY <1>1 DEF GroupTyped, Policy
  <2> QED
    BY <1>1, <2>1 DEF Land
<1>2. CASE /\ ask' = [ask EXCEPT ![u] = Idle]
           /\ group' = [group EXCEPT !.state = IF grows THEN state ELSE "saturated", !.woken = TRUE]
           /\ UNCHANGED place
  <2>1. GroupTyped' /\ Policy' = Policy
    BY <1>2 DEF GroupTyped, Policy
  <2> QED
    BY <1>2, <2>1
<1> QED
  BY <1>1, <1>2 DEF Fallback

\* One user lands on a worker that serves, or nobody moves.
LEMMA LandingHouses ==
    ASSUME PlacesTyped, Housed, NEW u \in Users,
           listed \ Starters \subseteq listed' \ Starters',
           \/ place' = place
           \/ \E w \in Names : w \in listed' \ Starters' /\ place' = [place EXCEPT ![u] = w]
    PROVE  PlacesTyped' /\ Housed'
BY DEF PlacesTyped, Housed

LEMMA IdleIsTyped ==
    ASSUME TasksTyped, NEW u \in Users, ask' = [ask EXCEPT ![u] = Idle]
    PROVE  ask' \in [Users -> [phase : {"idle", "waiting", "launching"}, policy : Nat,
                               newborn : Names \cup {Nobody}]]
BY DEF TasksTyped, Idle

\* A turn under the lock: whoever it is for, everything but the queue stands after it.
LEMMA TurnKeeps ==
    ASSUME IInv, NEW u \in Users, NEW generation \in Nat, NEW queue \in Seq(Users \cup {"round"}),
           lock.holder = None, Turn(u, generation, queue), UNCHANGED <<round, machine, changes>>
    PROVE  /\ Pool' /\ PlacesTyped' /\ TasksTyped' /\ GroupTyped' /\ Housed' /\ Births'
           /\ lock'.queue = queue
<1> USE DEF IInv
<1>1. \A v \in Users : ask[v].phase # "launching"
  BY Constants DEF Births
<1>2. CASE /\ \E w \in Candidates(TRUE) : Land(u, w)
           /\ Free(queue)
           /\ UNCHANGED <<worker, listed, born, group>>
  <2>1. PICK w \in Candidates(TRUE) : Land(u, w)
    BY <1>2
  <2>2. Pool' /\ GroupTyped' /\ Starters' = Starters
    BY <1>2 DEF Pool, PoolTyped, Listing, AllSound, Policy, GroupTyped, Starters
  <2>3. w \in Names /\ w \in listed' \ Starters'
    BY <1>2, <2>2, CandidatesServe DEF Pool
  <2>4. PlacesTyped' /\ Housed'
    BY <1>2, <2>1, <2>2, <2>3, LandingHouses DEF Land
  <2>5. ask' = [ask EXCEPT ![u] = Idle] /\ lock' = [holder |-> None, queue |-> queue]
    BY <1>2, <2>1 DEF Land, Free
  <2>6. TasksTyped'
    BY <2>5, IdleIsTyped DEF TasksTyped
  <2>7. \A v \in Users : ask'[v] = ask[v] \/ (ask[v].phase # "launching" /\ ask'[v].phase # "launching")
    BY <1>1, <2>5 DEF TasksTyped, Idle
  <2>8. Births'
    BY <2>2, <2>5, <2>7, BirthsStand
  <2> QED
    BY <2>2, <2>4, <2>5, <2>6, <2>8
<1>3. CASE /\ Launch(listed)
           /\ ask' = [ask EXCEPT ![u] = [phase |-> "launching", policy |-> generation,
                                         newborn |-> born + 1]]
           /\ Hold(u, queue)
           /\ UNCHANGED <<place, group>>
  <2>1. Starters \subseteq listed
    BY DEF Starters, Pool, Listing, Blank
  <2>2. /\ Pool' /\ born + 1 \in Names /\ born + 1 \notin listed /\ born + 1 \notin Starters
        /\ Starters' = Starters \cup {born + 1} /\ listed' = listed \cup {born + 1}
    BY <1>3, <2>1, LaunchAddsOne DEF Policy
  <2>3. PlacesTyped' /\ Housed'
    BY <1>3, <2>2 DEF PlacesTyped, Housed
  <2>4. lock' = [holder |-> u, queue |-> queue]
    BY <1>3 DEF Hold
  <2>5. TasksTyped'
    BY <1>3, <2>2, <2>4 DEF TasksTyped
  <2>6. Births'
    BY <1>3, <2>2, <2>4, PlacementBegins
  <2> QED
    BY <1>3, <2>2, <2>3, <2>4, <2>5, <2>6 DEF GroupTyped
<1>4. ASSUME NEW state \in {"running", "saturated", "broken"}, Fallback(u, state, MayGrow),
             Free(queue), UNCHANGED <<worker, listed, born>>
      PROVE  /\ Pool' /\ PlacesTyped' /\ TasksTyped' /\ GroupTyped' /\ Housed' /\ Births'
             /\ lock'.queue = queue
  <2>1. /\ GroupTyped' /\ Policy' = Policy /\ ask' = [ask EXCEPT ![u] = Idle]
        /\ \/ place' = place
           \/ \E w \in Candidates(FALSE) : place' = [place EXCEPT ![u] = w]
    BY <1>4, FallbackEnds
  <2>2. Pool' /\ Starters' = Starters
    BY <1>4, <2>1 DEF Pool, PoolTyped, Listing, AllSound, Starters
  <2>3. \/ place' = place
        \/ \E w \in Names : w \in listed' \ Starters' /\ place' = [place EXCEPT ![u] = w]
    BY <1>4, <2>1, <2>2, CandidatesServe DEF Pool
  <2>4. PlacesTyped' /\ Housed'
    BY <1>4, <2>2, <2>3, LandingHouses
  <2>5. lock' = [holder |-> None, queue |-> queue]
    BY <1>4 DEF Free
  <2>6. TasksTyped'
    BY <2>1, <2>5, IdleIsTyped DEF TasksTyped
  <2>7. \A v \in Users : ask'[v] = ask[v] \/ (ask[v].phase # "launching" /\ ask'[v].phase # "launching")
    BY <1>1, <2>1 DEF TasksTyped, Idle
  <2>8. Births'
    BY <2>2, <2>5, <2>7, BirthsStand
  <2> QED
    BY <2>1, <2>2, <2>4, <2>5, <2>6, <2>8
<1>5. Unstarted \in {"running", "saturated", "broken"} /\ group.state \in {"running", "saturated", "broken"}
  BY DEF Unstarted, GroupTyped
<1>6. \/ /\ \E w \in Candidates(TRUE) : Land(u, w)
         /\ Free(queue)
         /\ UNCHANGED <<worker, listed, born, group>>
      \/ /\ Launch(listed)
         /\ ask' = [ask EXCEPT ![u] = [phase |-> "launching", policy |-> generation,
                                       newborn |-> born + 1]]
         /\ Hold(u, queue)
         /\ UNCHANGED <<place, group>>
      \/ /\ \E state \in {Unstarted, group.state} : Fallback(u, state, MayGrow)
         /\ Free(queue)
         /\ UNCHANGED <<worker, listed, born>>
  BY DEF Turn
<1> QED
  BY <1>2, <1>3, <1>4, <1>5, <1>6

LEMMA AskKeeps ==
    ASSUME IInv, NEW u \in Users, Ask(u)
    PROVE  IInv'
<1> USE DEF IInv
<1>1. UNCHANGED <<round, machine, changes>> /\ Targeted'
  BY DEF Ask, Targeted
<1>2. CASE lock.holder = None /\ lock.queue = <<>> /\ Turn(u, group.generation, <<>>)
  <2>1. group.generation \in Nat /\ <<>> \in Seq(Users \cup {"round"})
    BY DEF GroupTyped
  <2>2. /\ Pool' /\ PlacesTyped' /\ TasksTyped' /\ GroupTyped' /\ Housed' /\ Births'
        /\ lock'.queue = <<>>
    BY <1>1, <1>2, <2>1, TurnKeeps
  <2>3. Queued'
    BY <2>2 DEF Queued
  <2> QED
    BY <1>1, <2>2, <2>3
<1>3. CASE /\ ask[u].phase = "idle"
           /\ ask' = [ask EXCEPT ![u] = [phase |-> "waiting", policy |-> group.generation,
                                         newborn |-> Nobody]]
           /\ lock' = [lock EXCEPT !.queue = Append(@, u)]
           /\ UNCHANGED <<worker, listed, born, place, group>>
  <2>1. Pool' /\ PlacesTyped' /\ GroupTyped' /\ Housed' /\ Starters' = Starters
    BY <1>1, <1>3 DEF Pool, PoolTyped, Listing, AllSound, Policy, PlacesTyped, GroupTyped, Housed, Starters
  <2>2. group.generation \in Nat
    BY DEF GroupTyped
  <2>3. lock'.holder = lock.holder /\ lock'.queue = Append(lock.queue, u)
    BY <1>3 DEF TasksTyped
  <2>4. lock' \in [holder : Users \cup {None, "round"}, queue : Seq(Users \cup {"round"})]
    <3>1. lock \in [holder : Users \cup {None, "round"}, queue : Seq(Users \cup {"round"})]
      BY DEF TasksTyped
    <3>2. Append(lock.queue, u) \in Seq(Users \cup {"round"})
      BY <3>1
    <3> QED
      BY <1>3, <3>1, <3>2
  <2>5. TasksTyped'
    BY <1>1, <1>3, <2>2, <2>4 DEF TasksTyped
  <2>6. \A v \in Users : ask'[v] = ask[v] \/ (ask[v].phase # "launching" /\ ask'[v].phase # "launching")
    BY <1>3 DEF TasksTyped
  <2>7. Births'
    BY <1>1, <2>1, <2>3, <2>6, BirthsStand
  <2>8. Queued'
    BY <1>1, <2>3, QueueGrows
  <2> QED
    BY <1>1, <2>1, <2>5, <2>7, <2>8
<1> QED
  BY <1>2, <1>3 DEF Ask

LEMMA NextPlacementKeeps ==
    ASSUME IInv, NEW u \in Users, NextPlacement(u)
    PROVE  IInv'
<1> USE DEF IInv
<1>1. UNCHANGED <<round, machine, changes>> /\ Targeted'
  BY DEF NextPlacement, Targeted
<1>2. ask[u].policy \in Nat /\ Tail(lock.queue) \in Seq(Users \cup {"round"})
  BY DEF TasksTyped, NextPlacement
<1>3. /\ Pool' /\ PlacesTyped' /\ TasksTyped' /\ GroupTyped' /\ Housed' /\ Births'
      /\ lock'.queue = Tail(lock.queue)
  BY <1>1, <1>2, TurnKeeps DEF NextPlacement
<1>4. Queued'
  BY <1>1, <1>3, QueueServed DEF NextPlacement
<1> QED
  BY <1>1, <1>3, <1>4

LEMMA PlacementLaunchedKeeps ==
    ASSUME IInv, NEW u \in Users, PlacementLaunched(u)
    PROVE  IInv'
<1> USE DEF IInv
<1> DEFINE w == ask[u].newborn
<1>1. /\ ask[u].phase = "launching" /\ Launched(w) /\ Free(lock.queue)
      /\ UNCHANGED <<listed, born, round, machine, changes>>
  BY DEF PlacementLaunched
<1>2. w \in Starters /\ w \in Names /\ w \in listed
  BY <1>1 DEF Births, Starters, Pool, Listing, Blank
<1>3. /\ GroupTyped' /\ Policy' = Policy /\ ask' = [ask EXCEPT ![u] = Idle]
      /\ \/ place' = place
         \/ \E v \in {w} \cup Candidates(FALSE) : place' = [place EXCEPT ![u] = v]
  <2>1. CASE Land(u, w) /\ group' = [group EXCEPT !.state = "running"]
    BY <1>1, <2>1 DEF Land, GroupTyped, Policy
  <2>2. CASE Fallback(u, "running", Affordable(worker'))
    <3>1. /\ GroupTyped' /\ Policy' = Policy /\ ask' = [ask EXCEPT ![u] = Idle]
          /\ \/ place' = place
             \/ \E v \in Candidates(FALSE) : place' = [place EXCEPT ![u] = v]
      BY <1>1, <2>2, FallbackEnds
    <3> QED
      BY <3>1
  <2> QED
    BY <2>1, <2>2 DEF PlacementLaunched
<1>4. Pool' /\ Starters' = Starters \ {w}
  BY <1>1, <1>2, <1>3, LaunchEnds
<1>5. \/ place' = place
      \/ \E v \in Names : v \in listed' \ Starters' /\ place' = [place EXCEPT ![u] = v]
  BY <1>1, <1>2, <1>3, <1>4, CandidatesServe DEF Pool
<1>6. PlacesTyped' /\ Housed'
  BY <1>1, <1>4, <1>5, LandingHouses
<1>7. lock' = [holder |-> None, queue |-> lock.queue]
  BY <1>1 DEF Free
<1>8. TasksTyped'
  BY <1>1, <1>3, <1>7, IdleIsTyped DEF TasksTyped
<1>9. Births'
  BY <1>1, <1>3, <1>4, <1>7, PlacementOver
<1>10. Queued' /\ Targeted'
  BY <1>1, <1>7, QueueStands DEF Targeted
<1> QED
  BY <1>3, <1>4, <1>6, <1>8, <1>9, <1>10

LEMMA PlacementUnlaunchedKeeps ==
    ASSUME IInv, NEW u \in Users, PlacementUnlaunched(u)
    PROVE  IInv'
<1> USE DEF IInv
<1> DEFINE w == ask[u].newborn
<1>1. /\ ask[u].phase = "launching" /\ Unlaunched(w) /\ Fallback(u, "broken", MayGrow)
      /\ Free(lock.queue) /\ UNCHANGED <<born, round, machine, changes>>
  BY DEF PlacementUnlaunched
<1>2. w \in Starters
  BY <1>1 DEF Births
<1>3. /\ GroupTyped' /\ Policy' = Policy /\ ask' = [ask EXCEPT ![u] = Idle]
      /\ \/ place' = place
         \/ \E v \in Candidates(FALSE) : place' = [place EXCEPT ![u] = v]
  BY <1>1, FallbackEnds
<1>4. Pool' /\ Starters' = Starters \ {w} /\ listed' = listed \ {w}
  BY <1>1, <1>2, <1>3, LaunchEnds DEF Unlaunched
<1>5. \/ place' = place
      \/ \E v \in Names : v \in listed' \ Starters' /\ place' = [place EXCEPT ![u] = v]
  BY <1>2, <1>3, <1>4, CandidatesServe DEF Pool
<1>6. PlacesTyped' /\ Housed'
  BY <1>2, <1>4, <1>5, LandingHouses
<1>7. lock' = [holder |-> None, queue |-> lock.queue]
  BY <1>1 DEF Free
<1>8. TasksTyped'
  BY <1>1, <1>3, <1>7, IdleIsTyped DEF TasksTyped
<1>9. Births'
  BY <1>1, <1>3, <1>4, <1>7, PlacementOver
<1>10. Queued' /\ Targeted'
  BY <1>1, <1>7, QueueStands DEF Targeted
<1> QED
  BY <1>3, <1>4, <1>6, <1>8, <1>9, <1>10

LEMMA BaptiseKeeps ==
    ASSUME IInv, NEW u \in Users, Baptise(u)
    PROVE  IInv'
<1> USE DEF IInv
<1>1. /\ Living # {} /\ worker[Reception].wire = "up" /\ place' = [place EXCEPT ![u] = Reception]
      /\ UNCHANGED <<worker, listed, born, ask, lock, round, group, machine, changes>>
  BY DEF Baptise
<1>2. Reception \in Living
  <2>1. Living \subseteq Nat
    BY NamesAreNumbers DEF Living, Pool, PoolTyped
  <2> QED
    BY <1>1, <2>1, LeastExists DEF Reception
<1>3. Reception \in Names /\ Reception \in listed /\ Reception \notin Starters
  BY <1>1, <1>2 DEF Living, Pool, PoolTyped, AllSound, Sound, Starters
<1>4. Pool' /\ TasksTyped' /\ GroupTyped' /\ Starters' = Starters
  BY <1>1 DEF Pool, PoolTyped, Listing, AllSound, Policy, TasksTyped, GroupTyped, Starters
<1>5. PlacesTyped' /\ Housed'
  BY <1>1, <1>3, <1>4, LandingHouses
<1>6. Births'
  BY <1>1, <1>4, BirthsStand
<1>7. Queued' /\ Targeted'
  BY <1>1, QueueStands DEF Targeted
<1> QED
  BY <1>4, <1>5, <1>6, <1>7

\* Users go, and only their placements move.
LEMMA DeparturesKeep ==
    ASSUME IInv, \A u \in Users : place'[u] \in {place[u], Nobody},
           place' \in [Users -> Names \cup {Nobody}],
           UNCHANGED <<worker, listed, born, ask, lock, machine, changes>>,
           GroupTyped', Policy' = Policy, TasksTyped',
           round' = round \/ (round.at \notin {"launch", "lock"} /\ round'.at \notin {"launch", "quit", "killed"})
    PROVE  IInv'
<1> USE DEF IInv
<1>1. Pool' /\ Starters' = Starters
  BY DEF Pool, PoolTyped, Listing, AllSound, Starters
<1>2. PlacesTyped' /\ Housed'
  BY <1>1 DEF PlacesTyped, Housed
<1>3. Births'
  BY <1>1, BirthsStand
<1>4. Queued' /\ Targeted'
  BY QueueStands DEF Targeted
<1> QED
  BY <1>1, <1>2, <1>3, <1>4

LEMMA ParkedKeeps ==
    ASSUME IInv, NEW u \in Users, Parked(u) \/ PutToSleep(u)
    PROVE  IInv'
<1>1. /\ place' = [place EXCEPT ![u] = Nobody]
      /\ UNCHANGED <<worker, listed, born, ask, lock, round, group, machine, changes>>
  BY DEF Parked, PutToSleep
<1>2. (\A v \in Users : place'[v] \in {place[v], Nobody}) /\ place' \in [Users -> Names \cup {Nobody}]
  BY <1>1 DEF IInv, PlacesTyped
<1>3. GroupTyped' /\ Policy' = Policy /\ TasksTyped'
  BY <1>1 DEF IInv, GroupTyped, Policy, TasksTyped
<1> QED
  BY <1>1, <1>2, <1>3, DeparturesKeep

-----------------------------------------------------------------------------
(* The round.                                                              *)

\* Where the round may stand after a step that launches nothing.
LEMMA AtIsTyped ==
    ASSUME NEW step \in {"beats", "lock", "slim", "silence"}, At(step)
    PROVE  /\ round'.at = step
           /\ round' \in [at : {"beats", "quit", "killed", "lock", "launch", "slim", "silence"},
                          order : {None, "close", "restart", "reception"},
                          target : Names \cup {Nobody}, policy : Nat, due : BOOLEAN]
BY DEF At, Resting

\* Only the round moves on, and it neither launched nor waited.
LEMMA RoundMoves ==
    ASSUME IInv, Pool', Starters' = Starters, GroupTyped', TasksTyped', UNCHANGED <<listed, place, ask, lock>>,
           round.at \notin {"launch", "lock"}, round'.at # "launch", Targeted'
    PROVE  IInv'
<1> USE DEF IInv
<1>1. PlacesTyped' /\ Housed'
  BY DEF PlacesTyped, Housed
<1>2. Births'
  BY BirthsStand
<1>3. Queued'
  BY QueueStands
<1> QED
  BY <1>1, <1>2, <1>3

LEMMA RoundStartsKeeps ==
    ASSUME IInv, RoundStarts
    PROVE  IInv'
<1> USE DEF IInv
<1> DEFINE dead == listed \ Living
<1>1. /\ round.at = "silence" /\ Bury(dead) /\ listed' = Living
      /\ worker' = [w \in Names |-> IF w \in dead THEN Blank ELSE worker[w]]
      /\ group' = [group EXCEPT !.woken = FALSE, !.beats = (group.beats + 1) % Beats]
      /\ round' = [Resting EXCEPT !.at = "beats", !.due = group.woken \/ (group.beats + 1) % Beats = 0]
      /\ UNCHANGED <<born, ask, lock, machine, changes>>
  BY DEF RoundStarts
<1>2. (group.beats + 1) % Beats \in 0 .. Beats - 1
  BY Constants DEF GroupTyped
<1>3. GroupTyped' /\ Policy' = Policy
  BY <1>1, <1>2 DEF GroupTyped, Policy
<1>4. /\ worker' \in [Names -> Handlers] /\ listed' \subseteq Names
      /\ \A w \in Names : worker'[w] = IF w \in dead THEN Blank ELSE worker[w]
  BY <1>1, BlankIsSound DEF Pool, PoolTyped, Living
<1>5. Pool'
  <2>1. PoolTyped'
    BY <1>1, <1>4 DEF Pool, PoolTyped
  <2>2. Listing'
    BY <1>1, <1>4 DEF Pool, Listing, Living
  <2>3. AllSound'
    BY <1>3, <1>4, BlankIsSound DEF Pool, AllSound
  <2> QED
    BY <2>1, <2>2, <2>3 DEF Pool
<1>6. Starters' = Starters
  <2>1. \A w \in Names : worker'[w].state = "starting" <=> worker[w].state = "starting"
    BY <1>4 DEF Living, DeadStates, Blank
  <2> QED
    BY <2>1 DEF Starters
<1>7. PlacesTyped' /\ Housed'
  <2>1. \A u \in Users : place'[u] = IF place[u] \in dead THEN Nobody ELSE place[u]
    BY <1>1 DEF Bury
  <2>2. Housed'
    BY <1>1, <1>6, <2>1 DEF Housed, Living
  <2>3. PlacesTyped'
    BY <1>1 DEF Bury, PlacesTyped
  <2> QED
    BY <2>2, <2>3
<1>8. TasksTyped' /\ round'.at = "beats"
  BY <1>1 DEF TasksTyped, GroupTyped, Resting
<1>9. Births'
  BY <1>1, <1>6, <1>8, BirthsStand
<1>10. Queued' /\ Targeted'
  BY <1>1, <1>8, QueueStands DEF Targeted
<1> QED
  BY <1>3, <1>5, <1>7, <1>8, <1>9, <1>10

\* An order to quit goes to one that has presented itself, on top of a judgment.
LEMMA OrderQuitKeeps ==
    ASSUME IInv, NEW w \in listed, worker[w].wire # "none", NEW order \in {"close", "restart"},
           NEW workers \in [Names -> Handlers],
           \A v \in Names : /\ Sound(workers[v], Policy) /\ workers[v].state = worker[v].state
                            /\ workers[v].wire = worker[v].wire
                            /\ v \notin Living => workers[v] = worker[v],
           w \in Living, OrderQuit(w, order, workers), GroupTyped', Policy' = Policy,
           UNCHANGED <<listed, born, place, ask, lock, machine, changes>>,
           round.at \notin {"launch", "lock"}
    PROVE  IInv'
<1> USE DEF IInv
<1> DEFINE h == [workers[w] EXCEPT !.state = "quitting", !.awaited = TRUE]
<1>1. w \in Names
  BY DEF Pool, PoolTyped
<1>2. /\ h \in Handlers /\ h.state = "quitting" /\ h.wire = worker[w].wire
      /\ h.heat = workers[w].heat /\ h.open = workers[w].open
  BY <1>1 DEF Handlers, States
<1>3. Follows(workers[w], Policy)
  BY <1>1 DEF Sound, Living
<1>4. Sound(h, Policy)
  BY <1>2, <1>3 DEF Sound, Follows
<1>5. \A v \in Names : worker'[v] = IF v = w THEN h ELSE workers[v]
  BY <1>1 DEF OrderQuit
<1>6. worker' \in [Names -> Handlers]
  <2>1. worker' = [workers EXCEPT ![w] = h]
    BY <1>1 DEF OrderQuit
  <2> HIDE DEF h
  <2> QED
    BY <1>1, <1>2, <2>1
<1> HIDE DEF h
<1>7. Pool'
  <2>1. PoolTyped'
    BY <1>6 DEF Pool, PoolTyped
  <2>2. Listing'
    BY <1>2, <1>5 DEF Pool, Listing, Living
  <2>3. AllSound'
    BY <1>4, <1>5 DEF AllSound
  <2> QED
    BY <2>1, <2>2, <2>3 DEF Pool
<1>8. Starters' = Starters
  <2>1. worker[w].state # "starting"
    BY <1>1 DEF Pool, AllSound, Sound
  <2>2. \A v \in Names : worker'[v].state = "starting" <=> worker[v].state = "starting"
    BY <1>2, <1>5, <2>1
  <2> QED
    BY <2>2 DEF Starters
<1>9. TasksTyped' /\ round'.at = "quit" /\ round'.target = w
  BY <1>1 DEF TasksTyped, OrderQuit, Resting
<1>10. Targeted'
  BY <1>1, <1>9 DEF Targeted
<1> QED
  BY <1>7, <1>8, <1>9, <1>10, RoundMoves

LEMMA NotDueKeeps ==
    ASSUME IInv, NotDue
    PROVE  IInv'
<1>1. /\ round.at = "beats" /\ At("slim")
      /\ UNCHANGED <<worker, listed, born, place, ask, lock, group, machine, changes>>
  BY DEF NotDue
<1>2. Pool' /\ Starters' = Starters /\ GroupTyped' /\ TasksTyped'
  BY <1>1, AtIsTyped DEF IInv, Pool, PoolTyped, Listing, AllSound, Policy, Starters, GroupTyped, TasksTyped
<1>3. round'.at = "slim" /\ Targeted'
  BY <1>1, AtIsTyped DEF Targeted
<1> QED
  BY <1>1, <1>2, <1>3, RoundMoves

\* The coldest, the oldest: whoever is chosen of a set of names is one of them.
LEMMA LeastOfNames ==
    ASSUME NEW workers \in SUBSET Names, workers # {}
    PROVE  Min(workers) \in workers
BY LeastExists, NamesAreNumbers

LEMMA RestartSwollenKeeps ==
    ASSUME IInv, RestartSwollen
    PROVE  IInv'
<1> USE DEF IInv
<1>1. /\ round.at = "beats" /\ Swollen # {} /\ OrderQuit(Min(Swollen), "restart", worker)
      /\ UNCHANGED <<listed, born, place, ask, lock, group, machine, changes>>
  BY DEF RestartSwollen
<1> DEFINE w == Min(Swollen)
<1>2. w \in Swollen /\ w \in Names
  <2>1. Swollen \in SUBSET Names
    BY DEF Swollen, Living, Pool, PoolTyped
  <2> QED
    BY <1>1, <2>1, LeastOfNames
<1> HIDE DEF w
<1>3. worker[w].load > Policy.restart /\ Policy.restart \in Nat
  <2>1. Policy.restart \in Nat
    BY PolicyNumbers DEF GroupTyped, Policy
  <2> QED
    BY <1>2, <2>1 DEF Swollen
<1>4. worker[w].wire # "none"
  BY <1>2, <1>3 DEF Pool, AllSound, Sound
<1>5. w \in Living /\ w \in listed
  BY <1>2 DEF Swollen, Living
<1>6. GroupTyped' /\ Policy' = Policy
  BY <1>1 DEF GroupTyped, Policy
<1>7. worker \in [Names -> Handlers] /\ \A v \in Names : Sound(worker[v], Policy)
  BY DEF Pool, PoolTyped, AllSound
<1>8. OrderQuit(w, "restart", worker)
  BY <1>1 DEF w
<1> HIDE DEF IInv
<1> QED
  BY <1>1, <1>4, <1>5, <1>6, <1>7, <1>8, OrderQuitKeeps

\* The turn that may give birth to a reception.
LEMMA ReceptionTurnKeeps ==
    ASSUME IInv, NEW generation \in Nat, NEW queue \in Seq(Users \cup {"round"}),
           lock.holder = None, ReceptionTurn(generation, queue), UNCHANGED <<ask, machine, changes>>,
           round.at \notin {"launch"}
    PROVE  /\ Pool' /\ PlacesTyped' /\ TasksTyped' /\ GroupTyped' /\ Housed' /\ Births' /\ Targeted'
           /\ lock'.queue = queue /\ round'.at \in {"launch", "slim"}
<1> USE DEF IInv
<1>1. CASE /\ Launch(listed)
           /\ round' = [Resting EXCEPT !.at = "launch", !.order = "reception", !.target = born + 1]
           /\ Hold("round", queue)
           /\ UNCHANGED <<place, group>>
  <2>1. Starters \subseteq listed
    BY DEF Starters, Pool, Listing, Blank
  <2>2. /\ Pool' /\ born + 1 \in Names /\ born + 1 \notin listed /\ born + 1 \notin Starters
        /\ Starters' = Starters \cup {born + 1} /\ listed' = listed \cup {born + 1}
    BY <1>1, <2>1, LaunchAddsOne DEF Policy
  <2>3. PlacesTyped' /\ Housed' /\ GroupTyped'
    BY <1>1, <2>2 DEF PlacesTyped, Housed, GroupTyped
  <2>4. lock' = [holder |-> "round", queue |-> queue]
    BY <1>1 DEF Hold
  <2>5. TasksTyped' /\ round'.at = "launch" /\ round'.target = born + 1 /\ round'.order = "reception"
    BY <1>1, <2>2, <2>4 DEF TasksTyped, Resting
  <2>6. Births'
    BY <2>2, <2>4, <2>5, RoundBegins
  <2> QED
    BY <2>2, <2>3, <2>4, <2>5, <2>6 DEF Targeted
<1>2. CASE /\ group' = [group EXCEPT !.state = IF ~Missing(generation) THEN @ ELSE IF MayGrow THEN Unstarted
                                               ELSE "saturated"]
           /\ At("slim") /\ Free(queue)
           /\ UNCHANGED <<worker, listed, born, place>>
  <2>1. GroupTyped' /\ Policy' = Policy
    BY <1>2 DEF GroupTyped, Policy, Unstarted
  <2>2. Pool' /\ PlacesTyped' /\ Housed' /\ Starters' = Starters
    BY <1>2, <2>1 DEF Pool, PoolTyped, Listing, AllSound, PlacesTyped, Housed, Starters
  <2>3. lock' = [holder |-> None, queue |-> queue]
    BY <1>2 DEF Free
  <2>4. TasksTyped' /\ round'.at = "slim"
    BY <1>2, <2>3, AtIsTyped DEF TasksTyped
  <2>5. Births'
    BY <2>2, <2>3, <2>4, BirthsStand
  <2> QED
    BY <2>1, <2>2, <2>3, <2>4, <2>5 DEF Targeted
<1> QED
  BY <1>1, <1>2 DEF ReceptionTurn

LEMMA MissReceptionKeeps ==
    ASSUME IInv, MissReception
    PROVE  IInv'
<1> USE DEF IInv
<1>1. round.at = "beats" /\ UNCHANGED <<ask, machine, changes>>
  BY DEF MissReception
<1>2. CASE lock.holder = None /\ lock.queue = <<>> /\ ReceptionTurn(group.generation, <<>>)
  <2>1. group.generation \in Nat /\ <<>> \in Seq(Users \cup {"round"})
    BY DEF GroupTyped
  <2>2. /\ Pool' /\ PlacesTyped' /\ TasksTyped' /\ GroupTyped' /\ Housed' /\ Births' /\ Targeted'
        /\ lock'.queue = <<>>
    BY <1>1, <1>2, <2>1, ReceptionTurnKeeps
  <2> QED
    BY <2>2 DEF Queued
<1>3. CASE /\ round' = [Resting EXCEPT !.at = "lock", !.policy = group.generation]
           /\ lock' = [lock EXCEPT !.queue = Append(@, "round")]
           /\ UNCHANGED <<worker, listed, born, place, group>>
  <2>1. Pool' /\ PlacesTyped' /\ GroupTyped' /\ Housed' /\ Starters' = Starters
    BY <1>1, <1>3 DEF Pool, PoolTyped, Listing, AllSound, Policy, PlacesTyped, GroupTyped, Housed, Starters
  <2>2. round'.at = "lock" /\ Targeted'
    BY <1>3 DEF Resting, Targeted
  <2>3. /\ lock'.holder = lock.holder /\ lock'.queue = Append(lock.queue, "round")
        /\ lock' \in [holder : Users \cup {None, "round"}, queue : Seq(Users \cup {"round"})]
    <3>1. lock \in [holder : Users \cup {None, "round"}, queue : Seq(Users \cup {"round"})]
      BY DEF TasksTyped
    <3>2. Append(lock.queue, "round") \in Seq(Users \cup {"round"})
      BY <3>1
    <3> QED
      BY <1>3, <3>1, <3>2
  <2>4. TasksTyped'
    BY <1>1, <1>3, <2>3 DEF TasksTyped, GroupTyped, Resting
  <2>5. Births'
    BY <1>1, <2>1, <2>2, <2>3, BirthsStand
  <2>6. Queued'
    BY <1>1, <2>2, <2>3, QueueGrows
  <2> QED
    BY <2>1, <2>2, <2>4, <2>5, <2>6
<1> QED
  BY <1>2, <1>3 DEF MissReception

LEMMA NextReceptionKeeps ==
    ASSUME IInv, NextReception
    PROVE  IInv'
<1> USE DEF IInv
<1>1. /\ lock.holder = None /\ lock.queue # <<>> /\ Head(lock.queue) = "round"
      /\ ReceptionTurn(round.policy, Tail(lock.queue)) /\ UNCHANGED <<ask, machine, changes>>
  BY DEF NextReception
<1>2. round.policy \in Nat /\ lock.queue \in Seq(Users \cup {"round"})
      /\ Tail(lock.queue) \in Seq(Users \cup {"round"})
  BY <1>1 DEF TasksTyped
<1>3. 1 \in 1 .. Len(lock.queue) /\ lock.queue[1] = "round"
  BY <1>1, <1>2
<1>4. round.at = "lock"
  BY <1>3 DEF Queued
<1>5. /\ Pool' /\ PlacesTyped' /\ TasksTyped' /\ GroupTyped' /\ Housed' /\ Births' /\ Targeted'
      /\ lock'.queue = Tail(lock.queue)
  BY <1>1, <1>2, <1>4, ReceptionTurnKeeps
<1>6. Queued'
  BY <1>1, <1>5, QueueServed
<1> QED
  BY <1>5, <1>6

\* The judgment of the round, on the temperatures as they are.
LEMMA JudgedHere ==
    ASSUME IInv
    PROVE  /\ Judged(worker) \in [Names -> Handlers]
           /\ \A w \in Names : /\ Sound(Judged(worker)[w], Policy)
                               /\ Judged(worker)[w].state = worker[w].state
                               /\ Judged(worker)[w].wire = worker[w].wire
                               /\ w \notin Living => Judged(worker)[w] = worker[w]
<1>1. worker \in [Names -> Handlers] /\ Policy \in Policies /\ \A w \in Names : Sound(worker[w], Policy)
  BY DEF IInv, Pool, PoolTyped, AllSound, GroupTyped, Policy
<1> QED
  BY <1>1, JudgedAgree

LEMMA PressureTyped == ASSUME IInv, NEW judged PROVE Pressure(judged) \in {"past", "fresh"}
BY DEF IInv, GroupTyped, Pressure

LEMMA ReadShapeKeeps ==
    ASSUME IInv, ReadShape
    PROVE  IInv'
<1> USE DEF IInv
<1> DEFINE judged == Judged(worker)
<1>1. /\ round.at = "beats"
      /\ group' = [group EXCEPT !.state = StateRead, !.pressure = Pressure(judged)]
      /\ UNCHANGED <<listed, born, place, ask, lock, machine, changes>>
  BY DEF ReadShape
<1>2. \/ /\ \A v \in Living : worker[v].heat # None
         /\ \E grown \in SUBSET Living : \E w \in Spare(grown) : OrderQuit(w, "close", judged)
      \/ worker' = judged /\ At("slim")
  BY DEF ReadShape
<1>3. /\ judged \in [Names -> Handlers]
      /\ \A w \in Names : /\ Sound(judged[w], Policy) /\ judged[w].state = worker[w].state
                          /\ judged[w].wire = worker[w].wire
                          /\ w \notin Living => judged[w] = worker[w]
  BY JudgedHere
<1>4. GroupTyped' /\ Policy' = Policy
  <2>1. Pressure(judged) \in {"past", "fresh"}
    BY PressureTyped
  <2> QED
    BY <1>1, <2>1 DEF GroupTyped, Policy, StateRead
<1> HIDE DEF judged
<1>5. ASSUME \A v \in Living : worker[v].heat # None,
             NEW grown \in SUBSET Living, NEW w \in Spare(grown), OrderQuit(w, "close", judged)
      PROVE  IInv'
  <2>1. w \in Living /\ worker[w].state = "running"
    <3> DEFINE candidates == Closable(grown)
    <3>1. candidates # {} /\ candidates \subseteq Living /\ candidates \subseteq Names
      BY DEF Spare, Closable, Living, Pool, PoolTyped
    <3>2. w = Min(Coldest(candidates))
      BY <3>1 DEF Spare
    <3>3. Coldest(candidates) # {}
      <4> DEFINE heats == {worker[v].heat : v \in candidates}
      <4>1. heats \subseteq Nat
        BY <1>5, <3>1, Constants DEF Pool, PoolTyped, Handlers
      <4>2. heats # {}
        BY <3>1
      <4> HIDE DEF heats
      <4>3. PICK least \in heats : \A heat \in heats : least <= heat
        BY <4>1, <4>2, LeastExists
      <4> USE DEF heats
      <4>4. PICK c \in candidates : worker[c].heat = least
        BY <4>3
      <4>5. c \in Coldest(candidates)
        BY <4>3, <4>4 DEF Coldest
      <4> QED
        BY <4>5
    <3>4. w \in candidates
      <4>1. Coldest(candidates) \in SUBSET Names
        BY <3>1 DEF Coldest
      <4>2. w \in Coldest(candidates)
        BY <3>2, <3>3, <4>1, LeastOfNames
      <4> QED
        BY <4>2 DEF Coldest
    <3> QED
      BY <3>1, <3>4 DEF Closable
  <2>2. w \in listed /\ worker[w].wire # "none"
    BY <2>1 DEF Living, Pool, PoolTyped, AllSound, Sound
  <2> HIDE DEF IInv
  <2> QED
    BY <1>1, <1>3, <1>4, <1>5, <2>1, <2>2, OrderQuitKeeps
<1>6. CASE worker' = judged /\ At("slim")
  <2>1. Pool' /\ Starters' = Starters
    BY <1>1, <1>3, <1>4, <1>6 DEF Pool, PoolTyped, Listing, AllSound, Starters, Living
  <2>2. TasksTyped' /\ round'.at = "slim" /\ Targeted'
    BY <1>1, <1>6, AtIsTyped DEF TasksTyped, Targeted
  <2> QED
    BY <1>1, <1>4, <2>1, <2>2, RoundMoves
<1> QED
  BY <1>2, <1>5, <1>6

-----------------------------------------------------------------------------
(* The end of a departure.                                                 *)

\* The dead of a restart leaves the list, and another is born or the group is broken.
LEMMA ReplaceKeeps ==
    ASSUME IInv, NEW w \in Names, worker[w].state \in DeadStates, Replace(w),
           round.at \in {"quit", "killed"}, UNCHANGED <<ask, lock, machine, changes>>
    PROVE  IInv'
<1> USE DEF IInv
<1> DEFINE remaining == listed \ {w}
<1>1. Starters \subseteq remaining /\ remaining \in SUBSET listed
  BY DEF Starters, Pool, Listing, Blank, DeadStates
<1>2. /\ place' = [u \in Users |-> IF place[u] \in {w} THEN Nobody ELSE place[u]]
      /\ \A u \in Users : place'[u] \in (remaining \ Starters) \cup {Nobody}
  BY DEF Replace, Bury, Housed
<1>3. PlacesTyped'
  BY <1>2 DEF PlacesTyped
<1>4. CASE /\ Launch(remaining)
           /\ round' = [Resting EXCEPT !.at = "launch", !.order = "restart", !.target = born + 1]
           /\ UNCHANGED group
  <2>1. /\ Pool' /\ born + 1 \in Names /\ born + 1 \notin listed /\ born + 1 \notin Starters
        /\ Starters' = Starters \cup {born + 1} /\ listed' = remaining \cup {born + 1}
    BY <1>1, <1>4, LaunchAddsOne DEF Policy
  <2>2. Housed'
    BY <1>2, <2>1 DEF Housed
  <2>3. TasksTyped' /\ round'.at = "launch" /\ round'.target = born + 1 /\ round'.order = "restart"
    BY <1>4, <2>1 DEF TasksTyped, Resting
  <2>4. Births'
    BY <2>1, <2>3, RoundBegins
  <2>5. Queued' /\ Targeted'
    BY <2>3, QueueStands DEF Targeted
  <2> QED
    BY <1>3, <1>4, <2>1, <2>2, <2>3, <2>4, <2>5 DEF GroupTyped
<1>5. CASE /\ listed' = remaining
           /\ worker' = [worker EXCEPT ![w] = Blank]
           /\ group' = [group EXCEPT !.state = Unstarted]
           /\ At("slim") /\ UNCHANGED born
  <2>1. GroupTyped' /\ Policy' = Policy
    BY <1>5 DEF GroupTyped, Policy, Unstarted
  <2>2. worker' \in [Names -> Handlers]
        /\ \A v \in Names : worker'[v] = IF v = w THEN Blank ELSE worker[v]
    BY <1>5, BlankIsSound DEF Pool, PoolTyped
  <2>3. Pool'
    <3>1. PoolTyped'
      BY <1>5, <2>2 DEF Pool, PoolTyped
    <3>2. Listing'
      BY <1>5, <2>2 DEF Pool, Listing
    <3>3. AllSound'
      BY <2>1, <2>2, BlankIsSound DEF Pool, AllSound
    <3> QED
      BY <3>1, <3>2, <3>3 DEF Pool
  <2>4. Starters' = Starters
    <3>1. \A v \in Names : worker'[v].state = "starting" <=> worker[v].state = "starting"
      BY <2>2 DEF Blank, DeadStates
    <3> QED
      BY <3>1 DEF Starters
  <2>5. Housed'
    BY <1>2, <1>5, <2>4 DEF Housed
  <2>6. TasksTyped' /\ round'.at = "slim"
    BY <1>5, AtIsTyped DEF TasksTyped
  <2>7. Births' /\ Queued' /\ Targeted'
    BY <2>4, <2>6, BirthsStand, QueueStands DEF Targeted
  <2> QED
    BY <1>3, <2>1, <2>3, <2>5, <2>6, <2>7
<1> QED
  BY <1>4, <1>5 DEF Replace

LEMMA QuitEndsKeeps ==
    ASSUME IInv, QuitEnds \/ AfterKill
    PROVE  IInv'
<1>1. /\ round.at \in {"quit", "killed"} /\ NextAfterQuit /\ UNCHANGED <<ask, lock, machine, changes>>
      /\ round.target \in Names
  BY DEF QuitEnds, AfterKill, IInv, Targeted
<1>2. CASE worker[round.target].state \in DeadStates /\ Replace(round.target)
  BY <1>1, <1>2, ReplaceKeeps
<1>3. CASE At("slim") /\ UNCHANGED <<worker, listed, born, place, group>>
  <2>1. Pool' /\ Starters' = Starters /\ GroupTyped' /\ TasksTyped'
    BY <1>1, <1>3, AtIsTyped
       DEF IInv, Pool, PoolTyped, Listing, AllSound, Policy, Starters, GroupTyped, TasksTyped
  <2>2. round'.at = "slim" /\ Targeted'
    BY <1>3, AtIsTyped DEF Targeted
  <2> QED
    BY <1>1, <1>3, <2>1, <2>2, RoundMoves
<1> QED
  BY <1>1, <1>2, <1>3 DEF NextAfterQuit

LEMMA QuitRefusedKeeps ==
    ASSUME IInv, QuitRefused
    PROVE  IInv'
<1>1. /\ round.at = "quit" /\ At("slim")
      /\ UNCHANGED <<worker, listed, born, place, ask, lock, group, machine, changes>>
  BY DEF QuitRefused
<1>2. Pool' /\ Starters' = Starters /\ GroupTyped' /\ TasksTyped'
  BY <1>1, AtIsTyped
     DEF IInv, Pool, PoolTyped, Listing, AllSound, Policy, Starters, GroupTyped, TasksTyped
<1>3. round'.at = "slim" /\ Targeted'
  BY <1>1, AtIsTyped DEF Targeted
<1> QED
  BY <1>1, <1>2, <1>3, RoundMoves

LEMMA QuitOverdueKeeps ==
    ASSUME IInv, QuitOverdue
    PROVE  IInv'
<1> USE DEF IInv
<1> DEFINE w == round.target
           h == [worker[w] EXCEPT !.wire = "cut", !.awaited = FALSE]
<1>1. /\ round.at = "quit" /\ worker[w].wire = "up" /\ round' = [round EXCEPT !.at = "killed"]
      /\ worker' = [worker EXCEPT ![w].wire = "cut", ![w].awaited = FALSE]
      /\ UNCHANGED <<listed, born, place, ask, lock, group, machine, changes>>
  BY DEF QuitOverdue
<1>2. w \in Names /\ worker[w] \in Handlers
  BY <1>1 DEF Targeted, Pool, PoolTyped
<1>3. worker' = [worker EXCEPT ![w] = h]
  BY <1>1, <1>2 DEF Pool, PoolTyped
<1>4. /\ h \in Handlers /\ h.wire = "cut" /\ h.state = worker[w].state
      /\ h.heat = worker[w].heat /\ h.open = worker[w].open
  BY <1>2 DEF Handlers, Wires
<1>5. TasksTyped' /\ round'.at = "killed" /\ round'.target = w
  BY <1>1 DEF TasksTyped
<1>6. GroupTyped' /\ Policy' = Policy /\ Targeted'
  BY <1>1, <1>2, <1>5 DEF GroupTyped, Policy, Targeted
<1> HIDE DEF h
<1>7. Pool' /\ Starters' = Starters
  BY <1>1, <1>2, <1>3, <1>4, <1>6, PresentedChanges
<1> QED
  BY <1>1, <1>5, <1>6, <1>7, RoundMoves

LEMMA RoundLaunchEnds ==
    ASSUME IInv, RoundLaunched \/ RoundUnlaunched
    PROVE  IInv'
<1> USE DEF IInv
<1> DEFINE w == round.target
<1>1. /\ round.at = "launch" /\ At("slim") /\ UNCHANGED <<born, place, ask, machine, changes>>
      /\ (Launched(w) /\ UNCHANGED listed) \/ Unlaunched(w)
      /\ IF round.order = "reception" THEN Free(lock.queue) ELSE UNCHANGED lock
      /\ \E state \in {"running", "broken"} : group' = [group EXCEPT !.state = state]
  BY DEF RoundLaunched, RoundUnlaunched
<1>2. w \in Starters
  BY <1>1 DEF Births
<1>3. GroupTyped' /\ Policy' = Policy
  BY <1>1 DEF GroupTyped, Policy
<1>4. Pool' /\ Starters' = Starters \ {w}
  BY <1>1, <1>2, <1>3, LaunchEnds
<1>5. listed' = listed \/ listed' = listed \ {w}
  BY <1>1 DEF Unlaunched
<1>6. PlacesTyped' /\ Housed'
  BY <1>1, <1>2, <1>4, <1>5 DEF PlacesTyped, Housed
<1>7. /\ lock'.queue = lock.queue
      /\ lock'.holder = IF round.order = "reception" THEN None ELSE lock.holder
      /\ lock' \in [holder : Users \cup {None, "round"}, queue : Seq(Users \cup {"round"})]
  BY <1>1 DEF Free, TasksTyped
<1>8. TasksTyped' /\ round'.at = "slim"
  BY <1>1, <1>7, AtIsTyped DEF TasksTyped
<1>9. Births'
  BY <1>1, <1>4, <1>7, <1>8, RoundOver
<1>10. Queued' /\ Targeted'
  BY <1>1, <1>7, <1>8, QueueStands DEF Targeted
<1> QED
  BY <1>3, <1>4, <1>6, <1>8, <1>9, <1>10

LEMMA OffloadKeeps ==
    ASSUME IInv, Offload
    PROVE  IInv'
<1> USE DEF IInv
<1>1. /\ round.at = "slim" /\ round' = Resting
      /\ UNCHANGED <<worker, listed, born, ask, lock, machine, changes>>
  BY DEF Offload
<1>2. /\ group' = group \/ group' = [group EXCEPT !.pressure = "fresh"]
      /\ place' = place \/ \E u \in Users : place' = [place EXCEPT ![u] = Nobody]
  BY DEF Offload, Placed
<1>3. (\A v \in Users : place'[v] \in {place[v], Nobody}) /\ place' \in [Users -> Names \cup {Nobody}]
  BY <1>2 DEF PlacesTyped
<1>4. GroupTyped' /\ Policy' = Policy /\ TasksTyped' /\ round'.at = "silence"
  BY <1>1, <1>2 DEF GroupTyped, Policy, TasksTyped, Resting
<1> QED
  BY <1>1, <1>3, <1>4, DeparturesKeep

-----------------------------------------------------------------------------
(* What changes under the group.                                           *)

\* Only the handlers, the group and what stands around it change.
LEMMA TasksStand ==
    ASSUME IInv, Pool', Starters' = Starters, GroupTyped', UNCHANGED <<listed, place, ask, lock, round>>
    PROVE  IInv'
<1> USE DEF IInv
<1>1. PlacesTyped' /\ Housed' /\ TasksTyped' /\ Targeted'
  BY DEF PlacesTyped, Housed, TasksTyped, Targeted
<1>2. Births' /\ Queued'
  BY BirthsStand, QueueStands
<1> QED
  BY <1>1, <1>2

LEMMA WireChanges ==
    ASSUME IInv, NEW w \in Names, Leaves(w) \/ Crash(w)
    PROVE  IInv'
<1> USE DEF IInv
<1> DEFINE h == [worker[w] EXCEPT !.wire = "cut"]
<1>1. /\ worker[w].wire = "up" /\ worker' = [worker EXCEPT ![w] = h]
      /\ UNCHANGED <<listed, born, place, ask, lock, round, group, machine>>
      /\ changes' = changes \/ (changes < MaxChanges /\ changes' = changes + 1)
  BY DEF Leaves, Crash, Change, Pool, PoolTyped
<1>2. /\ h \in Handlers /\ h.wire = "cut" /\ h.state = worker[w].state
      /\ h.heat = worker[w].heat /\ h.open = worker[w].open
  BY DEF Handlers, Wires, Pool, PoolTyped
<1>3. GroupTyped' /\ Policy' = Policy
  BY <1>1, Constants DEF GroupTyped, Policy
<1> HIDE DEF h
<1>4. Pool' /\ Starters' = Starters
  BY <1>1, <1>2, <1>3, PresentedChanges
<1> QED
  BY <1>1, <1>3, <1>4, TasksStand

LEMMA ReadEndKeeps ==
    ASSUME IInv, NEW w \in Names, ReadEnd(w)
    PROVE  IInv'
<1> USE DEF IInv
<1> DEFINE end == IF worker[w].awaited THEN "quitted" ELSE "aborted"
           h == [worker[w] EXCEPT !.wire = "gone", !.awaited = FALSE, !.state = end]
<1>1. /\ worker[w].wire = "cut" /\ worker' = [worker EXCEPT ![w] = h]
      /\ group' = [group EXCEPT !.woken = TRUE]
      /\ UNCHANGED <<listed, born, place, ask, lock, round, machine, changes>>
  BY DEF ReadEnd, Pool, PoolTyped
<1>2. /\ h \in Handlers /\ h.wire = "gone" /\ h.state \in DeadStates
      /\ h.heat = worker[w].heat /\ h.open = worker[w].open
  BY DEF Handlers, Wires, States, DeadStates, Pool, PoolTyped
<1>3. GroupTyped' /\ Policy' = Policy
  BY <1>1 DEF GroupTyped, Policy
<1> HIDE DEF h
<1>4. Pool' /\ Starters' = Starters
  BY <1>1, <1>2, <1>3, PresentedChanges
<1> QED
  BY <1>1, <1>3, <1>4, TasksStand

LEMMA PhotoKeeps ==
    ASSUME IInv, NEW w \in Names, Photo(w)
    PROVE  IInv'
<1> USE DEF IInv
<1>1. PICK load \in Loads : /\ worker' = [worker EXCEPT ![w].load = load]
                            /\ group' = [group EXCEPT !.woken = @ \/ load > Policy.restart]
  BY DEF Photo
<1>2. /\ worker[w].wire = "up" /\ changes < MaxChanges /\ changes' = changes + 1
      /\ UNCHANGED <<listed, born, place, ask, lock, round, machine>>
  BY DEF Photo, Change
<1> DEFINE h == [worker[w] EXCEPT !.load = load]
<1>3. worker' = [worker EXCEPT ![w] = h]
  BY <1>1 DEF Pool, PoolTyped
<1>4. /\ h \in Handlers /\ h.wire = "up" /\ h.state = worker[w].state
      /\ h.heat = worker[w].heat /\ h.open = worker[w].open
  BY <1>2 DEF Handlers, Pool, PoolTyped
<1>5. GroupTyped' /\ Policy' = Policy
  <2> DEFINE woken == group.woken \/ load > Policy.restart
  <2>1. woken \in BOOLEAN
    OBVIOUS
  <2>2. group' = [group EXCEPT !.woken = woken]
    BY <1>1
  <2> HIDE DEF woken
  <2>3. changes' \in 0 .. MaxChanges
    BY <1>2, Constants DEF GroupTyped
  <2> QED
    BY <1>2, <2>1, <2>2, <2>3 DEF GroupTyped, Policy
<1> HIDE DEF h
<1>6. Pool' /\ Starters' = Starters
  BY <1>2, <1>3, <1>4, <1>5, PresentedChanges
<1> QED
  BY <1>2, <1>5, <1>6, TasksStand

LEMMA SampleKeeps ==
    ASSUME IInv, NEW w \in Names, Sample(w)
    PROVE  IInv'
<1> USE DEF IInv
<1>1. /\ w \in Living /\ changes < MaxChanges /\ changes' = changes + 1
      /\ UNCHANGED <<listed, born, place, ask, lock, round, machine>>
  BY DEF Sample, Change
<1> DEFINE read(heat) == [v \in Names |->
                  IF worker[v].wire \in {"cut", "gone"} THEN [worker[v] EXCEPT !.heat = None]
                  ELSE IF v = w THEN [worker[v] EXCEPT !.heat = heat] ELSE worker[v]]
<1>2. PICK heat \in Heats \cup {None} :
          /\ worker' = Judged(read(heat)) /\ group' = [group EXCEPT !.pressure = Pressure(Judged(read(heat)))]
  BY DEF Sample
<1> DEFINE seen == read(heat)
           judged == Judged(seen)
<1>3. /\ seen \in [Names -> Handlers]
      /\ \A v \in Names : /\ seen[v].state = worker[v].state /\ seen[v].wire = worker[v].wire
                          /\ seen[v].load = worker[v].load /\ seen[v].awaited = worker[v].awaited
                          /\ seen[v].open = worker[v].open
                          /\ v \notin listed => seen[v] = worker[v]
  <2>1. ASSUME NEW v \in Names
        PROVE  /\ seen[v] \in Handlers
               /\ seen[v].state = worker[v].state /\ seen[v].wire = worker[v].wire
               /\ seen[v].load = worker[v].load /\ seen[v].awaited = worker[v].awaited
               /\ seen[v].open = worker[v].open
    BY DEF Pool, PoolTyped, Handlers
  <2>2. ASSUME NEW v \in Names, v \notin listed PROVE seen[v] = worker[v]
    BY <1>1, <2>2 DEF Pool, Listing, Blank, Living
  <2> QED
    BY <2>1, <2>2
<1> HIDE DEF seen
<1>4. Policy \in Policies
  BY DEF GroupTyped, Policy
<1>5. \A v \in Names : \/ Sound(seen[v], Policy)
                       \/ v \in Living /\ /\ seen[v].wire = "none" <=> seen[v].state \in {"none", "starting"}
                                          /\ seen[v].wire = "none" => seen[v].load = 0 /\ ~seen[v].awaited
                                          /\ Policy.close = None => seen[v].open
  <2> TAKE v \in Names
  <2>1. Sound(worker[v], Policy)
    BY DEF Pool, AllSound
  <2>2. CASE v \in Living
    BY <1>3, <2>1, <2>2 DEF Living, Sound, Follows
  <2>3. CASE v \in listed /\ worker[v].state \in DeadStates
    BY <1>3, <2>1, <2>3 DEF Sound
  <2>4. CASE v \notin listed
    BY <1>3, <2>1, <2>4
  <2> QED
    BY <2>2, <2>3, <2>4 DEF Living
<1>6. /\ judged \in [Names -> Handlers]
      /\ \A v \in Names : /\ Sound(judged[v], Policy)
                          /\ judged[v].state = worker[v].state
                          /\ v \notin listed => judged[v] = worker[v]
  <2>1. /\ judged \in [Names -> Handlers]
        /\ \A v \in Names : /\ Sound(judged[v], Policy) /\ judged[v].state = seen[v].state
                            /\ v \notin Living => judged[v] = seen[v]
    BY <1>3, <1>4, <1>5, JudgedAgree
  <2> QED
    BY <1>3, <2>1 DEF Living
<1>7. GroupTyped' /\ Policy' = Policy
  <2>1. Pressure(judged) \in {"past", "fresh"}
    BY PressureTyped
  <2>2. group' = [group EXCEPT !.pressure = Pressure(judged)]
    BY <1>2 DEF seen
  <2> QED
    BY <1>1, <2>1, <2>2, Constants DEF GroupTyped, Policy
<1>8. worker' = judged
  BY <1>2 DEF seen
<1> HIDE DEF judged
<1>9. Pool' /\ Starters' = Starters
  BY <1>1, <1>6, <1>7, <1>8 DEF Pool, PoolTyped, Listing, AllSound, Starters
<1> QED
  BY <1>1, <1>7, <1>9, TasksStand

LEMMA ApplyKeeps ==
    ASSUME IInv, Apply
    PROVE  IInv'
<1> USE DEF IInv
<1>1. /\ changes < MaxChanges /\ changes' = changes + 1
      /\ UNCHANGED <<listed, born, place, ask, lock, round, machine>>
  BY DEF Apply, Change
<1> DEFINE reconciled(policy) == [w \in Names |->
                  IF w \in listed THEN [worker[w] EXCEPT !.open = AdmissionUnder(worker[w], policy)]
                  ELSE worker[w]]
<1>2. PICK policy \in Policies :
          /\ worker' = reconciled(policy)
          /\ group' = [group EXCEPT !.policy = policy, !.generation = @ + 1, !.woken = TRUE,
                 !.pressure = IF policy.close = None THEN @ ELSE Pressure(reconciled(policy))]
  BY DEF Apply
<1>3. GroupTyped' /\ Policy' = policy
  <2> DEFINE pressure == IF policy.close = None THEN group.pressure ELSE Pressure(reconciled(policy))
  <2>1. pressure \in {"past", "fresh"}
    BY PressureTyped DEF GroupTyped
  <2>2. group' = [group EXCEPT !.policy = policy, !.generation = group.generation + 1, !.woken = TRUE,
                               !.pressure = pressure]
    BY <1>2
  <2> HIDE DEF pressure
  <2>3. group.generation + 1 \in Nat /\ changes' \in 0 .. MaxChanges
    BY <1>1, Constants DEF GroupTyped
  <2> QED
    BY <1>1, <2>1, <2>2, <2>3 DEF GroupTyped, Policy
<1>4. ASSUME NEW w \in Names
      PROVE  /\ worker'[w] \in Handlers /\ Sound(worker'[w], policy)
             /\ worker'[w].state = worker[w].state
             /\ w \notin listed => worker'[w] = worker[w]
  <2> DEFINE open == AdmissionUnder(worker[w], policy)
             h == [worker[w] EXCEPT !.open = open]
  <2>1. worker[w] \in Handlers /\ Sound(worker[w], Policy)
    BY DEF Pool, PoolTyped, AllSound
  <2>2. CASE w \notin listed
    <3>1. worker'[w] = Blank /\ worker[w] = Blank
      BY <1>2, <2>2 DEF Pool, Listing
    <3> QED
      BY <2>1, <3>1, BlankIsSound
  <2>3. CASE w \in listed
    <3>1. worker'[w] = h
      BY <1>2, <2>3
    <3>2. open \in BOOLEAN
      BY <2>1 DEF AdmissionUnder, AdmissionOf, Handlers
    <3>3. /\ h \in Handlers /\ h.state = worker[w].state /\ h.wire = worker[w].wire
          /\ h.load = worker[w].load /\ h.awaited = worker[w].awaited
          /\ h.heat = worker[w].heat /\ h.open = open
      BY <2>1, <3>2 DEF Handlers
    <3>4. policy.close = None => open
      BY DEF AdmissionUnder
    <3>5. policy.close # None /\ worker[w].heat # None =>
              /\ worker[w].heat > policy.close => ~open
              /\ worker[w].heat < policy.reopen => open
      <4>1. worker[w].heat = None \/ worker[w].heat \in Nat
        BY <2>1, Constants DEF Handlers
      <4> QED
        BY <4>1, PolicyNumbers, Constants DEF AdmissionUnder, AdmissionOf
    <3> HIDE DEF h, open
    <3>6. Follows(h, policy)
      BY <3>3, <3>4, <3>5 DEF Follows
    <3> QED
      BY <2>1, <2>3, <3>1, <3>3, <3>6 DEF Sound
  <2> QED
    BY <2>2, <2>3
<1>5. worker' \in [Names -> Handlers]
  BY <1>2, <1>4
<1>6. Pool' /\ Starters' = Starters
  BY <1>1, <1>3, <1>4, <1>5 DEF Pool, PoolTyped, Listing, AllSound, Starters
<1> QED
  BY <1>1, <1>3, <1>6, TasksStand

LEMMA SurroundingsChange ==
    ASSUME IInv, MachineChanges \/ QuietPasses \/ UNCHANGED vars
    PROVE  IInv'
<1> USE DEF IInv
<1>1. UNCHANGED <<worker, listed, born, place, ask, lock, round>>
  BY DEF MachineChanges, QuietPasses, vars
<1>2. GroupTyped' /\ Policy' = Policy
  BY Constants DEF MachineChanges, QuietPasses, vars, Change, GroupTyped, Policy
<1>3. Pool' /\ Starters' = Starters
  BY <1>1, <1>2 DEF Pool, PoolTyped, Listing, AllSound, Starters
<1> QED
  BY <1>1, <1>2, <1>3, TasksStand

-----------------------------------------------------------------------------
(* The group as a whole.                                                   *)

LEMMA InitHolds == Init => IInv
<1> SUFFICES ASSUME Init PROVE IInv
  OBVIOUS
<1>1. PICK p \in Policies, heat \in Heats :
        LET first == [Blank EXCEPT !.state = "running", !.wire = "up", !.load = Min(FirstLoads),
                                   !.heat = heat]
        IN /\ worker = [w \in Names |-> IF w = 1 THEN [first EXCEPT !.open = AdmissionUnder(first, p)]
                                        ELSE Blank]
           /\ group = [state |-> "running", woken |-> FALSE, pressure |-> "past",
                       policy |-> p, generation |-> 0, beats |-> 0]
  BY DEF Init
<1>2. /\ listed = {1} /\ born = 1 /\ place = [u \in Users |-> Nobody]
      /\ ask = [u \in Users |-> Idle] /\ lock = [holder |-> None, queue |-> <<>>]
      /\ round = Resting /\ machine = "roomy" /\ changes = 0
  BY DEF Init
<1> DEFINE first == [Blank EXCEPT !.state = "running", !.wire = "up", !.load = Min(FirstLoads),
                                  !.heat = heat]
           open == AdmissionUnder(first, p)
           h == [first EXCEPT !.open = open]
<1>3. Min(FirstLoads) \in Loads
  <2>1. FirstLoads \subseteq Nat /\ FirstLoads # {}
    BY Constants
  <2> QED
    BY <2>1, LeastExists, Constants
<1>4. first \in Handlers /\ first.heat = heat /\ heat \in Nat /\ heat # None
  BY <1>3, Constants DEF Blank, Handlers, States, Wires
<1>5. open \in BOOLEAN
  BY <1>4 DEF AdmissionUnder, AdmissionOf, Handlers
<1>6. h \in Handlers /\ h.state = "running" /\ h.wire = "up" /\ h.heat = heat /\ h.open = open
  BY <1>3, <1>4, <1>5 DEF Blank, Handlers, States, Wires
<1>7. Policy = p /\ GroupTyped
  BY <1>1, <1>2, Constants DEF Policy, GroupTyped
<1>8. Sound(h, p)
  <2>1. p.close = None => open
    BY DEF AdmissionUnder
  <2>2. p.close # None => /\ heat > p.close => ~open
                          /\ heat < p.reopen => open
    BY <1>4, PolicyNumbers, Constants DEF AdmissionUnder, AdmissionOf
  <2> HIDE DEF h, open
  <2> QED
    BY <1>6, <2>1, <2>2 DEF Sound, Follows
<1>9. \A w \in Names : worker[w] = IF w = 1 THEN h ELSE Blank
  BY <1>1
<1>10. worker \in [Names -> Handlers]
  BY <1>1, <1>6, BlankIsSound
<1> HIDE DEF h
<1>11. Pool
  <2>1. PoolTyped
    BY <1>2, <1>10, NamesAreNumbers, Constants DEF PoolTyped
  <2>2. Listing
    BY <1>2, <1>6, <1>9 DEF Listing
  <2>3. AllSound
    BY <1>7, <1>8, <1>9, BlankIsSound DEF AllSound
  <2> QED
    BY <2>1, <2>2, <2>3 DEF Pool
<1>12. Starters = {}
  BY <1>6, <1>9 DEF Starters, Blank
<1>13. TasksTyped
  BY <1>2 DEF TasksTyped, Idle, Resting
<1>14. PlacesTyped /\ Housed
  BY <1>2 DEF PlacesTyped, Housed
<1>15. Births
  BY <1>2, <1>12, Constants DEF Births, Idle, Resting
<1>16. Queued /\ Targeted
  BY <1>2 DEF Queued, Targeted, Resting
<1> QED
  BY <1>7, <1>11, <1>13, <1>14, <1>15, <1>16 DEF IInv

LEMMA StepHolds == IInv /\ [Next]_vars => IInv'
<1> SUFFICES ASSUME IInv, [Next]_vars PROVE IInv'
  OBVIOUS
<1>1. ASSUME NEW u \in Users, Ask(u) \/ Baptise(u) \/ Parked(u) \/ PutToSleep(u) PROVE IInv'
  BY <1>1, AskKeeps, BaptiseKeeps, ParkedKeeps
<1>2. CASE Placement
  BY <1>2, NextPlacementKeeps, PlacementLaunchedKeeps, PlacementUnlaunchedKeeps DEF Placement
<1>3. CASE RoundStarts \/ Offload
  BY <1>3, RoundStartsKeeps, OffloadKeeps
<1>4. CASE Shape
  BY <1>4, NotDueKeeps, RestartSwollenKeeps, MissReceptionKeeps, NextReceptionKeeps, ReadShapeKeeps
     DEF Shape
<1>5. CASE Departure
  BY <1>5, QuitEndsKeeps, QuitRefusedKeeps, RoundLaunchEnds DEF Departure
<1>6. CASE Processes
  BY <1>6, QuitOverdueKeeps, WireChanges, ReadEndKeeps DEF Processes
<1>7. CASE Unasked
  BY <1>7, SampleKeeps, PhotoKeeps, WireChanges, ApplyKeeps, SurroundingsChange DEF Unasked
<1>8. CASE UNCHANGED vars
  BY <1>8, SurroundingsChange
<1> QED
  BY <1>1, <1>2, <1>3, <1>4, <1>5, <1>6, <1>7, <1>8 DEF Next, Round

\* The inductive invariant holds of every behaviour of the group.
THEOREM Invariant == Spec => []IInv
BY InitHolds, StepHolds, PTL DEF Spec

\* Every variable of the group keeps its shape.
THEOREM TypeCorrect == Spec => []TypeOK
<1>1. IInv => TypeOK
  BY TypeOKIsTyped DEF IInv, Typed, Pool
<1> QED
  BY <1>1, Invariant, PTL

\* Whoever is placed is placed on a worker of the list, however many wait, and whatever the
\* round buries meanwhile (assign_user against drop_worker).
THEOREM PlacementsAreListed == Spec => []PlacedIsListed
<1>1. IInv => PlacedIsListed
  BY DEF IInv, Housed, PlacedIsListed
<1> QED
  BY <1>1, Invariant, PTL

\* The admission of every living worker is the one the policy in force gives its
\* temperature, in whatever order samples, judgments and configurations come
\* (_judge_cpu_admission and apply_group_settings).
THEOREM AdmissionsFollow == Spec => []AdmissionFollows
<1>1. IInv => AdmissionFollows
  BY DEF IInv, Pool, PoolTyped, AllSound, Sound, Follows, Living, AdmissionFollows
<1> QED
  BY <1>1, Invariant, PTL

\* One worker at a time is being born for whoever waits for a place or a reception
\* (_placement_lock), the replacement of a restart apart.
THEOREM OneBirth == Spec => []OneBirthForAll
<1>1. ASSUME IInv PROVE OneBirthForAll
  <2> DEFINE replacing == IF round.at = "launch" /\ round.order = "restart" THEN {round.target} ELSE {}
             asked == {w \in listed : worker[w].state = "starting"} \ replacing
  <2>1. asked \subseteq Starters
    BY <1>1 DEF IInv, Pool, PoolTyped, Starters
  <2>2. \A v, w \in asked : v = w
    <3> SUFFICES ASSUME NEW v \in asked, NEW w \in asked PROVE v = w
      OBVIOUS
    <3>1. v \in Starters /\ w \in Starters
      BY <2>1
    <3>2. CASE lock.holder = "round"
      <4>1. \A u \in Users : ask[u].phase # "launching"
        BY <1>1, <3>2, Constants DEF IInv, Births
      <4> QED
        BY <1>1, <3>1, <4>1 DEF IInv, Births
    <3>3. CASE lock.holder # "round"
      <4>1. round.at = "launch" => replacing = {round.target}
        BY <1>1, <3>3 DEF IInv, Births
      <4>2. PICK u1 \in Users : ask[u1].phase = "launching" /\ ask[u1].newborn = v
        BY <1>1, <3>1, <4>1 DEF IInv, Births
      <4>3. PICK u2 \in Users : ask[u2].phase = "launching" /\ ask[u2].newborn = w
        BY <1>1, <3>1, <4>1 DEF IInv, Births
      <4>4. u1 = u2
        BY <1>1, <4>2, <4>3 DEF IInv, Births
      <4> QED
        BY <4>2, <4>3, <4>4
    <3> QED
      BY <3>2, <3>3
  <2>3. Cardinality(asked) <= 1
    <3>1. CASE asked = {}
      BY <3>1, FS_EmptySet
    <3>2. CASE asked # {}
      <4>1. PICK w \in asked : TRUE
        BY <3>2
      <4>2. asked = {w}
        BY <2>2, <4>1
      <4>3. Cardinality({w}) = 1
        BY FS_Singleton
      <4> HIDE DEF asked
      <4> QED
        BY <4>2, <4>3
    <3> QED
      BY <3>1, <3>2
  <2> QED
    BY <2>3 DEF OneBirthForAll
<1> QED
  BY <1>1, Invariant, PTL

\* A closure never takes away the last worker, whatever the temperatures and the photos it
\* judged by (_spare_worker).
THEOREM ClosuresLeaveSomebody == Spec => ClosureLeavesSomebody
<1> DEFINE Closing == round'.at = "quit" /\ round'.order = "close" /\ round.at # "quit"
           Somebody == \E w \in listed' : worker'[w].state \in {"starting", "running"}
<1>1. ASSUME IInv, Next, Closing PROVE Somebody
  <2>1. ReadShape
    <3>1. /\ \A u \in Users : /\ Ask(u) \/ Baptise(u) \/ Parked(u) \/ PutToSleep(u) => round' = round
                              /\ ~NextPlacement(u) \/ round' = round
                              /\ ~PlacementLaunched(u) \/ round' = round
                              /\ ~PlacementUnlaunched(u) \/ round' = round
          /\ \A w \in Names : Leaves(w) \/ ReadEnd(w) \/ Sample(w) \/ Photo(w) \/ Crash(w) => round' = round
          /\ MachineChanges \/ Apply \/ QuietPasses => round' = round
      BY DEF Ask, Baptise, Parked, PutToSleep, NextPlacement, PlacementLaunched, PlacementUnlaunched,
             Leaves, ReadEnd, Sample, Photo, Crash, MachineChanges, Apply, QuietPasses
    <3>2. round' # round
      BY <1>1
    <3>3. Round \/ QuitOverdue
      BY <1>1, <3>1, <3>2 DEF Next, Placement, Processes, Unasked
    <3>4. ~RoundStarts /\ ~Offload /\ ~QuitOverdue
      <4>1. RoundStarts => round'.at = "beats"
        BY DEF RoundStarts, Resting
      <4>2. Offload => round'.at = "silence"
        BY DEF Offload, Resting
      <4>3. QuitOverdue => round.at = "quit"
        BY DEF QuitOverdue
      <4> QED
        BY <1>1, <4>1, <4>2, <4>3
    <3>5. ~NotDue /\ ~RestartSwollen /\ ~MissReception /\ ~NextReception
      <4>1. NotDue => round'.at = "slim"
        BY DEF NotDue, At, Resting
      <4>2. RestartSwollen => round'.order = "restart"
        BY DEF RestartSwollen, OrderQuit, Resting
      <4>3. \A generation, queue : ReceptionTurn(generation, queue) => round'.at \in {"launch", "slim"}
        BY DEF ReceptionTurn, At, Resting
      <4>4. MissReception => round'.at \in {"launch", "slim", "lock"}
        BY <4>3 DEF MissReception, Resting
      <4>5. NextReception => round'.at \in {"launch", "slim"}
        BY <4>3 DEF NextReception
      <4> QED
        BY <1>1, <4>1, <4>2, <4>4, <4>5
    <3>6. ~Departure
      BY <1>1 DEF Departure, QuitEnds, QuitRefused, AfterKill, NextAfterQuit, Replace, RoundLaunched,
                  RoundUnlaunched, At, Resting
    <3> QED
      BY <3>3, <3>4, <3>5, <3>6 DEF Round, Shape
  <2> DEFINE judged == Judged(worker)
  <2>2. PICK grown \in SUBSET Living : \E w \in Spare(grown) : OrderQuit(w, "close", judged)
    <3>1. ~At("slim")
      BY <1>1 DEF At, Resting
    <3> QED
      BY <2>1, <3>1 DEF ReadShape
  <2>3. PICK w \in Spare(grown) : OrderQuit(w, "close", judged)
    BY <2>2
  <2>4. Absorbable(w)
    BY <2>3 DEF Spare
  <2>5. PICK v \in Living \ {w} : worker[v].state # "quitting"
    BY <2>4 DEF Absorbable
  <2>6. v \in Names /\ v \in listed /\ worker[v].state \in {"starting", "running"}
    BY <1>1, <2>5 DEF Living, IInv, Pool, PoolTyped, Listing, Handlers, States, DeadStates
  <2>7. judged \in [Names -> Handlers] /\ judged[v].state = worker[v].state
    BY <1>1, <2>6, JudgedHere
  <2>8. worker'[v] = judged[v]
    BY <2>3, <2>5, <2>6, <2>7 DEF OrderQuit
  <2>9. listed' = listed
    BY <2>1 DEF ReadShape
  <2> QED
    BY <2>6, <2>7, <2>8, <2>9
<1>2. IInv /\ [Next]_vars => [Closing => Somebody]_vars
  BY <1>1
<1> QED
  BY <1>2, Invariant, PTL DEF Spec, ClosureLeavesSomebody

=============================================================================
