------------------------ MODULE GlobalStore_proofs ------------------------
(***************************************************************************)
(* What holds of the global store for every number of workers, contexts,   *)
(* calls and keys: the turn in force works on the dictionary itself, what  *)
(* callers are told is honest, the whole protocol implements AtomicStore,  *)
(* and the lock is first come, first served.                               *)
(***************************************************************************)
EXTENDS GlobalStore, TLAPS

\* Where a caller and his call can be at the same time.
PhaseAndLane ==
    \A c \in Calls :
        /\ phase[c] \in {"idle", "inside", "done", "failed", "unconfirmed"} => lane[c] = "none"
        /\ phase[c] = "asking" => lane[c] \in {"ask", "parked", "answer", "error"}
        /\ phase[c] = "committing" => lane[c] \in {"commit", "answer", "error"}
        /\ phase[c] = "aborting" => lane[c] \in {"abort", "answer"}
        /\ phase[c] \in {"inside", "committing", "aborting"} => IsTurn(c)
        /\ lane[c] \in {"commit", "abort", "error"} => IsTurn(c)
        /\ lane[c] # "none" => connected[Home(c)]
        /\ phase[c] = "abandoned" => MayGiveUp

\* A turn that its caller is in, or is giving back, is the turn in force.
InForce ==
    /\ \A c \in Calls :
         /\ lane[c] \in {"commit", "abort"} => holder = c
         /\ phase[c] = "inside" /\ connected[Home(c)] => holder = c
         /\ phase[c] = "asking" /\ IsTurn(c) /\ lane[c] = "answer" => holder = c
    /\ holder # None => IsTurn(holder)

\* Which calls have reached the dictionary, by where they are.
AppliedWhere ==
    \A c \in Calls :
        /\ lane[c] \in {"ask", "parked", "commit", "abort", "error"} => c \notin applied
        /\ phase[c] \in {"idle", "inside", "aborting", "failed"} => c \notin applied
        /\ phase[c] = "asking" /\ IsTurn(c) => c \notin applied
        /\ (phase[c] = "committing" \/ (phase[c] = "asking" /\ ~IsTurn(c)))
             /\ lane[c] = "answer" /\ req[c].op # "get" => c \in applied
        /\ phase[c] = "done" /\ req[c].op # "get" => c \in applied

IInv ==
    /\ TypeOK /\ PhaseAndLane /\ InForce /\ AppliedWhere
    /\ TurnSeesTheDictionary /\ HolderIsConnected /\ HolderWillLetGo

\* The effect of a call on a dictionary is a dictionary.
LEMMA EffectType ==
    ASSUME req \in [Calls -> Requests], NEW c \in Calls,
           NEW reg \in [Keys -> Atomic!Values]
    PROVE  Atomic!Effect(c, reg) \in [Keys -> Atomic!Values]
BY DEF Atomic!Effect, Atomic!Values, Atomic!Updated

\* Reading leaves the dictionary as it is.
LEMMA GetEffect ==
    ASSUME NEW c \in Calls, req[c].op = "get", NEW reg \in [Keys -> Atomic!Values]
    PROVE  Atomic!Effect(c, reg) = reg
BY DEF Atomic!Effect

\* Every step keeps the variables in their types.
LEMMA TypeStep == TypeOK /\ [Next]_vars => TypeOK'
<1> SUFFICES ASSUME TypeOK, [Next]_vars PROVE TypeOK'
  OBVIOUS
<1> USE DEF TypeOK, Phases, Lanes
<1>1. ASSUME NEW c \in Calls, Place(c) PROVE TypeOK'
  BY <1>1 DEF Place
<1>2. ASSUME NEW c \in Calls, RefuseInsideTurn(c) PROVE TypeOK'
  BY <1>2 DEF RefuseInsideTurn
<1>3. ASSUME NEW c \in Calls, EndBody(c) PROVE TypeOK'
  BY <1>3 DEF EndBody
<1>4. ASSUME NEW c \in Calls, TakeAnswer(c) PROVE TypeOK'
  BY <1>4 DEF TakeAnswer
<1>5. ASSUME NEW c \in Calls, TakeError(c) PROVE TypeOK'
  BY <1>5 DEF TakeError
<1>6. ASSUME NEW c \in Calls, GiveUp(c) PROVE TypeOK'
  BY <1>6 DEF GiveUp
<1>7. ASSUME NEW c \in Calls, Serve(c)
      PROVE  /\ lane' \in [Calls -> Lanes]
             /\ holder' \in Calls \cup {None}
             /\ copy' \in [Calls -> [Keys -> Atomic!Values]]
             /\ register' \in [Keys -> Atomic!Values]
             /\ applied' \subseteq Calls
  <2>1. CASE ~IsTurn(c) /\ register' = Atomic!Effect(c, register)
    <3>1. register' \in [Keys -> Atomic!Values]
      BY <2>1, EffectType
    <3>2. QED BY <1>7, <2>1, <3>1 DEF Serve
  <2>2. CASE IsTurn(c)
    BY <1>7, <2>2 DEF Serve
  <2>3. QED BY <1>7, <2>1, <2>2 DEF Serve
<1>8. ASSUME NEW c \in Calls, Arrive(c) PROVE TypeOK'
  <2>1. CASE Serve(c) /\ UNCHANGED <<ticket, arrivals>>
    BY <1>7, <1>8, <2>1 DEF Arrive
  <2>2. CASE /\ lane' = [lane EXCEPT ![c] = "parked"]
             /\ ticket' = [ticket EXCEPT ![c] = arrivals]
             /\ arrivals' = arrivals + 1
             /\ UNCHANGED <<holder, copy, register, applied>>
    BY <1>8, <2>2 DEF Arrive
  <2>3. QED BY <1>8, <2>1, <2>2 DEF Arrive
<1>9. ASSUME NEW c \in Calls, WakeFirst(c) PROVE TypeOK'
  BY <1>7, <1>9 DEF WakeFirst
<1>10. ASSUME NEW c \in Calls, Unlock(c) PROVE TypeOK'
  <2>1. \A k \in Keys : Atomic!Updated(c, copy[c][k]) \in Atomic!Values
    BY <1>10 DEF Atomic!Updated, Atomic!Values
  <2>2. register' \in [Keys -> Atomic!Values] /\ applied' \subseteq Calls
    BY <1>10, <2>1 DEF Unlock
  <2>3. lane' \in [Calls -> Lanes] /\ holder' \in Calls \cup {None}
    BY <1>10 DEF Unlock
  <2>4. QED BY <1>10, <2>2, <2>3 DEF Unlock
<1>11. ASSUME NEW w \in Workers, Lose(w) PROVE TypeOK'
  <2>1. \A c \in Calls : ToldByTheWire(c) \in Phases
    BY DEF ToldByTheWire
  <2>2. QED BY <1>11, <2>1 DEF Lose, ReleaseWorkerLock
<1>12. CASE UNCHANGED vars
  BY <1>12 DEF vars
<1>13. QED
  BY <1>1, <1>2, <1>3, <1>4, <1>5, <1>6, <1>8, <1>9, <1>10, <1>11, <1>12
     DEF Next, CallNext, Settled

\* The variables start in their types.
LEMMA TypeInit == Init => TypeOK
BY DEF Init, TypeOK, Atomic!Values, Phases, Lanes

\* The variables stay in their types: the base of every other proof.
THEOREM TypeCorrect == Spec => []TypeOK
BY TypeInit, TypeStep, PTL DEF Spec

\* The strengthened invariant holds of the initial states.
LEMMA IInvInit == Init => IInv
<1> SUFFICES ASSUME Init PROVE IInv
  OBVIOUS
<1>1. TypeOK
  BY TypeInit
<1>2. QED
  BY <1>1 DEF Init, IInv, PhaseAndLane, InForce, AppliedWhere,
              TurnSeesTheDictionary, HolderIsConnected, HolderWillLetGo

\* What the commander does under the lock keeps the invariant, from a state
\* where the lock is free and the call is on its way up or parked.
LEMMA ServeStep ==
    ASSUME IInv, TypeOK', NEW c \in Calls, Serve(c),
           lane[c] \in {"ask", "parked"}, holder = None,
           UNCHANGED <<req, phase, connected>>
    PROVE  IInv'
<1> USE DEF TypeOK, IsTurn, Home
<1>a. phase[c] \in {"asking", "abandoned"} /\ connected[Home(c)]
  BY DEF IInv, PhaseAndLane, Phases
<1>b. /\ \A d \in Calls : d # c => lane'[d] = lane[d]
      /\ lane'[c] \in {"answer", "error"}
      /\ lane'[c] = "error" => IsTurn(c)
  BY DEF IInv, Serve
<1>1. /\ phase[c] \in {"asking", "abandoned"}
      /\ connected[Home(c)]
      /\ \A d \in Calls : d # c => lane'[d] = lane[d]
      /\ lane'[c] \in {"answer", "error"}
      /\ lane'[c] = "error" => IsTurn(c)
  BY <1>a, <1>b
<1>2. PhaseAndLane'
  BY <1>1 DEF IInv, PhaseAndLane
<1>3. InForce'
  <2>1. ASSUME NEW d \in Calls, d # c
        PROVE  /\ lane[d] \notin {"commit", "abort"}
               /\ ~(phase[d] = "inside" /\ connected[Home(d)])
               /\ ~(phase[d] = "asking" /\ IsTurn(d) /\ lane[d] = "answer")
    BY CallAssumption DEF IInv, InForce
  <2>2. phase[c] # "inside" /\ (IsTurn(c) => holder' = c) /\ (holder' # None => IsTurn(holder'))
    BY <1>1 DEF Serve
  <2>3. QED BY <1>1, <2>1, <2>2 DEF InForce
<1>4. applied' \subseteq applied \cup {c} /\ applied \subseteq applied'
  BY DEF Serve
<1>5. AppliedWhere'
  <2>1. ASSUME NEW d \in Calls, d # c
        PROVE  (d \in applied' <=> d \in applied) /\ holder' # d
    BY <2>1, <1>4, CallAssumption DEF Serve
  <2>2. CASE IsTurn(c)
    BY <1>1, <2>1, <2>2 DEF IInv, AppliedWhere, Serve
  <2>3. CASE ~IsTurn(c)
    BY <1>1, <2>1, <2>3 DEF IInv, AppliedWhere, Serve
  <2>4. QED BY <2>2, <2>3
<1>6. TurnSeesTheDictionary'
  BY DEF IInv, Serve, TurnSeesTheDictionary, Atomic!Scope
<1>7. HolderIsConnected'
  BY <1>1 DEF IInv, Serve, HolderIsConnected
<1>8. HolderWillLetGo'
  <2>1. CASE IsTurn(c)
    <3>1. holder' = c /\ (lane'[c] = "answer" \/ (MayOverflow /\ lane'[c] = "error"))
      BY <2>1 DEF IInv, Serve
    <3>2. phase[c] = "asking" \/ (MayGiveUp /\ phase[c] = "abandoned")
      BY <1>1 DEF IInv, PhaseAndLane
    <3>3. QED BY <3>1, <3>2 DEF HolderWillLetGo
  <2>2. CASE ~IsTurn(c)
    BY <2>2 DEF Serve, HolderWillLetGo
  <2>3. QED BY <2>1, <2>2
<1>9. QED BY <1>2, <1>3, <1>5, <1>6, <1>7, <1>8 DEF IInv

\* Every step keeps the strengthened invariant.
LEMMA IInvStep == IInv /\ [Next]_vars => IInv'
<1> SUFFICES ASSUME IInv, [Next]_vars PROVE IInv'
  OBVIOUS
<1>t. TypeOK /\ TypeOK'
  BY TypeStep DEF IInv
<1> USE DEF IInv, PhaseAndLane, InForce, AppliedWhere, TurnSeesTheDictionary,
            HolderIsConnected, HolderWillLetGo, IsTurn, Home, Atomic!Scope
<1>1. ASSUME NEW c \in Calls, Place(c) PROVE IInv'
  BY <1>1, <1>t DEF Place, TypeOK
<1>2. ASSUME NEW c \in Calls, RefuseInsideTurn(c) PROVE IInv'
  BY <1>2, <1>t DEF RefuseInsideTurn, TypeOK
<1>3. ASSUME NEW c \in Calls, EndBody(c) PROVE IInv'
  BY <1>3, <1>t DEF EndBody, TypeOK
<1>4. ASSUME NEW c \in Calls, TakeAnswer(c) PROVE IInv'
  BY <1>4, <1>t DEF TakeAnswer, TypeOK
<1>5. ASSUME NEW c \in Calls, TakeError(c) PROVE IInv'
  BY <1>5, <1>t DEF TakeError, TypeOK
<1>6. ASSUME NEW c \in Calls, GiveUp(c) PROVE IInv'
  BY <1>6, <1>t DEF GiveUp, Waiting, TypeOK
<1>7. ASSUME NEW c \in Calls, Arrive(c) PROVE IInv'
  <2>1. CASE holder = None /\ Serve(c)
    BY <1>7, <1>t, <2>1, ServeStep DEF Arrive
  <2>2. CASE lane' = [lane EXCEPT ![c] = "parked"] /\ UNCHANGED <<holder, copy, register, applied>>
    BY <1>7, <1>t, <2>2 DEF Arrive, TypeOK
  <2>3. QED BY <1>7, <2>1, <2>2 DEF Arrive
<1>8. ASSUME NEW c \in Calls, WakeFirst(c) PROVE IInv'
  BY <1>8, <1>t, ServeStep DEF WakeFirst
<1>9. ASSUME NEW c \in Calls, Unlock(c) PROVE IInv'
  <2>1. PhaseAndLane' /\ HolderIsConnected' /\ HolderWillLetGo' /\ TurnSeesTheDictionary'
    BY <1>9, <1>t DEF Unlock, TypeOK
  <2>2. InForce' /\ AppliedWhere'
    BY <1>9, <1>t, CallAssumption DEF Unlock, TypeOK
  <2>3. QED BY <1>t, <2>1, <2>2
<1>10. ASSUME NEW w \in Workers, Lose(w) PROVE IInv'
  BY <1>10, <1>t, CallAssumption DEF Lose, ToldByTheWire, ReleaseWorkerLock, Waiting, TypeOK
<1>11. CASE UNCHANGED vars
  BY <1>11 DEF vars, TypeOK
<1>12. QED
  BY <1>1, <1>2, <1>3, <1>4, <1>5, <1>6, <1>7, <1>8, <1>9, <1>10, <1>11
     DEF Next, CallNext, Settled

\* The strengthened invariant holds throughout.
THEOREM Invariance == Spec => []IInv
BY IInvInit, IInvStep, PTL DEF Spec

\* The turn in force works on the dictionary itself: no other call, simple or
\* turn, on the same key or on the whole, writes between grant and commit.
THEOREM TurnIsolation == Spec => []TurnSeesTheDictionary
<1>1. IInv => TurnSeesTheDictionary
  BY DEF IInv
<1>2. QED BY <1>1, Invariance, PTL

\* A caller told "done" wrote, a caller told "failed" did not and never will.
THEOREM HonestVerdicts == Spec => []VerdictIsHonest
<1>1. IInv => VerdictIsHonest
  BY DEF IInv, PhaseAndLane, AppliedWhere, VerdictIsHonest
<1>2. QED BY <1>1, Invariance, PTL

\* Every turn ends: no turn outlives the connection of its worker, and the lock
\* is held only by a turn on its way to an end, the two named leaks apart.
THEOREM TurnsEnd == Spec => []TurnWillEnd
<1>1. IInv => TurnWillEnd
  BY DEF IInv, TurnWillEnd
<1>2. QED BY <1>1, Invariance, PTL

-----------------------------------------------------------------------------
(* The protocol implements AtomicStore. *)

\* The initial states are initial states of the promise.
LEMMA AtomicInit == Init => Atomic!Init
BY DEF Init, Atomic!Init, verdict

\* What happens under the lock is one effect on the dictionary of that step.
LEMMA AtomicServe ==
    ASSUME IInv, NEW c \in Calls, Serve(c), lane[c] \in {"ask", "parked"},
           UNCHANGED <<req, phase>>
    PROVE  [Atomic!Next]_Atomic!storeVars
<1> USE DEF TypeOK
<1>1. verdict' = verdict
  BY DEF verdict
<1>2. CASE IsTurn(c)
  BY <1>1, <1>2 DEF Serve, Atomic!storeVars
<1>3. CASE req[c].op = "get"
  BY <1>1, <1>3, GetEffect DEF IInv, Serve, IsTurn, Atomic!storeVars
<1>4. CASE ~IsTurn(c) /\ req[c].op # "get"
  <2>1. c \notin applied /\ verdict[c] = "pending"
    BY DEF IInv, PhaseAndLane, AppliedWhere, verdict
  <2>2. Atomic!TakeEffect(c)
    BY <1>1, <1>4, <2>1 DEF Serve, Atomic!TakeEffect
  <2>3. QED BY <2>2 DEF Atomic!Next
<1>5. QED BY <1>2, <1>3, <1>4

\* A caller that is told something is told it truly.
LEMMA AtomicTell ==
    ASSUME IInv, IInv', NEW c \in Calls,
           NEW v \in {"done", "failed", "unconfirmed"},
           verdict[c] = "pending", phase' = [phase EXCEPT ![c] = v],
           UNCHANGED <<req, register, applied>>
    PROVE  Atomic!Next
<1>1. verdict' = [verdict EXCEPT ![c] = v]
  BY DEF IInv, TypeOK, verdict
<1>2. /\ v = "done" /\ req[c].op # "get" => c \in applied
      /\ v = "failed" => c \notin applied
  BY DEF IInv, TypeOK, AppliedWhere
<1>3. Atomic!Tell(c, v)
  BY <1>1, <1>2 DEF Atomic!Tell
<1>4. QED BY <1>3 DEF Atomic!Next

\* The callers that wait on a wire that fails learn it together.
LEMMA AtomicLose ==
    ASSUME IInv, NEW w \in Workers, Lose(w)
    PROVE  Atomic!Next
<1> DEFINE lost == {c \in Calls : Home(c) = w /\ Waiting(c)}
           told == [c \in lost |-> ToldByTheWire(c)]
<1>1. \A c \in lost : verdict[c] = "pending"
  BY DEF Waiting, verdict
<1>2. told \in [lost -> {"failed", "unconfirmed"}]
  BY DEF ToldByTheWire
<1>3. \A c \in lost : told[c] = "failed" => c \notin applied
  BY DEF IInv, AppliedWhere, ToldByTheWire, Waiting
<1>4. verdict' = [c \in Calls |-> IF c \in lost THEN told[c] ELSE verdict[c]]
  BY DEF Lose, ToldByTheWire, verdict, Waiting
<1>5. Atomic!WireLost(lost)
  BY <1>1, <1>2, <1>3, <1>4 DEF Lose, Atomic!WireLost
<1>6. QED BY <1>5 DEF Atomic!Next

\* Every step of the protocol is a step of the promise, or none.
LEMMA AtomicStep == IInv /\ IInv' /\ [Next]_vars => [Atomic!Next]_Atomic!storeVars
<1> SUFFICES ASSUME IInv, IInv', [Next]_vars
             PROVE  [Atomic!Next]_Atomic!storeVars
  OBVIOUS
<1> USE DEF Atomic!storeVars
<1>1. ASSUME NEW c \in Calls, Place(c) PROVE verdict' = verdict
  BY <1>1 DEF Place, verdict, IInv, TypeOK
<1>2. ASSUME NEW c \in Calls, RefuseInsideTurn(c) PROVE Atomic!Next
  BY <1>2, AtomicTell DEF RefuseInsideTurn, verdict
<1>3. ASSUME NEW c \in Calls, EndBody(c) PROVE Atomic!Next \/ verdict' = verdict
  <2>1. CASE connected[Home(c)]
    BY <1>3, <2>1 DEF EndBody, verdict, IInv, TypeOK
  <2>2. CASE ~connected[Home(c)]
    BY <1>3, <2>2, AtomicTell DEF EndBody, verdict
  <2>3. QED BY <2>1, <2>2
<1>4. ASSUME NEW c \in Calls, TakeAnswer(c) PROVE Atomic!Next \/ verdict' = verdict
  <2>1. CASE phase[c] = "asking" /\ IsTurn(c)
    BY <1>4, <2>1 DEF TakeAnswer, verdict, IInv, TypeOK
  <2>2. CASE phase[c] = "abandoned"
    BY <1>4, <2>2 DEF TakeAnswer, verdict, IInv, TypeOK
  <2>3. CASE phase[c] = "committing" \/ (phase[c] = "asking" /\ ~IsTurn(c))
    BY <1>4, <2>3, AtomicTell DEF TakeAnswer, verdict
  <2>4. CASE phase[c] = "aborting"
    BY <1>4, <2>4, AtomicTell DEF TakeAnswer, verdict
  <2>5. QED BY <1>4, <2>1, <2>2, <2>3, <2>4 DEF TakeAnswer
<1>5. ASSUME NEW c \in Calls, TakeError(c) PROVE Atomic!Next \/ verdict' = verdict
  <2>1. CASE phase[c] = "abandoned"
    BY <1>5, <2>1 DEF TakeError, verdict, IInv, TypeOK
  <2>2. CASE phase[c] # "abandoned"
    <3>1. verdict[c] = "pending"
      BY <1>5 DEF TakeError, verdict, IInv, PhaseAndLane
    <3>2. QED BY <1>5, <2>2, <3>1, AtomicTell DEF TakeError
  <2>3. QED BY <2>1, <2>2
<1>6. ASSUME NEW c \in Calls, GiveUp(c) PROVE verdict' = verdict
  BY <1>6 DEF GiveUp, Waiting, verdict, IInv, TypeOK
<1>7. ASSUME NEW c \in Calls, Arrive(c) PROVE [Atomic!Next]_Atomic!storeVars
  <2>1. CASE Serve(c)
    BY <1>7, <2>1, AtomicServe DEF Arrive
  <2>2. CASE UNCHANGED <<holder, copy, register, applied>>
    BY <1>7, <2>2 DEF Arrive, verdict
  <2>3. QED BY <1>7, <2>1, <2>2 DEF Arrive
<1>8. ASSUME NEW c \in Calls, WakeFirst(c) PROVE [Atomic!Next]_Atomic!storeVars
  BY <1>8, AtomicServe DEF WakeFirst
<1>9. ASSUME NEW c \in Calls, Unlock(c) PROVE [Atomic!Next]_Atomic!storeVars
  <2>1. verdict' = verdict
    BY <1>9 DEF Unlock, verdict
  <2>2. CASE UNCHANGED <<register, applied>>
    BY <1>9, <2>1, <2>2 DEF Unlock
  <2>3. CASE ~UNCHANGED <<register, applied>>
    <3>1. /\ lane[c] = "commit"
          /\ register' = [k \in Keys |->
                 IF k \in Atomic!Scope(c) THEN Atomic!Updated(c, copy[c][k]) ELSE register[k]]
          /\ applied' = applied \cup {c}
      BY <1>9, <2>3 DEF Unlock
    <3>2. c \notin applied /\ IsTurn(c) /\ verdict[c] = "pending"
      BY <3>1 DEF IInv, AppliedWhere, PhaseAndLane, verdict
    <3>3. \A k \in Atomic!Scope(c) : copy[c][k] = register[k]
      BY <1>9, CallAssumption DEF Unlock, IInv, TurnSeesTheDictionary
    <3>4. register' = Atomic!Effect(c, register)
      BY <3>1, <3>2, <3>3 DEF Atomic!Effect, IsTurn
    <3>5. Atomic!TakeEffect(c)
      BY <1>9, <2>1, <3>1, <3>2, <3>4 DEF Unlock, IsTurn, Atomic!TakeEffect
    <3>6. QED BY <3>5 DEF Atomic!Next
  <2>4. QED BY <2>2, <2>3
<1>10. ASSUME NEW w \in Workers, Lose(w) PROVE Atomic!Next
  BY <1>10, AtomicLose
<1>11. CASE UNCHANGED vars
  BY <1>11 DEF vars, verdict
<1>12. QED
  BY <1>1, <1>2, <1>3, <1>4, <1>5, <1>6, <1>7, <1>8, <1>9, <1>10, <1>11
     DEF Next, CallNext, Settled, Place, EndBody, TakeAnswer, TakeError, GiveUp

\* The store as the site sees it: one call at a time, each in one step, and
\* nobody is told what did not happen.
THEOREM Refinement == Spec => ImplementsAtomicStore
<1>1. Init => Atomic!Init
  BY AtomicInit
<1>2. IInv /\ IInv' /\ [Next]_vars => [Atomic!Next]_Atomic!storeVars
  BY AtomicStep
<1>3. QED
  BY <1>1, <1>2, Invariance, PTL DEF Spec, ImplementsAtomicStore, Atomic!Spec
-----------------------------------------------------------------------------
(* The lock is a queue. *)

\* Who parks on the lock has a number of his own, below the next to be given.
QueueNumbers ==
    \A c, d \in Parked : ticket[c] < arrivals /\ (ticket[c] = ticket[d] => c = d)

\* What the commander does under the lock moves one call, and off the queue.
LEMMA ServeMoves ==
    ASSUME TypeOK, NEW c \in Calls, Serve(c)
    PROVE  /\ \A d \in Calls : d # c => lane'[d] = lane[d]
           /\ lane'[c] \in {"answer", "error"}
BY DEF Serve, TypeOK

\* A step that parks nobody and renumbers nobody keeps the queue numbered.
LEMMA QueueShrinks ==
    ASSUME QueueNumbers, Parked' \subseteq Parked, UNCHANGED <<ticket, arrivals>>
    PROVE  QueueNumbers'
BY DEF QueueNumbers

\* A step keeps the queue numbered, and serves nobody past it.
LEMMA QueueStep ==
    ASSUME TypeOK, QueueNumbers, [Next]_vars
    PROVE  /\ QueueNumbers'
           /\ \A c, d \in Calls :
                /\ lane[d] = "parked" /\ lane'[d] = "parked"
                /\ lane[c] \in {"ask", "parked"} /\ lane'[c] \in {"answer", "error"}
                => lane[c] = "parked" /\ ticket[c] < ticket[d]
<1> DEFINE Serves(c) == lane[c] \in {"ask", "parked"} /\ lane'[c] \in {"answer", "error"}
           Waits(d) == lane[d] = "parked" /\ lane'[d] = "parked"
           InOrder == \A c, d \in Calls : Waits(d) /\ Serves(c)
                          => lane[c] = "parked" /\ ticket[c] < ticket[d]
<1> SUFFICES QueueNumbers' /\ InOrder
  OBVIOUS
<1>1. ASSUME NEW c \in Calls,
             Place(c) \/ RefuseInsideTurn(c) \/ EndBody(c) \/ TakeAnswer(c)
               \/ TakeError(c) \/ GiveUp(c) \/ Unlock(c)
      PROVE  QueueNumbers' /\ InOrder
  <2>1. /\ UNCHANGED <<ticket, arrivals>>
        /\ \A d \in Calls : d # c => lane'[d] = lane[d]
        /\ lane'[c] # "parked" \/ lane'[c] = lane[c]
        /\ ~Serves(c)
    BY <1>1 DEF Place, RefuseInsideTurn, EndBody, TakeAnswer, TakeError, GiveUp, Unlock, TypeOK
  <2>2. Parked' \subseteq Parked
    BY <2>1 DEF Parked
  <2>3. InOrder
    BY <2>1
  <2>4. QED BY <2>1, <2>2, <2>3, QueueShrinks
<1>2. ASSUME NEW c \in Calls, Arrive(c) PROVE QueueNumbers' /\ InOrder
  <2>1. CASE Parked = {} /\ Serve(c) /\ UNCHANGED <<ticket, arrivals>>
    <3>1. Parked' \subseteq Parked
      BY <2>1, ServeMoves DEF Parked
    <3>2. InOrder
      BY <2>1 DEF Parked
    <3>3. QED BY <2>1, <3>1, <3>2, QueueShrinks
  <2>2. CASE /\ lane' = [lane EXCEPT ![c] = "parked"]
             /\ ticket' = [ticket EXCEPT ![c] = arrivals]
             /\ arrivals' = arrivals + 1
    <3>1. Parked' = Parked \cup {c} /\ c \notin Parked
      BY <1>2, <2>2 DEF Arrive, Parked, TypeOK
    <3>2. /\ ticket'[c] = arrivals
          /\ \A d \in Parked : ticket'[d] = ticket[d] /\ ticket[d] \in Nat
      BY <2>2, <3>1 DEF Parked, TypeOK
    <3>3. QueueNumbers'
      BY <2>2, <3>1, <3>2 DEF QueueNumbers, TypeOK
    <3>4. InOrder
      BY <2>2 DEF TypeOK
    <3>5. QED BY <3>3, <3>4
  <2>3. QED BY <1>2, <2>1, <2>2 DEF Arrive
<1>3. ASSUME NEW c \in Calls, WakeFirst(c) PROVE QueueNumbers' /\ InOrder
  <2>1. UNCHANGED <<ticket, arrivals>> /\ Parked' \subseteq Parked
    BY <1>3, ServeMoves DEF WakeFirst, Parked
  <2>2. ASSUME NEW e \in Calls, NEW d \in Calls, Waits(d), Serves(e)
        PROVE  lane[e] = "parked" /\ ticket[e] < ticket[d]
    <3>1. e = c /\ d # c
      BY <1>3, <2>2, ServeMoves DEF WakeFirst
    <3>2. c \in Parked /\ d \in Parked
      BY <1>3, <2>2 DEF WakeFirst, Parked
    <3>3. ticket[c] <= ticket[d] /\ ticket[c] # ticket[d]
      BY <1>3, <3>1, <3>2 DEF WakeFirst, QueueNumbers
    <3>4. ticket[c] \in Nat /\ ticket[d] \in Nat
      BY DEF TypeOK
    <3>5. QED BY <3>1, <3>2, <3>3, <3>4 DEF Parked
  <2>3. QED BY <2>1, <2>2, QueueShrinks
<1>4. ASSUME NEW w \in Workers, Lose(w) PROVE QueueNumbers' /\ InOrder
  <2>1. /\ UNCHANGED <<ticket, arrivals>>
        /\ \A c \in Calls : lane'[c] = "none" \/ lane'[c] = lane[c]
    BY <1>4 DEF Lose
  <2>2. Parked' \subseteq Parked
    BY <2>1 DEF Parked
  <2>3. InOrder
    BY <2>1
  <2>4. QED BY <2>1, <2>2, <2>3, QueueShrinks
<1>5. CASE UNCHANGED vars
  <2>1. UNCHANGED <<ticket, arrivals, lane>> /\ Parked' = Parked
    BY <1>5 DEF vars, Parked
  <2>2. QED BY <2>1, QueueShrinks
<1>6. QED
  BY <1>1, <1>2, <1>3, <1>4, <1>5 DEF Next, CallNext, Settled

\* The lock of the store is first come, first served for any number of callers,
\* deaths and cancellations: a parked call is passed by no later one, neither
\* by one that parked after it nor by one that finds the lock just let go.
THEOREM FirstComeFirstServed == Spec => ServedInOrder
<1>1. Init => QueueNumbers
  BY DEF Init, QueueNumbers, Parked
<1>2. TypeOK /\ QueueNumbers /\ [Next]_vars => QueueNumbers'
  BY QueueStep
<1>3. TypeOK /\ QueueNumbers /\ [Next]_vars =>
        [\A c, d \in Calls :
           /\ lane[d] = "parked" /\ lane'[d] = "parked"
           /\ lane[c] \in {"ask", "parked"} /\ lane'[c] \in {"answer", "error"}
           => lane[c] = "parked" /\ ticket[c] < ticket[d]]_vars
  BY QueueStep
<1>4. QED
  BY <1>1, <1>2, <1>3, TypeCorrect, PTL DEF Spec, ServedInOrder
=============================================================================
