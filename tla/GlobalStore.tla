---------------------------- MODULE GlobalStore ----------------------------
(***************************************************************************)
(* The global store of kajenn-orchestra: the dictionary and the FIFO lock  *)
(* on the commander (global_store.py, GlobalStoreOperations in             *)
(* spa_commander.py), the calls the workers place on it, and the death     *)
(* protocol that frees a turn whose worker is gone                         *)
(* (WorkerConnector.lose, WorkerHandler.on_child_lost).                    *)
(*                                                                         *)
(* A call is placed by a context (a task or a pool thread of one worker).  *)
(* Calls of different contexts are served on tasks of their own, so the    *)
(* order of two calls on the lane shows only as the order of their         *)
(* arrival: a lane is the set of the calls travelling on it.               *)
(***************************************************************************)
EXTENDS Naturals, FiniteSets

CONSTANTS
    Workers,        \* the worker processes on the commander's buses
    Contexts,       \* the tasks and threads of the workers that place calls
    Calls,          \* the calls they place: simple operations and turns
    Keys, Absent, Whole, Requests,  \* as in AtomicStore
    None,           \* no holder
    WorkerOf,       \* the worker of each context
    ContextOf,      \* the context of each call
    MayGiveUp,      \* whether a caller may be cancelled while it waits
    MayOverflow     \* whether a granted value may be too large for a frame

\* One Absent and one Whole, neither of them a value nor a key.
ASSUME StoreAssumption ==
    /\ \A value \in SUBSET Calls : value # Absent
    /\ Whole \notin Keys
    /\ Requests \subseteq [op : {"get", "set", "del"}, key : Keys]
                     \cup [op : {"turn"}, key : Keys \cup {Whole}]

ASSUME CallAssumption ==
    /\ None \notin Calls
    /\ WorkerOf \in [Contexts -> Workers]
    /\ ContextOf \in [Calls -> Contexts]
    /\ MayGiveUp \in BOOLEAN
    /\ MayOverflow \in BOOLEAN

VARIABLES
    req,        \* what each call asks; it never changes
    phase,      \* where the caller is
    lane,       \* where the call is between the caller and the commander
    ticket,     \* the arrival number of a call that parked on the lock
    arrivals,   \* how many calls parked so far
    holder,     \* GlobalStoreLock.holder; holder_worker and holder_key are its request's
    copy,       \* GlobalStoreLease.value as the grant decoded it
    register,   \* SpaCommander.global_register
    connected,  \* WorkerConnector.connected, per worker
    applied     \* history: the writing calls that reached the dictionary

vars == <<req, phase, lane, ticket, arrivals, holder, copy, register, connected, applied>>

\* The promise, and the verdict each caller has of it.
verdict ==
    [c \in Calls |-> IF phase[c] \in {"done", "failed", "unconfirmed"} THEN phase[c]
                     ELSE "pending"]
Atomic == INSTANCE AtomicStore WITH req <- req, register <- register,
                                    applied <- applied, verdict <- verdict

Phases == {"idle", "asking", "inside", "committing", "aborting", "abandoned",
           "done", "failed", "unconfirmed"}
Lanes == {"none", "ask", "parked", "answer", "error", "commit", "abort"}

Home(c) == WorkerOf[ContextOf[c]]
IsTurn(c) == req[c].op = "turn"
Parked == {c \in Calls : lane[c] = "parked"}
\* The call is in the hands of its caller's context.
Waiting(c) == phase[c] \in {"asking", "committing", "aborting"}

TypeOK ==
    /\ req \in [Calls -> Requests]
    /\ phase \in [Calls -> Phases]
    /\ lane \in [Calls -> Lanes]
    /\ ticket \in [Calls -> Nat]
    /\ arrivals \in Nat
    /\ holder \in Calls \cup {None}
    /\ copy \in [Calls -> [Keys -> Atomic!Values]]
    /\ register \in [Keys -> Atomic!Values]
    /\ connected \in [Workers -> BOOLEAN]
    /\ applied \subseteq Calls

Init ==
    /\ req \in [Calls -> Requests]
    /\ phase = [c \in Calls |-> "idle"]
    /\ lane = [c \in Calls |-> "none"]
    /\ ticket = [c \in Calls |-> 0]
    /\ arrivals = 0
    /\ holder = None
    /\ copy = [c \in Calls |-> [k \in Keys |-> Absent]]
    /\ register = [k \in Keys |-> Absent]
    /\ connected = [w \in Workers |-> TRUE]
    /\ applied = {}

-----------------------------------------------------------------------------
(* The caller: GlobalStoreClient and GlobalStoreLease. *)

\* A context does one thing at a time; inside a turn it may still try another call.
ContextFree(c) ==
    \A d \in Calls : ContextOf[d] = ContextOf[c] => ~Waiting(d)
InsideTurn(c) ==
    \E d \in Calls : ContextOf[d] = ContextOf[c] /\ phase[d] = "inside"

\* A simple operation, or the first half of a turn, is placed on the lane.
Place(c) ==
    /\ phase[c] = "idle"
    /\ connected[Home(c)]
    /\ ContextFree(c)
    /\ ~InsideTurn(c)
    /\ phase' = [phase EXCEPT ![c] = "asking"]
    /\ lane' = [lane EXCEPT ![c] = "ask"]
    /\ UNCHANGED <<req, ticket, arrivals, holder, copy, register, connected, applied>>

\* refuse_inside_turn: a context that holds the turn is refused at once.
RefuseInsideTurn(c) ==
    /\ phase[c] = "idle"
    /\ ContextFree(c)
    /\ InsideTurn(c)
    /\ phase' = [phase EXCEPT ![c] = "failed"]
    /\ UNCHANGED <<req, lane, ticket, arrivals, holder, copy, register, connected, applied>>

\* The body of the turn ends: it publishes, or it raised, aborted or left a
\* value that does not encode.  With the wire gone nothing leaves: the commit
\* fails with GlobalStoreCommitUnconfirmed, the abort with ConnectionError.
EndBody(c) ==
    /\ phase[c] = "inside"
    /\ ContextFree(c)
    /\ \E publish \in BOOLEAN :
         IF connected[Home(c)]
         THEN /\ phase' = [phase EXCEPT ![c] = IF publish THEN "committing" ELSE "aborting"]
              /\ lane' = [lane EXCEPT ![c] = IF publish THEN "commit" ELSE "abort"]
         ELSE /\ phase' = [phase EXCEPT ![c] = IF publish THEN "unconfirmed" ELSE "failed"]
              /\ lane' = lane
    /\ UNCHANGED <<req, ticket, arrivals, holder, copy, register, connected, applied>>

\* The answer reaches the caller.  A grant opens the body, or does not decode
\* and is given back; whoever was cancelled meanwhile is not there to read it.
TakeAnswer(c) ==
    /\ lane[c] = "answer"
    /\ \/ /\ phase[c] = "asking"
          /\ IsTurn(c)
          /\ \/ /\ phase' = [phase EXCEPT ![c] = "inside"]
                /\ lane' = [lane EXCEPT ![c] = "none"]
             \/ /\ phase' = [phase EXCEPT ![c] = "aborting"]
                /\ lane' = [lane EXCEPT ![c] = "abort"]
       \/ /\ phase[c] = "committing" \/ (phase[c] = "asking" /\ ~IsTurn(c))
          /\ phase' = [phase EXCEPT ![c] = "done"]
          /\ lane' = [lane EXCEPT ![c] = "none"]
       \/ /\ phase[c] = "aborting"
          /\ phase' = [phase EXCEPT ![c] = "failed"]
          /\ lane' = [lane EXCEPT ![c] = "none"]
       \/ /\ phase[c] = "abandoned"
          /\ lane' = [lane EXCEPT ![c] = "none"]
          /\ phase' = phase
    /\ UNCHANGED <<req, ticket, arrivals, holder, copy, register, connected, applied>>

\* The answer is an error: CommanderCallFailed, the lease released by nobody.
TakeError(c) ==
    /\ lane[c] = "error"
    /\ phase' = [phase EXCEPT ![c] = IF phase[c] = "abandoned" THEN "abandoned" ELSE "failed"]
    /\ lane' = [lane EXCEPT ![c] = "none"]
    /\ UNCHANGED <<req, ticket, arrivals, holder, copy, register, connected, applied>>

\* The task of the caller is cancelled: SpaWorker.call leaves the call running.
GiveUp(c) ==
    /\ MayGiveUp
    /\ Waiting(c)
    /\ phase' = [phase EXCEPT ![c] = "abandoned"]
    /\ UNCHANGED <<req, lane, ticket, arrivals, holder, copy, register, connected, applied>>

-----------------------------------------------------------------------------
(* The commander: GlobalStoreOperations under GlobalStoreLock. *)

\* What the commander does with call c once the lock is its own.  A simple
\* operation holds it for this one step; a turn keeps it, even when the frame
\* that should carry the grant is too large and an error leaves in its place.
Serve(c) ==
    \/ /\ ~IsTurn(c)
       /\ register' = Atomic!Effect(c, register)
       /\ applied' = IF req[c].op = "get" THEN applied ELSE applied \cup {c}
       /\ lane' = [lane EXCEPT ![c] = "answer"]
       /\ UNCHANGED <<holder, copy>>
    \/ /\ IsTurn(c)
       /\ holder' = c
       /\ copy' = [copy EXCEPT ![c] = register]
       /\ \/ lane' = [lane EXCEPT ![c] = "answer"]
          \/ MayOverflow /\ lane' = [lane EXCEPT ![c] = "error"]
       /\ UNCHANGED <<register, applied>>

\* A call arrives and does not look whether the lock is free.
ArriveUnlocked(c) ==
    /\ lane[c] = "ask"
    /\ Serve(c)
    /\ UNCHANGED <<req, phase, ticket, arrivals, connected>>

\* A call that finds the lock free walks past those who wait for it.
ArrivePastTheParked(c) ==
    /\ lane[c] = "ask"
    /\ \/ /\ holder = None
          /\ Serve(c)
          /\ UNCHANGED <<ticket, arrivals>>
       \/ /\ holder # None
          /\ lane' = [lane EXCEPT ![c] = "parked"]
          /\ ticket' = [ticket EXCEPT ![c] = arrivals]
          /\ arrivals' = arrivals + 1
          /\ UNCHANGED <<holder, copy, register, applied>>
    /\ UNCHANGED <<req, phase, connected>>

\* A call arrives: the lock is free and nobody waits for it, or it parks.
Arrive(c) ==
    /\ lane[c] = "ask"
    /\ \/ /\ holder = None /\ Parked = {}
          /\ Serve(c)
          /\ UNCHANGED <<ticket, arrivals>>
       \/ /\ holder # None \/ Parked # {}
          /\ lane' = [lane EXCEPT ![c] = "parked"]
          /\ ticket' = [ticket EXCEPT ![c] = arrivals]
          /\ arrivals' = arrivals + 1
          /\ UNCHANGED <<holder, copy, register, applied>>
    /\ UNCHANGED <<req, phase, connected>>

\* The lock was let go: the first call that parked on it wakes and takes it.
WakeFirst(c) ==
    /\ lane[c] = "parked"
    /\ holder = None
    /\ \A d \in Parked : ticket[c] <= ticket[d]
    /\ Serve(c)
    /\ UNCHANGED <<req, phase, ticket, arrivals, connected>>

\* An abort that publishes all the same.
UnlockApplyingAborts(c) ==
    /\ lane[c] \in {"commit", "abort"}
    /\ holder = c
    /\ register' = [k \in Keys |->
           IF k \in Atomic!Scope(c) THEN Atomic!Updated(c, copy[c][k]) ELSE register[k]]
    /\ applied' = applied \cup {c}
    /\ lane' = [lane EXCEPT ![c] = "answer"]
    /\ holder' = None
    /\ UNCHANGED <<req, phase, ticket, arrivals, copy, connected>>

\* The second half of a turn: publish what the scope selects, or nothing (an
\* abort, or a value refused before anything is written), then let the lock go.
Unlock(c) ==
    /\ lane[c] \in {"commit", "abort"}
    /\ holder = c
    /\ \/ /\ lane[c] = "commit"
          /\ register' = [k \in Keys |->
                 IF k \in Atomic!Scope(c) THEN Atomic!Updated(c, copy[c][k]) ELSE register[k]]
          /\ applied' = applied \cup {c}
          /\ lane' = [lane EXCEPT ![c] = "answer"]
       \/ /\ lane[c] = "commit"
          /\ lane' = [lane EXCEPT ![c] = "error"]
          /\ UNCHANGED <<register, applied>>
       \/ /\ lane[c] = "abort"
          /\ lane' = [lane EXCEPT ![c] = "answer"]
          /\ UNCHANGED <<register, applied>>
    /\ holder' = None
    /\ UNCHANGED <<req, phase, ticket, arrivals, copy, connected>>

\* What a caller is told when the wire it waits on fails.
ToldByTheWire(c) ==
    IF phase[c] = "committing" \/ (phase[c] = "asking" /\ ~IsTurn(c)) THEN "unconfirmed"
    ELSE IF Waiting(c) THEN "failed"
    ELSE phase[c]

\* The death of a worker leaves its turn in force, or files it under the worker.
KeepWorkerLock(w) == holder' = holder
FileWorkerLock(w) == holder' = IF holder # None /\ Home(holder) = w THEN w ELSE holder

\* release_worker_lock: the turn of a dead worker is let go, nothing applied.
ReleaseWorkerLock(w) ==
    holder' = IF holder # None /\ Home(holder) = w THEN None ELSE holder

\* The member left the bus: its parked calls are cancelled, what travelled is gone.
Lose(w) ==
    /\ connected[w]
    /\ connected' = [connected EXCEPT ![w] = FALSE]
    /\ lane' = [c \in Calls |-> IF Home(c) = w THEN "none" ELSE lane[c]]
    /\ phase' = [c \in Calls |-> IF Home(c) = w THEN ToldByTheWire(c) ELSE phase[c]]
    /\ ReleaseWorkerLock(w)
    /\ UNCHANGED <<req, ticket, arrivals, copy, register, applied>>

\* Every call settled, one way or the other: nothing more to do.
Settled ==
    /\ \A c \in Calls : phase[c] \notin {"asking", "inside", "committing", "aborting"}
    /\ UNCHANGED vars

CallNext(c) ==
    \/ Place(c) \/ RefuseInsideTurn(c) \/ EndBody(c)
    \/ TakeAnswer(c) \/ TakeError(c) \/ GiveUp(c)
    \/ Arrive(c) \/ WakeFirst(c) \/ Unlock(c)

Next ==
    \/ \E c \in Calls : CallNext(c)
    \/ \E w \in Workers : Lose(w)
    \/ Settled

Spec == Init /\ [][Next]_vars

\* The lane delivers, the loop runs what woke, and the body of a turn ends.
Fairness ==
    \A c \in Calls :
        /\ WF_vars(Arrive(c)) /\ WF_vars(WakeFirst(c)) /\ WF_vars(Unlock(c))
        /\ WF_vars(TakeAnswer(c)) /\ WF_vars(TakeError(c)) /\ WF_vars(EndBody(c))

FairSpec == Spec /\ Fairness

-----------------------------------------------------------------------------
(* Properties. *)

\* The copy a turn works on is the dictionary itself for as long as the turn is
\* in force: nobody, on any key it selected, writes between grant and commit.
TurnSeesTheDictionary ==
    holder # None => \A k \in Atomic!Scope(holder) : copy[holder][k] = register[k]

\* A caller told its write is done has it in the dictionary's history, one told
\* it failed does not, and never will: no call of his is still on its way.
VerdictIsHonest ==
    \A c \in Calls :
        /\ phase[c] = "done" /\ req[c].op # "get" => c \in applied
        /\ phase[c] = "failed" => c \notin applied /\ lane[c] \notin {"ask", "parked", "commit"}

\* No turn outlives its worker: whoever holds the store is on the bus.
HolderIsConnected == holder # None => connected[Home(holder)]

\* The store is held only by a turn that is going to end: its grant is on the
\* way to it, its body runs, or its release is on the way back.  The exceptions
\* are the cancelled caller and the grant that did not fit a frame.
HolderWillLetGo ==
    holder # None =>
        \/ phase[holder] = "asking" /\ lane[holder] = "answer"
        \/ phase[holder] = "inside"
        \/ lane[holder] \in {"commit", "abort"}
        \/ MayGiveUp /\ phase[holder] = "abandoned"
        \/ MayOverflow /\ phase[holder] = "asking" /\ lane[holder] = "error"
        \/ MayOverflow /\ phase[holder] = "failed"

\* Every turn ends: by its caller as long as he is there, and when his worker
\* dies with the worker (global_store.py: release_worker_lock).
TurnWillEnd == HolderIsConnected /\ HolderWillLetGo

\* First come, first served: a call is not served while one that arrived
\* before it still waits, neither among the parked nor past them.
ServedInOrder ==
    [][\A c, d \in Calls :
         /\ lane[d] = "parked" /\ lane'[d] = "parked"
         /\ lane[c] \in {"ask", "parked"} /\ lane'[c] \in {"answer", "error"}
         => lane[c] = "parked" /\ ticket[c] < ticket[d]]_vars

\* The detailed store implements the promise.
ImplementsAtomicStore == Atomic!Spec

\* Every call that reached the commander is answered, or its wire fails.
EveryCallSettles ==
    \A c \in Calls : lane[c] # "none" ~> lane[c] = "none"
=============================================================================
