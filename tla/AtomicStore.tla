---------------------------- MODULE AtomicStore ----------------------------
(***************************************************************************)
(* What the global store promises to the site's code (global_store.py,     *)
(* module docstring): one dictionary whose operations happen one at a      *)
(* time.  A call takes effect in ONE step, on the dictionary as it stands  *)
(* at that step, or it never does; and what its caller is told agrees with *)
(* what happened, unless the wire failed and the caller is told so.        *)
(***************************************************************************)
CONSTANTS
    Calls,      \* the calls the site makes: simple operations and whole turns
    Keys,       \* the literal keys of the dictionary
    Absent,     \* what a key the dictionary does not have maps to
    Whole,      \* the key a turn on the whole dictionary selects
    Requests    \* the calls that can be made: [op |-> ..., key |-> ...]

VARIABLES
    req,        \* what each call asks
    register,   \* the dictionary: each value is the set of calls it contains
    applied,    \* the writing calls that took effect
    verdict     \* what each caller was told

storeVars == <<req, register, applied, verdict>>

Values == (SUBSET Calls) \cup {Absent}

\* The part of the dictionary a call selects.
Scope(c) == IF req[c].key = Whole THEN Keys ELSE {req[c].key}

\* What the body of turn c makes of one value: all it found, and itself.
Updated(c, value) == (IF value = Absent THEN {} ELSE value) \cup {c}

\* The dictionary after call c took effect on dictionary reg.
Effect(c, reg) ==
    [k \in Keys |->
        IF k \notin Scope(c) \/ req[c].op = "get" THEN reg[k]
        ELSE IF req[c].op = "set" THEN {c}
        ELSE IF req[c].op = "del" THEN Absent
        ELSE Updated(c, reg[k])]

Init ==
    /\ req \in [Calls -> Requests]
    /\ register = [k \in Keys |-> Absent]
    /\ applied = {}
    /\ verdict = [c \in Calls |-> "pending"]

\* The call happens, on the dictionary of this very step.
TakeEffect(c) ==
    /\ c \notin applied
    /\ verdict[c] = "pending"
    /\ register' = Effect(c, register)
    /\ applied' = IF req[c].op = "get" THEN applied ELSE applied \cup {c}
    /\ UNCHANGED <<req, verdict>>

\* The caller learns how it ended.
Tell(c, v) ==
    /\ verdict[c] = "pending"
    /\ v = "done" /\ req[c].op # "get" => c \in applied
    /\ v = "failed" => c \notin applied
    /\ verdict' = [verdict EXCEPT ![c] = v]
    /\ UNCHANGED <<req, register, applied>>

\* Several callers on one wire learn together that it is gone.
WireLost(lost) ==
    /\ \A c \in lost : verdict[c] = "pending"
    /\ \E told \in [lost -> {"failed", "unconfirmed"}] :
         /\ \A c \in lost : told[c] = "failed" => c \notin applied
         /\ verdict' = [c \in Calls |-> IF c \in lost THEN told[c] ELSE verdict[c]]
    /\ UNCHANGED <<req, register, applied>>

Next ==
    \/ \E c \in Calls : TakeEffect(c)
    \/ \E c \in Calls, v \in {"done", "failed", "unconfirmed"} : Tell(c, v)
    \/ \E lost \in SUBSET Calls : WireLost(lost)

Spec == Init /\ [][Next]_storeVars
=============================================================================
