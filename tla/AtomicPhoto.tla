----------------------------- MODULE AtomicPhoto -----------------------------
(***************************************************************************)
(* What the soft reboot promises (spa_commander.py, freeze_handler.py): a  *)
(* photo of the machine appears whole or not at all, and a start becomes   *)
(* the whole of the photo it finds or nothing of it.  A start that cannot  *)
(* read the photo gives it up and removes it file by file, and one that    *)
(* falls meanwhile leaves what remains to the next.                        *)
(***************************************************************************)
CONSTANTS
    Photos,      \* what a machine can be, photographed or running
    NoPhoto,     \* there is no photo, no machine has just been started
    Clean,       \* the machine a start without a photo becomes
    Remains(_)   \* what one removal may leave of a photo

VARIABLES
    photo,    \* the photo the next start would become
    started,  \* what a start has become, at the instant it ends
    given     \* a start could not read the photo and is removing it

Init == photo = NoPhoto /\ started = NoPhoto /\ given = FALSE

Commit ==
    /\ photo = NoPhoto /\ started = NoPhoto
    /\ photo' \in Photos
    /\ UNCHANGED <<started, given>>

Adopt ==
    /\ photo # NoPhoto /\ started = NoPhoto /\ ~given
    /\ started' = photo /\ photo' = NoPhoto
    /\ UNCHANGED given

GiveUp ==
    /\ photo # NoPhoto /\ started = NoPhoto
    /\ given' = TRUE
    /\ UNCHANGED <<photo, started>>

Erode ==
    /\ given
    /\ photo' \in Remains(photo)
    /\ UNCHANGED <<started, given>>

\* The start that gave it up falls: the next one finds the photo again.
Forget ==
    /\ given' = FALSE
    /\ UNCHANGED <<photo, started>>

StartClean ==
    /\ started = NoPhoto
    /\ started' = Clean /\ photo' = NoPhoto /\ given' = FALSE

\* A start that dies after it has begun to consume the photo.
Lose ==
    /\ started = NoPhoto
    /\ photo' = NoPhoto /\ given' = FALSE /\ UNCHANGED started

\* The machine goes on, and what it becomes is its own business.
Run ==
    /\ started # NoPhoto
    /\ started' = NoPhoto /\ UNCHANGED <<photo, given>>

Next == Commit \/ Adopt \/ GiveUp \/ Erode \/ Forget \/ StartClean \/ Lose \/ Run

Spec == Init /\ [][Next]_<<photo, started, given>>
==============================================================================
