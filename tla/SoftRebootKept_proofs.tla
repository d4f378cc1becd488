----------------------- MODULE SoftRebootKept_proofs -----------------------
(***************************************************************************)
(* What the soft reboot keeps and what it leaves behind, for any users and *)
(* any workers: no store from before a clean start is ever served again,   *)
(* and the work the machine answers for is found by the start that follows *)
(* the quit.                                                               *)
(***************************************************************************)
EXTENDS SoftReboot_proofs

\* What a machine that began with nothing may hold: what was served since.
Young == {Nothing, 0} \cup fresh..life
NoOlder ==
    /\ fresh \in 0..life
    /\ \A w \in Workers, u \in Users : rows[w][u] \in Young
    /\ \A d \in Places, u \in Users : disk[d].parcels[u] \in Young \cup {Torn}
    /\ \A u \in Users : moving[u] # Nothing => moving[u].store \in Young

\* The two directories a start becomes nothing of are gone before it knows.
TempDropped ==
    /\ at \in {"cleared", "found", "missing", "spent", "cleared_working", "renamed", "adopted",
               "judged"} => disk["temp"] = Gone
    /\ at \notin Running => \A w \in Workers, u \in Users : rows[w][u] = Nothing
-----------------------------------------------------------------------------
(* What the steps write.                                                   *)

\* Locks and items come and go, and no parcel is written.
SameParcels == \A d \in Places : disk'[d].parcels = disk[d].parcels

LEMMA LocksOnly ==
    ASSUME Typed, NEW d \in Places, NEW us, disk' = [disk EXCEPT ![d].locks = us]
    PROVE  SameParcels /\ \A e \in Places : disk'[e].item = disk[e].item
BY DEF Typed, DiskTyped, Directory, SameParcels

LEMMA LocksParcels ==
    ASSUME Typed, NEW w \in Workers, NEW u, Locks(w, u)
    PROVE  SameParcels /\ \A e \in Places : disk'[e].item = disk[e].item
BY DirectoryOf, LocksOnly DEF Locks

LEMMA UnlockOrNot ==
    ASSUME Typed, NEW u \in Users, moving[u] # Nothing,
           \/ disk' = disk
           \/ disk' = [disk EXCEPT ![moving[u].dir].locks = @ \ {u}]
    PROVE  SameParcels /\ \A e \in Places : disk'[e].item = disk[e].item
<1>1. CASE disk' = disk
  BY <1>1 DEF SameParcels
<1>2. CASE disk' = [disk EXCEPT ![moving[u].dir].locks = @ \ {u}]
  <2>1. moving[u].dir \in Places
    BY MoverOf
  <2>2. \A us : disk' = [disk EXCEPT ![moving[u].dir].locks = us]
                 => SameParcels /\ \A e \in Places : disk'[e].item = disk[e].item
    BY <2>1, LocksOnly
  <2> QED
    BY <1>2, <2>2
<1> QED
  BY <1>1, <1>2

LEMMA ParcelWritten ==
    ASSUME Typed, NEW d \in Places, NEW u \in Users, NEW store,
           disk' = [disk EXCEPT ![d].parcels[u] = store]
    PROVE  /\ disk'[d].parcels[u] = store
           /\ \A e \in Places, v \in Users :
                e # d \/ v # u => disk'[e].parcels[v] = disk[e].parcels[v]
           /\ \A e \in Places : disk'[e].item = disk[e].item
<1>1. disk[d] \in Directory
  BY DEF Typed, DiskTyped
<1>2. disk'[d] = [disk[d] EXCEPT !.parcels[u] = store] /\ \A e \in Places \ {d} : disk'[e] = disk[e]
  BY DEF Typed, DiskTyped
<1>3. disk'[d].parcels = [disk[d].parcels EXCEPT ![u] = store] /\ disk'[d].item = disk[d].item
  BY <1>1, <1>2 DEF Directory
<1>4. disk[d].parcels \in [Users -> Parcels]
  BY <1>1 DEF Directory, Parcels
<1> QED
  BY <1>2, <1>3, <1>4

\* Dying writers tear what they were writing.
LEMMA LeftParcels ==
    ASSUME Typed, NEW ws \in SUBSET Workers, NEW left \in LeftByWriters(ws)
    PROVE  /\ \A d \in Places, u \in Users :
                \/ left[d].parcels[u] = disk[d].parcels[u]
                \/ /\ left[d].parcels[u] = Torn
                   /\ Departing(u, "locked") /\ moving[u].worker \in ws
           /\ \A d \in Places : left[d] \in Directory
           /\ \A d \in Places : left[d].item = disk[d].item
           /\ left["data"] = disk["data"]
<1>1. PICK us \in SUBSET {u \in Users : Departing(u, "locked") /\ moving[u].worker \in ws} :
        left = [d \in Places |-> [disk[d] EXCEPT !.parcels =
                 [u \in Users |-> IF u \in us /\ deposit[moving[u].worker] = d THEN Torn
                                  ELSE @[u]]]]
  BY Zenon DEF LeftByWriters
<1>2. \A d \in Places : left[d].parcels =
        [u \in Users |-> IF u \in us /\ deposit[moving[u].worker] = d THEN Torn
                         ELSE disk[d].parcels[u]]
  BY <1>1 DEF Typed, DiskTyped, Directory
<1>3. /\ left \in [Places -> Directory] /\ left["data"] = disk["data"]
      /\ \A d \in Places : left[d].item = disk[d].item
  BY LeftTyped DEF Typed
<1>4. ASSUME NEW d \in Places, NEW u \in Users
      PROVE  \/ left[d].parcels[u] = disk[d].parcels[u]
             \/ /\ left[d].parcels[u] = Torn
                /\ Departing(u, "locked") /\ moving[u].worker \in ws
  <2>1. left[d].parcels[u] = IF u \in us /\ deposit[moving[u].worker] = d THEN Torn
                             ELSE disk[d].parcels[u]
    <3>1. left[d].parcels =
            [v \in Users |-> IF v \in us /\ deposit[moving[v].worker] = d THEN Torn
                             ELSE disk[d].parcels[v]]
      BY <1>2
    <3> QED
      BY <3>1, Zenon
  <2>2. u \in us => Departing(u, "locked") /\ moving[u].worker \in ws
    OBVIOUS
  <2> QED
    BY <2>1, <2>2
<1> QED
  BY <1>3, <1>4

\* A process that ends takes its memory with it, and nobody else's.
LEMMA EndsTakes ==
    ASSUME Typed, NEW ws \in SUBSET Workers, Ends(ws)
    PROVE  /\ \A w \in ws : /\ proc'[w] = "off" /\ deposit'[w] = "working"
                            /\ \A u \in Users : rows'[w][u] = Nothing
           /\ \A w \in Workers \ ws : /\ proc'[w] = proc[w] /\ deposit'[w] = deposit[w]
                                      /\ rows'[w] = rows[w] /\ flags'[w] = flags[w]
           /\ \A u \in Users :
                /\ moving[u] # Nothing /\ moving[u].worker \in ws => moving'[u] = Nothing
                /\ moving[u] = Nothing \/ moving[u].worker \notin ws => moving'[u] = moving[u]
                /\ calling[u] \in ws => calling'[u] = Nowhere
                /\ calling[u] \notin ws => calling'[u] = calling[u]
BY DEF Ends, Typed, ProcessesTyped

LEMMA RowWritten ==
    ASSUME Typed, NEW w \in Workers, NEW u \in Users, NEW store,
           rows' = [rows EXCEPT ![w][u] = store]
    PROVE  /\ rows'[w][u] = store
           /\ \A x \in Workers, v \in Users : x # w \/ v # u => rows'[x][v] = rows[x][v]
BY DEF Typed, ProcessesTyped

LEMMA MoveWritten ==
    ASSUME Typed, NEW u \in Users, NEW m, moving' = [moving EXCEPT ![u] = m]
    PROVE  moving'[u] = m /\ \A v \in Users \ {u} : moving'[v] = moving[v]
BY DEF Typed, ProcessesTyped
-----------------------------------------------------------------------------
(* Nothing old.                                                            *)

LEMMA YoungStays ==
    ASSUME NoOlder, UNCHANGED <<life, fresh>>,
           \A w \in Workers, u \in Users : rows'[w][u] \in Young,
           \A d \in Places, u \in Users : disk'[d].parcels[u] \in Young \cup {Torn},
           \A u \in Users : moving'[u] # Nothing => moving'[u].store \in Young
    PROVE  NoOlder'
<1>1. Young' = Young
  BY DEF Young
<1> QED
  BY <1>1 DEF NoOlder

LEMMA LifeIsYoung ==
    ASSUME Typed, NoOlder PROVE life \in Young /\ 0 \in Young /\ Nothing \in Young
BY Constants DEF Typed, CourseTyped, NoOlder, Young

LEMMA BornYoung ==
    ASSUME Typed, NoOlder, NEW w \in Workers, NEW u \in Users, Born(w, u) PROVE NoOlder'
<1>1. \A x \in Workers, v \in Users : rows'[x][v] \in Young
  BY RowWritten, LifeIsYoung DEF Born, NoOlder
<1> QED
  BY <1>1, YoungStays DEF Born, NoOlder, course

\* Nothing is read or written, or a move begins with a store from somebody's memory.
LEMMA NothingWrittenYoung ==
    ASSUME Typed, NoOlder, UNCHANGED <<life, fresh, rows>>, SameParcels,
           \A u \in Users : moving'[u] # Nothing =>
             \/ moving'[u] = moving[u]
             \/ moving'[u].store \in Young
    PROVE  NoOlder'
BY YoungStays DEF NoOlder, SameParcels

LEMMA MoveYoung ==
    ASSUME Typed, NoOlder, NEW u \in Users, NEW w \in Workers, NEW kind, NEW stage,
           NEW store \in Young, moving' = [moving EXCEPT ![u] = Move(kind, w, stage, store)]
    PROVE  \A v \in Users : moving'[v] # Nothing =>
             \/ moving'[v] = moving[v]
             \/ moving'[v].store \in Young
BY MoveWritten DEF Move

LEMMA RequestsYoung ==
    ASSUME Typed, NoOlder, NEW w \in Workers, NEW u \in Users,
           \/ Call(w, u) \/ Return(w, u) \/ OrderFreeze(w, u)
           \/ DepartsOrdered(w, u) \/ DepartsFlagged(w, u)
    PROVE  NoOlder'
<1>1. UNCHANGED <<life, fresh, rows>>
  BY DEF Call, Return, OrderFreeze, DepartsOrdered, DepartsFlagged, course, history
<1>2. SameParcels
  <2>1. CASE disk' = disk
    BY <2>1 DEF SameParcels
  <2>2. CASE Locks(w, u)
    BY <2>2, LocksParcels
  <2> QED
    BY <2>1, <2>2 DEF Call, Return, OrderFreeze, DepartsOrdered, DepartsFlagged, Claims
<1>3. rows[w][u] \in Young /\ Nothing \in Young
  BY LifeIsYoung DEF NoOlder
<1>4. \/ moving' = moving
      \/ \E kind, stage : \E store \in Young :
           moving' = [moving EXCEPT ![u] = Move(kind, w, stage, store)]
  BY <1>3 DEF Call, Return, OrderFreeze, DepartsOrdered, DepartsFlagged, Claims
<1>5. \A v \in Users : moving'[v] # Nothing =>
        \/ moving'[v] = moving[v]
        \/ moving'[v].store \in Young
  BY <1>4, MoveYoung
<1> QED
  BY <1>1, <1>2, <1>5, NothingWrittenYoung

LEMMA PullReadsYoung ==
    ASSUME Typed, NoOlder, NEW u \in Users, PullReads(u) PROVE NoOlder'
<1>1. PICK d \in Places : d = deposit[moving[u].worker]
  BY MoverOf, DirectoryOf DEF PullReads, InMove
<1>2. disk[d].parcels[u] \in Young /\ Nothing \in Young
  BY <1>1, LifeIsYoung DEF PullReads, NoOlder
<1>3. disk' = [disk EXCEPT ![d].parcels[u] = Nothing]
  BY <1>1 DEF PullReads
<1>4. \A e \in Places, v \in Users : disk'[e].parcels[v] \in Young \cup {Torn}
  BY <1>2, <1>3, ParcelWritten DEF NoOlder
<1>5. moving[u] \in Movement
  BY MoverOf DEF PullReads, InMove
<1>6. \A v \in Users : moving'[v] # Nothing => moving'[v].store \in Young
  <2>1. moving' = [moving EXCEPT ![u] =
                     [moving[u] EXCEPT !.stage = "done", !.store = disk[d].parcels[u]]]
    BY <1>1, <1>5 DEF PullReads, Typed, ProcessesTyped
  <2>2. [moving[u] EXCEPT !.stage = "done", !.store = disk[d].parcels[u]].store \in Young
    BY <1>2, <1>5 DEF Movement
  <2> QED
    BY <2>1, <2>2, MoveWritten DEF NoOlder
<1> QED
  BY <1>4, <1>6, YoungStays, Zenon DEF PullReads, NoOlder, course, history

LEMMA PullLandsYoung ==
    ASSUME Typed, NoOlder, NEW u \in Users, PullLands(u) PROVE NoOlder'
<1>1. moving[u] # Nothing /\ moving[u].worker \in Workers /\ moving[u].store \in Young
  BY MoverOf DEF PullLands, InMove, NoOlder
<1>2. \A w \in Workers, v \in Users : rows'[w][v] \in Young
  <2>1. PICK store \in Young :
          rows' = rows \/ rows' = [rows EXCEPT ![moving[u].worker][u] = store]
    <3>1. (IF moving[u].store = Nothing THEN 0 ELSE moving[u].store) \in Young
      BY <1>1, LifeIsYoung
    <3> QED
      BY <3>1 DEF PullLands
  <2>2. CASE rows' = rows
    BY <2>2 DEF NoOlder
  <2>3. CASE rows' = [rows EXCEPT ![moving[u].worker][u] = store]
    BY <1>1, <2>3, RowWritten DEF NoOlder
  <2> QED
    BY <2>1, <2>2, <2>3
<1>3. SameParcels
  BY <1>1, UnlockOrNot DEF PullLands
<1>4. \A v \in Users : moving'[v] # Nothing => moving'[v] = moving[v]
  BY MoveWritten DEF PullLands
<1> QED
  BY <1>2, <1>3, <1>4, YoungStays DEF PullLands, NoOlder, course, SameParcels

LEMMA AnswerYoung == ASSUME Typed, NoOlder, NEW u \in Users, Answer(u) PROVE NoOlder'
<1>1. calling[u] \in Workers
  BY DEF Answer, Typed, ProcessesTyped
<1>2. \A w \in Workers, v \in Users : rows'[w][v] \in Young
  <2>1. rows' = rows \/ rows' = [rows EXCEPT ![calling[u]][u] = life]
    BY DEF Answer
  <2> QED
    BY <1>1, <2>1, RowWritten, LifeIsYoung DEF NoOlder
<1>3. SameParcels
  <2>1. disk' = disk \/ Locks(calling[u], u)
    BY DEF Answer
  <2> QED
    BY <1>1, <2>1, LocksParcels DEF SameParcels
<1>4. \A v \in Users : moving'[v] # Nothing => moving'[v] = moving[v] \/ moving'[v].store \in Young
  <2>1. \/ moving' = moving
        \/ moving' = [moving EXCEPT ![u] = Move("transfer", calling[u], "locked", life)]
    BY DEF Answer
  <2> QED
    BY <1>1, <2>1, MoveYoung, LifeIsYoung
<1> QED
  BY <1>2, <1>3, <1>4, YoungStays DEF Answer, NoOlder, course, SameParcels

LEMMA WritesYoung == ASSUME Typed, NoOlder, NEW u \in Users, Writes(u) PROVE NoOlder'
<1>1. moving[u] \in Movement /\ moving[u].store \in Young
  BY MoverOf DEF Writes, Departing, InMove, NoOlder
<1>2. PICK d \in Places : d = deposit[moving[u].worker]
  BY MoverOf, DirectoryOf DEF Writes, Departing, InMove
<1>3. \A e \in Places, v \in Users : disk'[e].parcels[v] \in Young \cup {Torn}
  <2>1. disk' = [disk EXCEPT ![d].parcels[u] = moving[u].store]
    BY <1>2 DEF Writes
  <2> QED
    BY <1>1, <2>1, ParcelWritten DEF NoOlder
<1>4. \A v \in Users : moving'[v] # Nothing => moving'[v].store \in Young
  <2>1. moving' = [moving EXCEPT ![u] = [moving[u] EXCEPT !.stage = "done"]]
    BY DEF Writes, Typed, ProcessesTyped
  <2>2. [moving[u] EXCEPT !.stage = "done"].store = moving[u].store
    BY <1>1 DEF Movement
  <2> QED
    BY <1>1, <2>1, <2>2, MoveWritten DEF NoOlder
<1> QED
  BY <1>3, <1>4, YoungStays, Zenon DEF Writes, NoOlder, course, history

LEMMA PullFailsYoung == ASSUME Typed, NoOlder, NEW u \in Users, PullFails(u) PROVE NoOlder'
<1>1. moving[u] # Nothing /\ UNCHANGED <<life, fresh, rows>>
  BY DEF PullFails, InMove, course, history
<1>2. SameParcels
  BY <1>1, UnlockOrNot DEF PullFails
<1>3. \A v \in Users : moving'[v] # Nothing => moving'[v] = moving[v]
  BY MoveWritten DEF PullFails
<1> QED
  BY <1>1, <1>2, <1>3, NothingWrittenYoung

\* A refused write leaves one parcel that is what it was, or torn, or what was carried.
LEMMA RefusedParcels ==
    ASSUME Typed, NEW u \in Users, WriteRefused(u)
    PROVE  /\ \A e \in Places, v \in Users :
                \/ disk'[e].parcels[v] = disk[e].parcels[v]
                \/ v = u /\ disk'[e].parcels[v] \in {Torn, moving[u].store}
           /\ \A e \in Places : disk'[e].item = disk[e].item
           /\ moving[u] # Nothing /\ Stays(u)
<1>1. PICK d : d = deposit[moving[u].worker]
  OBVIOUS
<1>2. d \in Places /\ disk[d] \in Directory /\ RefusalIn(u, d) /\ moving[u] # Nothing /\ Stays(u)
  BY <1>1, RefusedWrites
<1>3. PICK left \in {disk[d].parcels[u], Torn, moving[u].store},
           ls \in {disk[d].locks, disk[d].locks \ {u}} :
        disk' = [disk EXCEPT ![d] = [disk[d] EXCEPT
                   !.parcels = [disk[d].parcels EXCEPT ![u] = left], !.locks = ls]]
  BY <1>2, Zenon DEF RefusalIn
<1>4. /\ disk'[d].parcels = [disk[d].parcels EXCEPT ![u] = left] /\ disk'[d].item = disk[d].item
      /\ \A e \in Places \ {d} : disk'[e] = disk[e]
  BY <1>2, <1>3 DEF Typed, DiskTyped, Directory
<1>5. disk[d].parcels \in [Users -> Parcels]
  BY <1>2 DEF Directory, Parcels
<1>6. disk'[d].parcels[u] = left /\ \A v \in Users \ {u} : disk'[d].parcels[v] = disk[d].parcels[v]
  BY <1>4, <1>5
<1> QED
  BY <1>2, <1>4, <1>6

LEMMA StaysYoung ==
    ASSUME Typed, NoOlder, NEW u \in Users, WriteMisses(u) \/ WriteRefused(u) PROVE NoOlder'
<1>1. Stays(u) /\ moving[u] # Nothing
  BY DEF WriteMisses, WriteRefused, Departing, InMove
<1>2. \A d \in Places, v \in Users : disk'[d].parcels[v] \in Young \cup {Torn}
  <2>1. CASE WriteMisses(u)
    BY <2>1 DEF WriteMisses, NoOlder
  <2>2. CASE WriteRefused(u)
    BY <1>1, <2>2, RefusedParcels DEF NoOlder
  <2> QED
    BY <2>1, <2>2
<1>3. \A v \in Users : moving'[v] # Nothing => moving'[v] = moving[v]
  BY <1>1, MoveWritten DEF Stays
<1> QED
  BY <1>1, <1>2, <1>3, YoungStays DEF Stays, course, NoOlder

LEMMA DepartedYoung == ASSUME Typed, NoOlder, NEW u \in Users, Departed(u) PROVE NoOlder'
<1>1. moving[u] # Nothing /\ moving[u].worker \in Workers
  BY MoverOf DEF Departed, Departing, InMove
<1>2. SameParcels
  BY <1>1, UnlockOrNot DEF Departed
<1>3. \A v \in Users : moving'[v] # Nothing => moving'[v] = moving[v]
  BY MoveWritten DEF Departed
<1>4. \A w \in Workers, v \in Users : rows'[w][v] \in Young
  BY <1>1, RowWritten, LifeIsYoung DEF Departed, NoOlder
<1> QED
  BY <1>2, <1>3, <1>4, YoungStays DEF Departed, NoOlder, course, SameParcels


\* Steps of a quit, and of a start, that write no parcel.
LEMMA NoParcelYoung ==
    ASSUME Typed, NoOlder,
           \/ BeginQuit \/ QuitAllDone \/ WriteItem \/ ReadItem \/ ReadNothing \/ ReadFails
           \/ DropItem \/ Adopt
           \/ \E w \in Workers : \/ AskToLeave(w) \/ BeginLeaving(w) \/ Swap(w) \/ CutStragglers(w)
                                 \/ StartWorker(w)
    PROVE  NoOlder'
<1>1. UNCHANGED <<life, fresh, rows, moving>>
  BY DEF BeginQuit, QuitAllDone, WriteItem, ReadItem, ReadNothing, ReadFails, DropItem, Adopt,
     AskToLeave, BeginLeaving, Swap, CutStragglers, StartWorker, course, processes, history
<1>2. SameParcels
  <2>1. CASE disk' = disk
    BY <2>1 DEF SameParcels
  <2>2. CASE \/ \E d \in Places : \E item : disk' = [disk EXCEPT ![d].item = item]
             \/ \E d \in Places : disk' = [disk EXCEPT ![d].there = TRUE]
    BY <2>2 DEF SameParcels, Typed, DiskTyped, Directory
  <2>3. \/ disk' = disk \/ \E d \in Places : disk' = [disk EXCEPT ![d].there = TRUE]
        \/ \E d \in Places : \E item : disk' = [disk EXCEPT ![d].item = item]
    BY DEF BeginQuit, QuitAllDone, WriteItem, ReadItem, ReadNothing, ReadFails, DropItem, Adopt,
       AskToLeave, BeginLeaving, Swap, CutStragglers, StartWorker, Places
  <2> QED
    BY <2>1, <2>2, <2>3
<1> QED
  BY <1>1, <1>2, NothingWrittenYoung

\* Processes that end; what is on disk then was there before, or is torn.
LEMMA EndsYoung ==
    ASSUME Typed, NoOlder, UNCHANGED <<life, fresh>>, NEW ws \in SUBSET Workers, Ends(ws),
           \A d \in Places, u \in Users : disk'[d].parcels[u] \in Young \cup {Torn}
    PROVE  NoOlder'
<1>1. \A w \in Workers, u \in Users : rows'[w][u] \in Young
  BY EndsTakes, LifeIsYoung DEF NoOlder
<1>2. \A u \in Users : moving'[u] # Nothing => moving'[u].store \in Young
  BY EndsTakes DEF NoOlder
<1> QED
  BY <1>1, <1>2, YoungStays

LEMMA LeftYoung ==
    ASSUME Typed, NoOlder, NEW ws \in SUBSET Workers, NEW left \in LeftByWriters(ws)
    PROVE  \A d \in Places, u \in Users : left[d].parcels[u] \in Young \cup {Torn}
BY LeftParcels DEF NoOlder

LEMMA DeathYoung ==
    ASSUME Typed, NoOlder, NEW w \in Workers,
           Leaves(w) \/ DiesServing(w) \/ DiesLeaving(w) \/ Overdue(w)
    PROVE  NoOlder'
<1>1. Ends({w}) /\ UNCHANGED <<life, fresh>>
  BY DEF Leaves, DiesServing, DiesLeaving, Overdue, course, history
<1>2. CASE Leaves(w)
  BY <1>1, <1>2, EndsYoung DEF Leaves, NoOlder
<1>3. CASE DiesLeaving(w) \/ Overdue(w)
  BY <1>1, <1>3, LeftYoung, EndsYoung DEF DiesLeaving, Overdue
<1>4. CASE DiesServing(w)
  <2>1. PICK left \in LeftByWriters({w}) : \E lost \in SUBSET Users :
          disk' = [left EXCEPT !["working"].parcels =
                     [u \in Users |-> IF u \in lost THEN Nothing ELSE @[u]],
                               !["working"].locks = @ \ lost]
    <3>1. {u \in known \ frozen : Awake(w, u) /\ home[u] = w} \in SUBSET Users
      BY DEF Typed, VertexTyped
    <3> QED
      BY <1>4, <3>1 DEF DiesServing
  <2>2. PICK lost \in SUBSET Users :
          disk' = [left EXCEPT !["working"].parcels =
                     [u \in Users |-> IF u \in lost THEN Nothing ELSE @[u]],
                               !["working"].locks = @ \ lost]
    BY <2>1
  <2>3. /\ \A d \in Places : left[d] \in Directory
        /\ left \in [Places -> Directory]
    BY LeftParcels, LeftTyped DEF Typed
  <2>4. /\ disk'["working"].parcels =
             [u \in Users |-> IF u \in lost THEN Nothing ELSE left["working"].parcels[u]]
        /\ \A d \in Places \ {"working"} : disk'[d] = left[d]
    BY <2>2, <2>3 DEF Directory, Places
  <2>5. \A d \in Places, u \in Users :
          disk'[d].parcels[u] = Nothing \/ disk'[d].parcels[u] = left[d].parcels[u]
    BY <2>4
  <2>6. \A d \in Places, u \in Users : disk'[d].parcels[u] \in Young \cup {Torn}
    BY <2>5, LeftYoung, LifeIsYoung
  <2> QED
    BY <1>1, <2>6, EndsYoung
<1> QED
  BY <1>2, <1>3, <1>4

\* The vertex ends.
LEMMA VertexEndsYoung ==
    ASSUME Typed, NoOlder,
           \/ Commit \/ QuitRaises \/ StopDry \/ Crash
           \/ \E w \in Workers : DiesUnderOrder(w)
    PROVE  NoOlder'
<1>1. Falls /\ Ends(Workers) /\ UNCHANGED <<life, fresh>>
  BY DEF Commit, QuitRaises, StopDry, Crash, DiesUnderOrder, Falls, history
<1>2. \A d \in Places, u \in Users : disk'[d].parcels[u] \in Young \cup {Torn}
  <2>1. CASE Commit
    <3>1. \A u \in Users : Gone.parcels[u] = Nothing
      BY DEF Gone, Bare
    <3>2. \A d \in Places : disk'[d] = Gone \/ \E e \in Places : disk'[d] = disk[e]
      BY <2>1 DEF Commit, Rename, Places, Typed, DiskTyped
    <3> QED
      BY <3>1, <3>2, LifeIsYoung DEF NoOlder
  <2>2. CASE QuitRaises
    <3>1. disk' = disk \/ disk' = [disk EXCEPT !["temp"].item.state = "torn"]
      BY <2>2 DEF QuitRaises
    <3>2. SameParcels
      BY <3>1 DEF SameParcels, Typed, DiskTyped, Directory, Places
    <3> QED
      BY <3>2 DEF SameParcels, NoOlder
  <2>3. CASE StopDry \/ Crash \/ \E w \in Workers : DiesUnderOrder(w)
    <3>1. PICK left \in LeftByWriters(Workers) :
            disk' = left \/ disk' = [left EXCEPT !["temp"].item.state = "torn"]
      BY <2>3 DEF StopDry, Crash, DiesUnderOrder
    <3>2. left \in [Places -> Directory]
      BY LeftTyped DEF Typed
    <3>3. \A d \in Places : disk'[d].parcels = left[d].parcels
      BY <3>1, <3>2 DEF Directory, Places
    <3> QED
      BY <3>3, LeftYoung
  <2> QED
    BY <2>1, <2>2, <2>3
<1> QED
  BY <1>1, <1>2, EndsYoung

\* One file after another goes, and nothing comes.
LEMMA UnlinkedParcels ==
    ASSUME Typed, Unlinks
    PROVE  /\ \A d \in Places, u \in Users :
                \/ disk'[d].parcels[u] = disk[d].parcels[u]
                \/ disk'[d].parcels[u] = Nothing
           /\ disk'["temp"] = disk["temp"]
<1>1. disk["data"] \in Directory
  BY DEF Typed, DiskTyped, Places
<1>2. CASE \E item : disk' = [disk EXCEPT !["data"].item = item]
  BY <1>1, <1>2 DEF Typed, DiskTyped, Directory, Places
<1>3. CASE \E us : disk' = [disk EXCEPT !["data"].locks = us]
  BY <1>1, <1>3 DEF Typed, DiskTyped, Directory, Places
<1>4. CASE \E u \in Users : disk' = [disk EXCEPT !["data"].parcels[u] = Nothing]
  <2>1. PICK u \in Users : disk' = [disk EXCEPT !["data"].parcels[u] = Nothing]
    BY <1>4
  <2>2. disk'["temp"] = disk["temp"]
    BY <2>1 DEF Typed, DiskTyped, Places
  <2> QED
    BY <2>1, <2>2, ParcelWritten DEF Places
<1> QED
  BY <1>2, <1>3, <1>4 DEF Unlinks

LEMMA UnlinksYoung == ASSUME Typed, NoOlder, Unlinks PROVE NoOlder'
<1>1. UNCHANGED <<life, fresh, rows, moving>>
  BY DEF Unlinks, course, processes
<1>2. \A d \in Places, u \in Users : disk'[d].parcels[u] \in Young \cup {Torn}
  BY UnlinkedParcels, LifeIsYoung DEF NoOlder
<1> QED
  BY <1>1, <1>2, YoungStays DEF NoOlder

\* The steps of a start that empty a directory, move one or drop the old.
LEMMA BootYoung ==
    ASSUME Typed, NoOlder, TempDropped, Standing,
           \/ WipeWorking \/ DropTemp \/ StartClean \/ DropWorking \/ RenameIn
           \/ \E old \in SUBSET Users : Expire(old)
    PROVE  NoOlder'
<1>1. \A u \in Users : Gone.parcels[u] = Nothing /\ Emptied.parcels[u] = Nothing
  BY DEF Gone, Emptied, Bare
<1>2. \A u \in Users : moving[u] = Nothing
  <2>1. at \notin Running
    BY DEF WipeWorking, DropTemp, StartClean, DropWorking, RenameIn, Expire, Running
  <2> QED
    BY <2>1 DEF Standing, Idle
<1>3. UNCHANGED <<rows, moving>>
  BY DEF WipeWorking, DropTemp, StartClean, DropWorking, RenameIn, Expire, processes
<1>4. CASE WipeWorking
  <2>1. life' = life + 1 /\ life \in Nat /\ fresh' = fresh /\ fresh \in 0..life
    BY <1>4, Constants DEF WipeWorking, history, Typed, CourseTyped, NoOlder
  <2>2. Young \subseteq Young' /\ fresh' \in 0..life' /\ Nothing \in Young'
    BY <2>1 DEF Young
  <2>3. \A d \in Places : disk'[d] = Emptied \/ disk'[d] = disk[d]
    BY <1>4 DEF WipeWorking, Typed, DiskTyped
  <2>4. \A d \in Places, u \in Users : disk'[d].parcels[u] \in Young' \cup {Torn}
    BY <1>1, <2>2, <2>3 DEF NoOlder
  <2>5. \A w \in Workers, u \in Users : rows'[w][u] \in Young'
    BY <1>3, <2>2 DEF NoOlder
  <2> QED
    BY <1>2, <1>3, <2>2, <2>4, <2>5 DEF NoOlder
<1>5. CASE DropTemp \/ DropWorking \/ RenameIn
  <2>1. \A d \in Places : disk'[d] = Gone \/ \E e \in Places : disk'[d] = disk[e]
    BY <1>5 DEF DropTemp, DropWorking, RenameIn, Rename, Typed, DiskTyped, Places
  <2>2. \A d \in Places, u \in Users : disk'[d].parcels[u] \in Young \cup {Torn}
    BY <1>1, <2>1, LifeIsYoung DEF NoOlder
  <2> QED
    BY <1>2, <1>3, <1>5, <2>2, YoungStays DEF DropTemp, DropWorking, RenameIn, history, NoOlder
<1>6. CASE StartClean
  <2>1. /\ disk'["data"] = Gone /\ disk'["working"] = Emptied /\ disk'["temp"] = Gone
        /\ \A w \in Workers, u \in Users : rows[w][u] = Nothing
    BY <1>6 DEF StartClean, Standing, Blank, TempDropped, Running, Typed, DiskTyped, Places
  <2>2. fresh' = life /\ life' = life /\ life \in Nat
    BY <1>6, Constants DEF StartClean, Typed, CourseTyped
  <2>3. fresh' \in 0..life' /\ Nothing \in Young'
    BY <2>2 DEF Young
  <2>4. \A d \in Places, u \in Users : disk'[d].parcels[u] \in Young' \cup {Torn}
    BY <1>1, <2>1, <2>3 DEF Places
  <2> QED
    BY <1>2, <1>3, <2>1, <2>3, <2>4 DEF NoOlder
<1>7. CASE \E old \in SUBSET Users : Expire(old)
  <2>1. PICK old \in SUBSET Users : Expire(old)
    BY <1>7
  <2>2. disk["working"] \in Directory
    BY DEF Typed, DiskTyped, Places
  <2>3. /\ disk'["working"].parcels =
             [u \in Users |-> IF u \in old THEN Nothing ELSE disk["working"].parcels[u]]
        /\ \A d \in Places \ {"working"} : disk'[d] = disk[d]
    BY <2>1, <2>2 DEF Expire, Typed, DiskTyped, Directory, Places
  <2>4. \A d \in Places, u \in Users :
          disk'[d].parcels[u] = Nothing \/ disk'[d].parcels[u] = disk[d].parcels[u]
    BY <2>3
  <2>5. \A d \in Places, u \in Users : disk'[d].parcels[u] \in Young \cup {Torn}
    BY <2>4, LifeIsYoung DEF NoOlder
  <2> QED
    BY <1>2, <1>3, <2>1, <2>5, YoungStays DEF Expire, NoOlder
<1> QED
  BY <1>4, <1>5, <1>6, <1>7

LEMMA NoOlderStep ==
    ASSUME Typed, Standing, NoOlder, TempDropped, [Next]_vars PROVE NoOlder'
<1>1. CASE Boot
  BY <1>1, NoParcelYoung, UnlinksYoung, BootYoung DEF Boot
<1>2. CASE Service
  BY <1>2, NoParcelYoung, BornYoung, RequestsYoung, PullReadsYoung, PullFailsYoung,
     PullLandsYoung, AnswerYoung
  DEF Service
<1>3. CASE Departure
  BY <1>3, RequestsYoung, WritesYoung, StaysYoung, DepartedYoung DEF Departure
<1>4. CASE Quit
  BY <1>4, NoParcelYoung, DeathYoung, VertexEndsYoung DEF Quit
<1>5. CASE GoesWrong
  BY <1>5, DeathYoung, VertexEndsYoung DEF GoesWrong
<1>6. CASE UNCHANGED vars
  BY <1>6 DEF vars, course, processes, history, NoOlder, Young
<1> QED
  BY <1>1, <1>2, <1>3, <1>4, <1>5, <1>6 DEF Next

\* The start, where nothing is in memory, and its end, where nothing is left.
LEMMA BootDrops ==
    ASSUME Typed, TempDropped,
           \/ WipeWorking \/ DropTemp \/ ReadItem \/ ReadNothing \/ ReadFails \/ Unlinks
           \/ StartClean \/ DropItem \/ DropWorking \/ RenameIn \/ Adopt
           \/ (\E old \in SUBSET Users : Expire(old)) \/ (\E w \in Workers : StartWorker(w))
    PROVE  TempDropped'
<1>1. UNCHANGED rows
  BY DEF WipeWorking, DropTemp, ReadItem, ReadNothing, ReadFails, Unlinks, StartClean, DropItem,
     DropWorking, RenameIn, Adopt, Expire, StartWorker, processes
<1>2. CASE at' \in Running
  BY <1>2 DEF TempDropped, Running
<1>3. CASE at' \notin Running
  <2>1. at \notin Running
    BY <1>3 DEF WipeWorking, DropTemp, ReadItem, ReadNothing, ReadFails, Unlinks, StartClean,
       DropItem, DropWorking, RenameIn, Adopt, Expire, StartWorker, Running, course
  <2>2. CASE WipeWorking
    BY <1>1, <2>1, <2>2 DEF WipeWorking, TempDropped
  <2>3. CASE DropTemp
    BY <1>1, <2>1, <2>3 DEF DropTemp, TempDropped, Typed, DiskTyped, Places
  <2>4. CASE Unlinks
    <3>1. disk["temp"] = Gone
      BY <2>4 DEF Unlinks, TempDropped
    <3> QED
      BY <1>1, <2>1, <2>4, <3>1, UnlinkedParcels DEF TempDropped
  <2>5. CASE ~WipeWorking /\ ~DropTemp /\ ~Unlinks
    <3>1. disk'["temp"] = disk["temp"]
      BY <1>3, <2>5 DEF ReadItem, ReadNothing, ReadFails, StartClean, DropItem, DropWorking, RenameIn,
         Rename, Adopt, Expire, StartWorker, Running, Typed, DiskTyped, Places
    <3>2. disk["temp"] = Gone
      BY <1>3, <2>5 DEF ReadItem, ReadNothing, ReadFails, StartClean, DropItem, DropWorking, RenameIn,
         Adopt, Expire, StartWorker, Running, TempDropped
    <3> QED
      BY <1>1, <2>1, <3>1, <3>2 DEF TempDropped
  <2> QED
    BY <2>2, <2>3, <2>4, <2>5
<1> QED
  BY <1>2, <1>3

LEMMA TempDroppedStep ==
    ASSUME Typed, Standing, TempDropped, [Next]_vars PROVE TempDropped'
<1>1. ASSUME Falls PROVE TempDropped'
  <2>1. at' = "down" /\ \A w \in Workers, u \in Users : rows'[w][u] = Nothing
    BY <1>1, EndsTakes DEF Falls
  <2> QED
    BY <2>1 DEF TempDropped
<1>2. ASSUME at' \in Running PROVE TempDropped'
  BY <1>2 DEF TempDropped, Running
<1>3. CASE Boot
  BY <1>3, BootDrops DEF Boot
<1>4. CASE Service
  BY <1>2, <1>4, BootDrops, ServiceQuiet, MovesQuiet DEF Service, Quiet
<1>5. CASE Departure
  BY <1>2, <1>5, ServiceQuiet, MovesQuiet DEF Departure, Quiet
<1>6. CASE Quit
  BY <1>1, <1>2, <1>6, VertexQuitKeeps, WorkerQuitKeeps DEF Quit, Commit, QuitRaises
<1>7. CASE GoesWrong
  BY <1>1, <1>2, <1>7, DeathQuiet DEF GoesWrong, Quiet, DiesUnderOrder, StopDry, Crash
<1>8. CASE UNCHANGED vars
  BY <1>8 DEF vars, course, processes, TempDropped
<1> QED
  BY <1>3, <1>4, <1>5, <1>6, <1>7, <1>8 DEF Next

LEMMA YoungInit == Init => NoOlder /\ TempDropped
<1> SUFFICES ASSUME Init PROVE NoOlder /\ TempDropped
  OBVIOUS
<1>1. \A u \in Users : Gone.parcels[u] = Nothing
  BY DEF Gone, Bare
<1> QED
  BY <1>1 DEF Init, NoOlder, TempDropped, Young, Places

\* wipe_root and the drop of a leftover reboot_temp: once a machine has begun with nothing,
\* no store from before that is in a process, in a deposit or in a photo, however often the
\* machine fell half way through a quit or a start.
THEOREM NothingOldIsServed == Spec => []NothingOld
<1>1. Init => IInv /\ NoOlder /\ TempDropped
  BY TypedInit, StandingInit, YoungInit DEF IInv
<1>2. IInv /\ NoOlder /\ TempDropped /\ [Next]_vars => (IInv /\ NoOlder /\ TempDropped)'
  BY TypedStep, StandingStep, NoOlderStep, TempDroppedStep DEF IInv
<1>3. NoOlder => NothingOld
  BY DEF NoOlder, NothingOld, Young
<1> QED
  BY <1>1, <1>2, <1>3, PTL DEF Spec
-----------------------------------------------------------------------------
(* The work the machine answers for.  Why it is kept: who is in a worker's  *)
(* memory is there with all he did, and he is photographed when no request *)
(* of his can add to it; the quit flags whoever is awake before the process *)
(* of his worker may end, and only who was asleep when it began, or came   *)
(* home too late, is not in its photo.                                     *)

Departs(u) == moving[u] # Nothing /\ moving[u].kind \in {"order", "transfer"}
Pulls(u) == moving[u] # Nothing /\ moving[u].kind = "pull"
Asleep(u) == \A w \in Workers : ~Awake(w, u)

\* Who is in a worker's memory lives there, and so does who moves.
AtHome(u) ==
    \A w \in Workers : Awake(w, u) =>
        /\ home[u] = w /\ u \in known /\ proc[w] # "off"
        /\ u \in frozen => calling[u] = w \/ proc[w] # "running"
MovesAtHome(u) ==
    moving[u] # Nothing =>
        /\ home[u] = moving[u].worker /\ u \in known /\ proc[moving[u].worker] # "off"
        /\ moving[u].dir = "temp" => deposit[moving[u].worker] = "temp"
PullsAsleep(u) ==
    Pulls(u) =>
        /\ Asleep(u) /\ u \in frozen
        /\ moving[u].stage # "waiting" /\ moving[u].dir = "working"
        /\ calling[u] = moving[u].worker \/ proc[moving[u].worker] # "running"
Homed(u) ==
    /\ u \in frozen => u \in known
    /\ AtHome(u) /\ MovesAtHome(u) /\ PullsAsleep(u)
    /\ Departs(u) => Awake(moving[u].worker, u)
    /\ calling[u] # Nowhere => proc[calling[u]] # "off"

\* Whose photograph is being taken where it counts: in the working deposit of a
\* machine that serves, in the provisional one of a machine that quits.
Here == IF at = "up" THEN "working" ELSE "temp"
Photographed(u) ==
    Departs(u) /\ moving[u].stage # "waiting" /\ moving[u].dir = Here =>
        LET store == rows[moving[u].worker][u] IN
        /\ moving[u].stage = "locked" => moving[u].store = store
        /\ moving[u].stage = "done" => disk[Here].parcels[u] = store
        /\ calling[u] = moving[u].worker => store = life

\* Who has not been served by this machine is not called while he leaves.
Blocked(u) ==
    /\ at = "up" /\ Departs(u) /\ rows[moving[u].worker][u] # life => u \in held
    /\ at = "quitting" /\ asked # Nowhere /\ Awake(asked, u) /\ rows[asked][u] # life => u \in held
    /\ at = "quitting" /\ Pulls(u) /\ moving[u].worker = asked => u \in held

\* Who is to be in the photo is flagged as long as he is awake.
Flagged(u) ==
    u \notin excused =>
        \A w \in Workers : Awake(w, u) /\ deposit[w] = "temp" => u \in flags[w]

\* Where the work is: in memory or in the deposit while the machine serves, in
\* memory or in the photo while it quits, in the photo between two machines.
InMemory(u) == \A w \in Workers : Awake(w, u) => rows[w][u] = owed[u]
Serves(u) ==
    /\ InMemory(u)
    /\ Asleep(u) => IF InMove(u, "pull", "done") THEN moving[u].store = owed[u]
                    ELSE u \in frozen /\ disk["working"].parcels[u] = owed[u]
Quits(u) ==
    /\ u \in known /\ InMemory(u)
    /\ Asleep(u) => moving[u] = Nothing /\ disk["temp"].parcels[u] = owed[u]
OnDisk(u) ==
    /\ at \in {"down", "wiped", "cleared", "found", "missing"} =>
         /\ disk["data"].item.state = "whole" /\ u \in disk["data"].item.users
         /\ disk["data"].parcels[u] = owed[u]
    /\ at \in {"spent", "cleared_working"} =>
         u \in saved.users /\ disk["data"].parcels[u] = owed[u]
    /\ at = "renamed" => u \in saved.users /\ disk["working"].parcels[u] = owed[u]
    /\ at \in {"adopted", "judged"} => u \in frozen /\ disk["working"].parcels[u] = owed[u]
    /\ at = "gathered" => u \in known /\ disk["temp"].parcels[u] = owed[u]
    /\ at = "written" => u \in disk["temp"].item.users /\ disk["temp"].parcels[u] = owed[u]
Carried(u) ==
    u \notin excused /\ owed[u] # 0 =>
        /\ at = "up" => Serves(u)
        /\ at = "quitting" => Quits(u)
        /\ OnDisk(u)

UserKept(u) == Homed(u) /\ Photographed(u) /\ Blocked(u) /\ Flagged(u) /\ Carried(u)

\* One worker leaves at a time, its deposit is replaced once it does, and all
\* have left when the quit is over.
Turn(w) ==
    /\ deposit[w] = "temp" => proc[w] \in {"leaving", "cut"}
    /\ proc[w] \in {"leaving", "cut"} => asked = w
    /\ at = "quitting" /\ proc[w] # "off" => w \in todo \/ asked = w
    /\ at \in {"gathered", "written"} => proc[w] = "off"
InTurn ==
    /\ at # "quitting" => asked = Nowhere
    /\ \A w \in Workers : Turn(w)

AllKept == InTurn /\ \A u \in Users : UserKept(u)
-----------------------------------------------------------------------------
(* Steps that concern one user.                                            *)

\* Nothing is said or done about him, and no process changes its place in the quit.
Aside(u) ==
    /\ home'[u] = home[u] /\ calling'[u] = calling[u]
    /\ moving'[u] = moving[u] /\ owed'[u] = owed[u]
    /\ u \in known' <=> u \in known
    /\ u \in frozen' <=> u \in frozen
    /\ u \in held' <=> u \in held
    /\ u \in excused' <=> u \in excused
    /\ \A w \in Workers : rows'[w][u] = rows[w][u] /\ (u \in flags'[w] <=> u \in flags[w])
    /\ \A d \in Places : disk'[d].parcels[u] = disk[d].parcels[u]
SameMachine ==
    /\ UNCHANGED <<course, proc, deposit>>
    /\ \A d \in Places : disk'[d].item = disk[d].item
Concerns(u) == SameMachine /\ \A v \in Users \ {u} : Aside(v)

LEMMA AwakeSame ==
    ASSUME NEW v \in Users, \A w \in Workers : rows'[w][v] = rows[w][v], moving'[v] = moving[v]
    PROVE  /\ \A w \in Workers : Awake(w, v)' <=> Awake(w, v)
           /\ Asleep(v)' <=> Asleep(v)
           /\ Departs(v)' <=> Departs(v)
           /\ Pulls(v)' <=> Pulls(v)
BY DEF Awake, Asleep, Departs, Pulls

LEMMA AsideKept ==
    ASSUME Typed, SameMachine, NEW v \in Users, Aside(v), UserKept(v) PROVE UserKept(v)'
<1>1. /\ \A w \in Workers : Awake(w, v)' <=> Awake(w, v)
      /\ Asleep(v)' <=> Asleep(v)
      /\ Departs(v)' <=> Departs(v)
      /\ Pulls(v)' <=> Pulls(v)
  BY AwakeSame DEF Aside
<1>2. Homed(v)'
  <2>1. Homed(v) /\ UNCHANGED <<proc, deposit>>
    BY DEF UserKept, SameMachine
  <2>2. /\ home'[v] = home[v] /\ calling'[v] = calling[v] /\ moving'[v] = moving[v]
        /\ v \in known' <=> v \in known
        /\ v \in frozen' <=> v \in frozen
    BY DEF Aside
  <2>3. AtHome(v)'
    BY <1>1, <2>1, <2>2 DEF Homed, AtHome
  <2>4. MovesAtHome(v)'
    BY <2>1, <2>2 DEF Homed, MovesAtHome
  <2>5. PullsAsleep(v)'
    BY <1>1, <2>1, <2>2 DEF Homed, PullsAsleep
  <2>6. Departs(v)' => Awake(moving[v].worker, v)'
    BY <2>1, <2>2, MoverOf DEF Homed, Departs, Awake, Aside
  <2> QED
    BY <2>1, <2>2, <2>3, <2>4, <2>5, <2>6 DEF Homed
<1>3. at' = at /\ life' = life /\ asked' = asked /\ saved' = saved /\ deposit' = deposit
  BY DEF SameMachine, course
<1>4. moving[v] # Nothing => moving[v].worker \in Workers
  BY MoverOf
<1>5. Photographed(v)'
  BY <1>1, <1>3, <1>4 DEF UserKept, Photographed, Here, Places, Aside, Departs
<1>6. Blocked(v)'
  <2>1. asked = Nowhere \/ asked \in Workers
    BY DEF Typed, CourseTyped
  <2> QED
    BY <1>1, <1>3, <1>4, <2>1 DEF UserKept, Blocked, Aside, Departs
<1>7. Carried(v)'
  <2>1. InMemory(v)' <=> InMemory(v)
    BY <1>1 DEF InMemory, Aside
  <2>2. InMove(v, "pull", "done")' <=> InMove(v, "pull", "done")
    BY DEF InMove, Aside
  <2>3. Serves(v) => Serves(v)'
    BY <1>1, <2>1, <2>2 DEF Serves, Aside, Places
  <2>4. Quits(v) => Quits(v)'
    BY <1>1, <2>1 DEF Quits, Aside, Places
  <2>5. OnDisk(v) => OnDisk(v)'
    BY <1>3 DEF OnDisk, Aside, Places, SameMachine
  <2> QED
    BY <1>3, <2>3, <2>4, <2>5 DEF UserKept, Carried, Aside
<1>8. Flagged(v)'
  BY <1>1, <1>3 DEF UserKept, Flagged, Aside
<1> QED
  BY <1>2, <1>5, <1>6, <1>7, <1>8 DEF UserKept

LEMMA ConcernsKept ==
    ASSUME Typed, AllKept, NEW u \in Users, Concerns(u), UserKept(u)' PROVE AllKept'
<1>1. InTurn'
  BY DEF AllKept, InTurn, Turn, Concerns, SameMachine, course
<1>2. \A v \in Users : UserKept(v)'
  BY AsideKept DEF AllKept, Concerns
<1> QED
  BY <1>1, <1>2 DEF AllKept

\* Every step of a service and of a departure, whatever it does to its user.
Does(u) ==
    \/ \E w \in Workers : \/ Born(w, u) \/ Call(w, u) \/ Return(w, u)
                          \/ OrderFreeze(w, u) \/ DepartsOrdered(w, u) \/ DepartsFlagged(w, u)
    \/ PullReads(u) \/ PullFails(u) \/ PullLands(u) \/ Answer(u)
    \/ Writes(u) \/ WriteMisses(u) \/ WriteRefused(u) \/ Departed(u)

LEMMA DoesVertex ==
    ASSUME Typed, NEW u \in Users, Does(u), NEW v \in Users \ {u}
    PROVE  /\ UNCHANGED <<course, proc, deposit>>
           /\ home'[v] = home[v] /\ owed'[v] = owed[v] /\ calling'[v] = calling[v]
           /\ v \in known' <=> v \in known
           /\ v \in frozen' <=> v \in frozen
           /\ v \in held' <=> v \in held
           /\ v \in excused' <=> v \in excused
<1> USE DEF Does, Born, Call, Return, OrderFreeze, DepartsOrdered, DepartsFlagged, PullReads,
       PullFails, PullLands, Answer, Writes, WriteMisses, WriteRefused, Stays, Departed, vertex, history
<1>1. UNCHANGED <<course, proc, deposit>>
  BY Zenon
<1>2. home'[v] = home[v]
  <2>1. home' = home \/ \E x : home' = [home EXCEPT ![u] = x]
    BY Zenon
  <2> HIDE DEF Does
  <2> QED
    BY <2>1 DEF Typed, VertexTyped
<1>3. owed'[v] = owed[v]
  <2>1. owed' = owed \/ \E x : owed' = [owed EXCEPT ![u] = x]
    BY Zenon
  <2> HIDE DEF Does
  <2> QED
    BY <2>1 DEF Typed, HistoryTyped
<1>4. calling'[v] = calling[v]
  <2>1. calling' = calling \/ \E x : calling' = [calling EXCEPT ![u] = x]
    BY Zenon
  <2> HIDE DEF Does
  <2> QED
    BY <2>1 DEF Typed, ProcessesTyped
<1>5. v \in known' <=> v \in known
  <2>1. known' = known \/ known' = known \cup {u}
    BY Zenon
  <2> HIDE DEF Does
  <2> QED
    BY <2>1
<1>6. v \in frozen' <=> v \in frozen
  <2>1. frozen' = frozen \/ frozen' = frozen \cup {u} \/ frozen' = frozen \ {u}
    BY Zenon
  <2> HIDE DEF Does
  <2> QED
    BY <2>1
<1>7. v \in held' <=> v \in held
  <2>1. held' = held \/ held' = held \cup {u} \/ held' = held \ {u}
    BY Zenon
  <2> HIDE DEF Does
  <2> QED
    BY <2>1
<1>8. v \in excused' <=> v \in excused
  <2>1. \/ excused' = excused \/ excused' = excused \cup {u} \/ excused' = excused \ {u}
        \/ excused' = excused \cup Uncarried({u})
    BY Zenon
  <2> HIDE DEF Does
  <2> QED
    BY <2>1 DEF Uncarried
<1> HIDE DEF Does
<1> QED
  BY <1>1, <1>2, <1>3, <1>4, <1>5, <1>6, <1>7, <1>8

LEMMA OtherRows ==
    ASSUME Typed, NEW u \in Users, NEW v \in Users \ {u}, NEW x \in Workers, NEW store,
           rows' = [rows EXCEPT ![x][u] = store]
    PROVE  \A w \in Workers : rows'[w][v] = rows[w][v]
BY RowWritten

LEMMA DoesMemory ==
    ASSUME Typed, NEW u \in Users, Does(u), NEW v \in Users \ {u}
    PROVE  /\ moving'[v] = moving[v]
           /\ \A w \in Workers : rows'[w][v] = rows[w][v] /\ (v \in flags'[w] <=> v \in flags[w])
<1>0. /\ moving[u] # Nothing => moving[u].worker \in Workers
      /\ calling[u] = Nowhere \/ calling[u] \in Workers
  BY MoverOf DEF Typed, ProcessesTyped
<1>1. moving'[v] = moving[v]
  <2>1. moving' = moving \/ \E x : moving' = [moving EXCEPT ![u] = x]
    BY DEF Claims, Typed, ProcessesTyped, Does, Born, Call, Return, OrderFreeze, DepartsOrdered,
       DepartsFlagged, PullReads, PullFails, PullLands, Answer, Writes, WriteMisses, WriteRefused,
       Stays, Departed
  <2> QED
    BY <2>1, MoveWritten
<1>2. \A w \in Workers : rows'[w][v] = rows[w][v]
  <2>1. rows' = rows \/ \E w \in Workers : \E x : rows' = [rows EXCEPT ![w][u] = x]
    BY <1>0, Zenon DEF InMove, Departing, Does, Born, Call, Return, OrderFreeze, DepartsOrdered,
       DepartsFlagged, PullReads, PullFails, PullLands, Answer, Writes, WriteMisses, WriteRefused,
       Stays, Departed
  <2>2. CASE rows' = rows
    BY <2>2
  <2>3. ASSUME NEW x \in Workers, NEW store, rows' = [rows EXCEPT ![x][u] = store]
        PROVE  \A w \in Workers : rows'[w][v] = rows[w][v]
    BY <2>3, OtherRows
  <2> QED
    BY <2>1, <2>2, <2>3
<1>3. \A w \in Workers : v \in flags'[w] <=> v \in flags[w]
  <2>1. ASSUME NEW w \in Workers, flags' = [flags EXCEPT ![w] = @] PROVE flags' = flags
    BY <2>1 DEF Typed, ProcessesTyped
  <2>2. flags' = flags \/ \E w \in Workers : flags' = [flags EXCEPT ![w] = @ \ {u}]
    BY <1>0, <2>1, Zenon DEF InMove, Departing, Does, Born, Call, Return, OrderFreeze,
       DepartsOrdered, DepartsFlagged, PullReads, PullFails, PullLands, Answer, Writes,
       WriteMisses, WriteRefused, Stays, Departed
  <2>3. CASE flags' = flags
    BY <2>3
  <2>4. ASSUME NEW x \in Workers, flags' = [flags EXCEPT ![x] = @ \ {u}]
        PROVE  \A w \in Workers : v \in flags'[w] <=> v \in flags[w]
    <3>1. \A w \in Workers : flags'[w] = IF w = x THEN flags[x] \ {u} ELSE flags[w]
      BY <2>4 DEF Typed, ProcessesTyped
    <3> QED
      BY <3>1
  <2> QED
    BY <2>2, <2>3, <2>4
<1> QED
  BY <1>1, <1>2, <1>3

LEMMA DoesDisk ==
    ASSUME Typed, NEW u \in Users, Does(u)
    PROVE  \A d \in Places : /\ disk'[d].item = disk[d].item
                             /\ \A v \in Users \ {u} : disk'[d].parcels[v] = disk[d].parcels[v]
<1>1. CASE disk' = disk
  BY <1>1
<1>2. CASE \E w \in Workers : Locks(w, u)
  BY <1>2, LocksParcels DEF SameParcels
<1>3. CASE moving[u] # Nothing /\ disk' = [disk EXCEPT ![moving[u].dir].locks = @ \ {u}]
  BY <1>3, UnlockOrNot DEF SameParcels
<1>4. CASE \E d \in Places : \E x : disk' = [disk EXCEPT ![d].parcels[u] = x]
  BY <1>4, ParcelWritten
<1>5. \/ WriteRefused(u)
      \/ disk' = disk \/ \E w \in Workers : Locks(w, u)
      \/ moving[u] # Nothing /\ disk' = [disk EXCEPT ![moving[u].dir].locks = @ \ {u}]
      \/ \E d \in Places : \E x : disk' = [disk EXCEPT ![d].parcels[u] = x]
  <2>1. moving[u] # Nothing => deposit[moving[u].worker] \in Places
    BY MoverOf, DirectoryOf
  <2>2. calling[u] = Nowhere \/ calling[u] \in Workers
    BY DEF Typed, ProcessesTyped
  <2> QED
    BY <2>1, <2>2, Zenon DEF Does, Born, Call, Return, OrderFreeze, DepartsOrdered, DepartsFlagged,
       PullReads, PullFails, PullLands, Answer, Writes, WriteMisses, Departed, Claims, InMove,
       Departing
<1>6. CASE WriteRefused(u)
  BY <1>6, RefusedParcels
<1> QED
  BY <1>1, <1>2, <1>3, <1>4, <1>5, <1>6

LEMMA DoesConcerns == ASSUME Typed, NEW u \in Users, Does(u) PROVE Concerns(u)
<1>1. UNCHANGED <<course, proc, deposit>>
  BY Zenon DEF Does, Born, Call, Return, OrderFreeze, DepartsOrdered, DepartsFlagged, PullReads,
     PullFails, PullLands, Answer, Writes, WriteMisses, WriteRefused, Stays, Departed
<1> QED
  BY <1>1, DoesVertex, DoesMemory, DoesDisk DEF Concerns, SameMachine, Aside
-----------------------------------------------------------------------------
(* What each step does to its user.                                        *)

LEMMA Place ==
    ASSUME Typed, Standing, AllKept, NEW w \in Workers
    PROVE  /\ proc[w] = "running" => deposit[w] = "working"
           /\ at = "up" => deposit[w] = "working"
           /\ deposit[w] = "temp" \/ proc[w] \in {"leaving", "cut"} => asked = w /\ at = "quitting"
           /\ proc[w] # "off" => at \in {"up", "quitting"}
<1>1. Turn(w) /\ (at # "quitting" => asked = Nowhere)
  BY DEF AllKept, InTurn
<1>2. deposit[w] \in {"working", "temp"} /\ Nowhere # w
  BY DepositOf, Constants
<1>3. proc[w] # "off" => at \in Running
  BY DEF Standing, Idle
<1> QED
  BY <1>1, <1>2, <1>3 DEF Turn, AllKept, InTurn, Running

LEMMA Busy ==
    ASSUME Typed, Standing, AllKept, NEW u \in Users, moving[u] # Nothing \/ calling[u] # Nowhere
    PROVE  at \in {"up", "quitting"}
<1>1. Homed(u)
  BY DEF AllKept, UserKept
<1>2. CASE moving[u] # Nothing
  BY <1>1, <1>2, MoverOf, Place DEF Homed, MovesAtHome
<1>3. CASE calling[u] # Nowhere
  <2>1. calling[u] \in Workers /\ proc[calling[u]] # "off"
    BY <1>1, <1>3 DEF Homed, Typed, ProcessesTyped
  <2> QED
    BY <2>1, Place
<1> QED
  BY <1>2, <1>3

LEMMA OneHome ==
    ASSUME NEW u, Homed(u), NEW w \in Workers, Awake(w, u)
    PROVE  /\ \A x \in Workers : Awake(x, u) => x = w
           /\ moving[u] # Nothing => moving[u].worker = w
           /\ home[u] = w /\ u \in known /\ ~Asleep(u)
BY DEF Homed, AtHome, MovesAtHome, Asleep

\* While the machine runs the photo is no concern of anybody's.
LEMMA RunningCarries ==
    ASSUME NEW u, at' \in {"up", "quitting"},
           u \notin excused' /\ owed'[u] # 0 /\ at' = "up" => Serves(u)',
           u \notin excused' /\ owed'[u] # 0 /\ at' = "quitting" => Quits(u)'
    PROVE  Carried(u)'
BY DEF Carried, OnDisk

LEMMA LifeIsAStore == ASSUME Typed PROVE life \in Nat /\ life # Nothing
BY Constants DEF Typed, CourseTyped

LEMMA BornKept ==
    ASSUME Typed, Standing, AllKept, NEW w \in Workers, NEW u \in Users, Born(w, u)
    PROVE  UserKept(u)'
<1>1. /\ at' = at /\ life' = life /\ asked' = asked /\ proc' = proc /\ deposit' = deposit
      /\ at \in {"up", "quitting"} /\ proc[w] # "off" /\ u \notin known /\ moving[u] = Nothing
      /\ known' = known \cup {u} /\ frozen' = frozen /\ moving' = moving /\ calling' = calling
      /\ excused' = IF proc[w] = "running" THEN excused \ {u} ELSE excused \cup {u}
  BY DEF Born, Serving, course
<1>2. Homed(u)
  BY DEF AllKept, UserKept
<1>3. u \notin frozen /\ \A x \in Workers : ~Awake(x, u)
  BY <1>1, <1>2 DEF Homed, AtHome
<1>4. /\ home'[u] = w /\ owed'[u] = life
      /\ rows'[w][u] = life /\ \A x \in Workers \ {w} : rows'[x][u] = rows[x][u]
  <2>1. home'[u] = w /\ owed'[u] = life
    BY DEF Born, Typed, VertexTyped, HistoryTyped
  <2>2. rows' = [rows EXCEPT ![w][u] = life]
    BY DEF Born
  <2>3. rows'[w][u] = life /\ \A x \in Workers, v \in Users : x # w \/ v # u => rows'[x][v] = rows[x][v]
    BY <2>2 DEF Typed, ProcessesTyped
  <2> QED
    BY <2>1, <2>3
<1>5. \A x \in Workers : Awake(x, u)' <=> x = w
  BY <1>3, <1>4, LifeIsAStore DEF Awake
<1>6. ~Departs(u)' /\ ~Pulls(u)' /\ moving'[u] = Nothing
  BY <1>1 DEF Departs, Pulls
<1>7. Homed(u)'
  BY <1>1, <1>2, <1>3, <1>4, <1>5, <1>6 DEF Homed, AtHome, MovesAtHome, PullsAsleep
<1>8. Photographed(u)' /\ Blocked(u)'
  <2>1. asked' = Nowhere \/ asked' \in Workers
    BY <1>1 DEF Typed, CourseTyped
  <2> QED
    BY <1>1, <1>4, <1>5, <1>6, <2>1 DEF Photographed, Blocked
<1>9. Carried(u)'
  <2>1. InMemory(u)' /\ ~Asleep(u)'
    BY <1>4, <1>5 DEF InMemory, Asleep
  <2> QED
    BY <1>1, <1>5, <2>1, RunningCarries DEF Serves, Quits
<1>10. Flagged(u)'
  <2>1. u \notin excused' => deposit'[w] = "working"
    BY <1>1, Place
  <2> QED
    BY <1>5, <2>1 DEF Flagged
<1> QED
  BY <1>7, <1>8, <1>9, <1>10 DEF UserKept

LEMMA CallKept ==
    ASSUME Typed, Standing, AllKept, NEW w \in Workers, NEW u \in Users, Call(w, u)
    PROVE  UserKept(u)'
<1>1. /\ at' = at /\ life' = life /\ asked' = asked /\ proc' = proc /\ deposit' = deposit
      /\ UNCHANGED <<home, known, frozen, held, moving, rows, flags, owed, excused, disk>>
      /\ at \in {"up", "quitting"} /\ proc[w] # "off" /\ u \notin held /\ Awake(w, u)
      /\ calling'[u] = w
  BY DEF Call, Serving, course, vertex, history, Typed, ProcessesTyped
<1>2. UserKept(u)
  BY DEF AllKept
<1>3. /\ \A x \in Workers : Awake(x, u)' <=> Awake(x, u)
      /\ Asleep(u)' <=> Asleep(u)
      /\ Departs(u)' <=> Departs(u)
      /\ Pulls(u)' <=> Pulls(u)
  BY <1>1, AwakeSame
<1>4. \A x \in Workers : Awake(x, u) => x = w
  BY <1>1, <1>2, OneHome DEF UserKept
<1>5. Homed(u)'
  <2>1. Homed(u) /\ ~Pulls(u)
    BY <1>1, <1>2 DEF UserKept, Homed, PullsAsleep, Asleep
  <2>2. AtHome(u)'
    BY <1>1, <1>3, <1>4, <2>1 DEF Homed, AtHome
  <2>3. MovesAtHome(u)' /\ (Departs(u)' => Awake(moving[u].worker, u)')
    BY <1>1, <2>1 DEF Homed, MovesAtHome, Departs, Awake
  <2> QED
    BY <1>1, <1>3, <2>1, <2>2, <2>3 DEF Homed, PullsAsleep
<1>6. Photographed(u)'
  <2>1. SUFFICES ASSUME Departs(u), moving[u].stage # "waiting", moving[u].dir = Here
                 PROVE  rows[w][u] = life
    BY <1>1, <1>2, <1>3, OneHome DEF UserKept, Photographed, Here, Departs
  <2>2. moving[u].worker = w
    BY <1>1, <1>2, <2>1, OneHome DEF UserKept, Departs
  <2>3. CASE at = "up"
    BY <1>1, <1>2, <2>1, <2>2, <2>3 DEF UserKept, Blocked
  <2>4. CASE at = "quitting"
    <3>1. deposit[w] = "temp"
      BY <1>2, <2>1, <2>2, <2>4 DEF UserKept, Homed, MovesAtHome, Here, Departs
    <3>2. asked = w /\ asked # Nowhere
      BY <3>1, Place, Constants
    <3> QED
      BY <1>1, <1>2, <2>4, <3>2 DEF UserKept, Blocked
  <2> QED
    BY <1>1, <2>3, <2>4
<1>7. Blocked(u)'
  BY <1>1, <1>2, <1>3 DEF UserKept, Blocked, Awake
<1>8. Carried(u)'
  BY <1>1, <1>2 DEF UserKept, Carried, Serves, Quits, OnDisk, Asleep, Awake, InMemory, InMove
<1>9. Flagged(u)'
  BY <1>1, <1>2, <1>3 DEF UserKept, Flagged
<1> QED
  BY <1>5, <1>6, <1>7, <1>8, <1>9 DEF UserKept

LEMMA ReturnKept ==
    ASSUME Typed, Standing, AllKept, NEW w \in Workers, NEW u \in Users, Return(w, u)
    PROVE  UserKept(u)'
<1>1. /\ at' = at /\ life' = life /\ asked' = asked /\ proc' = proc /\ deposit' = deposit
      /\ UNCHANGED <<known, frozen, held, rows, flags, owed>>
      /\ at \in {"up", "quitting"} /\ proc[w] = "running" /\ w # asked
      /\ u \in frozen \ held /\ home[u] \in {Nowhere, w} /\ calling[u] = Nowhere
      /\ moving[u] = Nothing /\ excused' = excused \cup Uncarried({u})
  BY DEF Return, Serving, course
<1>2. /\ home'[u] = w /\ calling'[u] = w
      /\ moving'[u] = Move("pull", w, "locked", Nothing)
  BY DEF Return, Typed, VertexTyped, ProcessesTyped
<1>3. UserKept(u)
  BY DEF AllKept
<1>4. Asleep(u) /\ u \in known
  BY <1>1, <1>3, Constants DEF UserKept, Homed, AtHome, Asleep
<1>5. /\ moving'[u] # Nothing /\ moving'[u].kind = "pull" /\ moving'[u].stage = "locked"
      /\ moving'[u].worker = w /\ moving'[u].dir = "working"
  <2>1. Move("pull", w, "locked", Nothing) \in Movement
    BY MoveTyped
  <2>2. Nothing \notin Movement
    BY StillnessAssumption
  <2> QED
    BY <1>1, <1>2, <2>1, <2>2, Place DEF Move
<1>6. ~Departs(u)' /\ Asleep(u)'
  BY <1>1, <1>4, <1>5 DEF Departs, Asleep, Awake
<1>7. Homed(u)'
  BY <1>1, <1>2, <1>4, <1>5, <1>6 DEF Homed, AtHome, MovesAtHome, PullsAsleep, Asleep
<1>8. Photographed(u)' /\ Blocked(u)' /\ Flagged(u)'
  <2>1. asked' = Nowhere \/ asked' \in Workers
    BY <1>1 DEF Typed, CourseTyped
  <2> QED
    BY <1>1, <1>5, <1>6, <2>1 DEF Photographed, Blocked, Flagged, Asleep
<1>9. Carried(u)'
  <2>1. at = "quitting" => u \in excused'
    BY <1>1 DEF Uncarried
  <2>2. at = "up" /\ u \notin excused' /\ owed'[u] # 0 => Serves(u)'
    <3>1. SUFFICES ASSUME at = "up", u \notin excused', owed'[u] # 0 PROVE Serves(u)'
      OBVIOUS
    <3>2. disk'["working"].parcels[u] = disk["working"].parcels[u]
      BY LocksParcels DEF Return, SameParcels, Places
    <3>3. Serves(u) /\ ~InMove(u, "pull", "done")
      BY <1>1, <1>3, <3>1 DEF UserKept, Carried, InMove
    <3>4. ~InMove(u, "pull", "done")'
      BY <1>5 DEF InMove
    <3> QED
      BY <1>1, <1>4, <1>6, <3>2, <3>3, <3>4 DEF Serves, InMemory, Asleep
  <2> QED
    BY <1>1, <2>1, <2>2, RunningCarries
<1> QED
  BY <1>7, <1>8, <1>9 DEF UserKept

\* Who is being pulled home while the machine quits is not in its photo.
LEMMA PullIsLate ==
    ASSUME NEW u, UserKept(u), Pulls(u), at = "quitting", u \notin excused, owed[u] # 0
    PROVE  FALSE
BY DEF UserKept, Homed, PullsAsleep, Carried, Quits, Pulls

LEMMA PullReadsKept ==
    ASSUME Typed, Standing, AllKept, NEW u \in Users, PullReads(u) PROVE UserKept(u)'
<1>1. PICK w \in Workers : w = moving[u].worker
  BY MoverOf DEF PullReads, InMove
<1>2. PICK d \in Places : d = deposit[w]
  BY DirectoryOf
<1>3. /\ at' = at /\ life' = life /\ asked' = asked /\ proc' = proc /\ deposit' = deposit
      /\ UNCHANGED <<home, known, frozen, held, rows, flags, owed, calling, excused>>
      /\ at \in {"up", "quitting"} /\ Pulls(u) /\ moving[u] \in Movement
  BY Busy, MoverOf DEF PullReads, InMove, course, vertex, history, Pulls
<1>4. /\ moving'[u] # Nothing /\ moving'[u].kind = "pull" /\ moving'[u].stage = "done"
      /\ moving'[u].worker = w /\ moving'[u].dir = moving[u].dir
      /\ moving'[u].store = disk[d].parcels[u]
  <2>1. moving'[u] = [moving[u] EXCEPT !.stage = "done", !.store = disk[d].parcels[u]]
    BY <1>1, <1>2 DEF PullReads, Typed, ProcessesTyped
  <2>2. disk[d].parcels[u] \in Stores \cup {Nothing}
    BY <1>1, <1>2, DirectoryOf DEF PullReads, Directory
  <2>3. moving'[u] \in Movement
    BY <1>3, <2>1, <2>2 DEF Movement
  <2> QED
    BY <1>1, <1>3, <2>1, <2>3, StillnessAssumption DEF Movement, Pulls
<1>5. UserKept(u)
  BY DEF AllKept
<1>6. Homed(u) /\ Asleep(u) /\ u \in frozen /\ moving[u].dir = "working"
  BY <1>3, <1>5 DEF UserKept, Homed, PullsAsleep
<1>7. ~Departs(u)' /\ Asleep(u)' /\ (\A x \in Workers : Awake(x, u)' <=> Awake(x, u)) /\ Pulls(u)'
  BY <1>3, <1>4, <1>6 DEF Departs, Asleep, Awake, Pulls
<1>8. Homed(u)'
  BY <1>1, <1>3, <1>4, <1>6, <1>7 DEF Homed, AtHome, MovesAtHome, PullsAsleep, Pulls
<1>9. Photographed(u)' /\ Blocked(u)' /\ Flagged(u)'
  <2>1. asked' = Nowhere \/ asked' \in Workers
    BY <1>3 DEF Typed, CourseTyped
  <2> QED
    BY <1>1, <1>3, <1>4, <1>5, <1>7, <2>1 DEF UserKept, Photographed, Blocked, Flagged, Asleep
<1>10. Carried(u)'
  <2>1. at = "up" /\ u \notin excused /\ owed[u] # 0 => Serves(u)'
    <3>1. SUFFICES ASSUME at = "up", u \notin excused, owed[u] # 0 PROVE Serves(u)'
      OBVIOUS
    <3>2. Serves(u) /\ ~InMove(u, "pull", "done")
      BY <1>5, <3>1 DEF UserKept, Carried, InMove, PullReads
    <3>3. d = "working"
      BY <1>2, <3>1, Place
    <3>4. InMove(u, "pull", "done")' /\ moving'[u].store = owed[u]
      BY <1>4, <1>6, <3>2, <3>3 DEF Serves, InMove
    <3> QED
      BY <1>3, <1>7, <3>4 DEF Serves, InMemory, Asleep
  <2> QED
    BY <1>3, <1>5, <2>1, PullIsLate, RunningCarries
<1> QED
  BY <1>8, <1>9, <1>10 DEF UserKept

LEMMA PullLandsKept ==
    ASSUME Typed, Standing, AllKept, NEW u \in Users, PullLands(u) PROVE UserKept(u)'
<1>1. PICK w \in Workers : w = moving[u].worker
  BY MoverOf DEF PullLands, InMove
<1>2. /\ at' = at /\ life' = life /\ asked' = asked /\ proc' = proc /\ deposit' = deposit
      /\ UNCHANGED <<home, known, frozen, held, owed>>
      /\ at \in {"up", "quitting"} /\ Pulls(u) /\ InMove(u, "pull", "done")
      /\ moving'[u] = Nothing
  BY Busy, MoveWritten DEF PullLands, InMove, course, Pulls
<1>3. UserKept(u)
  BY DEF AllKept
<1>4. /\ Homed(u) /\ Asleep(u) /\ u \in frozen /\ moving[u].dir = "working"
      /\ home[u] = w /\ u \in known /\ proc[w] # "off"
      /\ calling[u] = w \/ proc[w] # "running"
  BY <1>1, <1>2, <1>3 DEF UserKept, Homed, PullsAsleep, MovesAtHome, Pulls
<1>5. ~Departs(u)' /\ ~Pulls(u)'
  BY <1>2 DEF Departs, Pulls
<1>6. asked' = Nowhere \/ asked' \in Workers
  BY <1>2 DEF Typed, CourseTyped
<1>7. CASE deposit[w] = moving[u].dir
  <2> DEFINE store == IF moving[u].store = Nothing THEN 0 ELSE moving[u].store
  <2>1. UNCHANGED <<flags, calling>> /\ deposit[w] = "working"
    BY <1>1, <1>4, <1>7 DEF PullLands
  <2>2. excused' = IF moving[u].store = owed[u] THEN excused \ {u} ELSE excused
    BY <1>1, <1>7 DEF PullLands
  <2>3. rows'[w][u] = store /\ \A x \in Workers \ {w} : rows'[x][u] = rows[x][u]
    <3>1. rows' = [rows EXCEPT ![w][u] = store]
      BY <1>1, <1>7 DEF PullLands
    <3> QED
      BY <3>1 DEF Typed, ProcessesTyped
  <2>4. store # Nothing
    BY Constants
  <2> HIDE DEF store
  <2>5. (\A x \in Workers : Awake(x, u)' <=> x = w) /\ ~Asleep(u)'
    BY <1>4, <2>3, <2>4 DEF Awake, Asleep
  <2>6. Homed(u)'
    BY <1>2, <1>4, <1>5, <2>1, <2>5 DEF Homed, AtHome, MovesAtHome, PullsAsleep
  <2>7. Photographed(u)' /\ Blocked(u)' /\ Flagged(u)'
    <3>1. at = "quitting" /\ asked = w => u \in held
      BY <1>1, <1>2, <1>3 DEF UserKept, Blocked
    <3> QED
      BY <1>2, <1>5, <1>6, <2>1, <2>5, <3>1 DEF Photographed, Blocked, Flagged
  <2>8. Carried(u)'
    <3>1. u \notin excused' /\ owed[u] # 0 => store = owed[u]
      <4>1. SUFFICES ASSUME u \notin excused', owed[u] # 0 PROVE moving[u].store = owed[u]
        BY Constants DEF store, Typed, HistoryTyped, Stores
      <4>2. CASE u \in excused
        BY <2>2, <4>1, <4>2
      <4>3. CASE u \notin excused
        <5>1. at = "up"
          BY <1>2, <1>3, <4>1, <4>3, PullIsLate
        <5> QED
          BY <1>2, <1>3, <1>4, <4>1, <4>3, <5>1 DEF UserKept, Carried, Serves
      <4> QED
        BY <4>2, <4>3
    <3>2. u \notin excused' /\ owed'[u] # 0 => Serves(u)' /\ Quits(u)'
      BY <1>2, <1>4, <2>1, <2>3, <2>5, <3>1 DEF Serves, Quits, InMemory
    <3> QED
      BY <1>2, <3>2, RunningCarries
  <2> QED
    BY <2>6, <2>7, <2>8 DEF UserKept
<1>8. CASE deposit[w] # moving[u].dir
  <2>1. UNCHANGED <<rows, disk, excused>> /\ calling'[u] = Nowhere
    BY <1>1, <1>8 DEF PullLands, Typed, ProcessesTyped
  <2>2. (\A x \in Workers : ~Awake(x, u)') /\ at = "quitting"
    BY <1>2, <1>4, <1>8, <2>1, Place DEF Awake, Asleep
  <2>3. Homed(u)'
    BY <1>2, <1>4, <1>5, <2>1, <2>2 DEF Homed, AtHome, MovesAtHome, PullsAsleep
  <2>4. Photographed(u)' /\ Blocked(u)' /\ Flagged(u)'
    BY <1>2, <1>5, <1>6, <2>2 DEF Photographed, Blocked, Flagged
  <2>5. Carried(u)'
    BY <1>2, <1>3, <2>1, <2>2, PullIsLate, RunningCarries
  <2> QED
    BY <2>3, <2>4, <2>5 DEF UserKept
<1> QED
  BY <1>7, <1>8

\* What cannot be read is not the work anybody is owed: it stays, and he stays frozen.
LEMMA PullFailsKept ==
    ASSUME Typed, Standing, AllKept, NEW u \in Users, PullFails(u) PROVE UserKept(u)'
<1>1. PICK w \in Workers : w = moving[u].worker
  BY MoverOf DEF PullFails, InMove
<1>2. /\ at' = at /\ life' = life /\ asked' = asked /\ proc' = proc /\ deposit' = deposit
      /\ UNCHANGED <<home, known, frozen, held, rows, owed, excused>>
      /\ at \in {"up", "quitting"} /\ Pulls(u) /\ InMove(u, "pull", "locked")
      /\ moving'[u] = Nothing /\ calling'[u] = Nowhere
      /\ disk[deposit[w]].parcels[u] = Torn
  <2>1. moving[u] # Nothing
    BY DEF PullFails, InMove
  <2>2. moving'[u] = Nothing /\ calling'[u] = Nowhere
    BY DEF PullFails, Typed, ProcessesTyped
  <2> QED
    BY <1>1, <2>1, <2>2, Busy DEF PullFails, InMove, Pulls, course, vertex, history
<1>3. UserKept(u) /\ Homed(u) /\ Asleep(u) /\ u \in frozen /\ u \in known
  BY <1>2 DEF AllKept, UserKept, Homed, PullsAsleep, MovesAtHome, Pulls
<1>4. ~Departs(u)' /\ ~Pulls(u)' /\ \A x \in Workers : ~Awake(x, u)'
  BY <1>2, <1>3 DEF Departs, Pulls, Awake, Asleep
<1>5. asked' = Nowhere \/ asked' \in Workers
  BY <1>2 DEF Typed, CourseTyped
<1>6. Homed(u)'
  BY <1>2, <1>3, <1>4 DEF Homed, AtHome, MovesAtHome, PullsAsleep
<1>7. Photographed(u)' /\ Blocked(u)' /\ Flagged(u)'
  BY <1>2, <1>4, <1>5 DEF Photographed, Blocked, Flagged
<1>8. Carried(u)'
  <2>1. ASSUME u \notin excused, owed[u] # 0 PROVE FALSE
    <3>1. at = "up"
      BY <1>2, <1>3, <2>1, PullIsLate
    <3>2. deposit[w] = "working" /\ Torn \notin Stores /\ owed[u] \in Stores
      BY <3>1, Place, Constants DEF Typed, HistoryTyped, Stores
    <3>3. disk["working"].parcels[u] = owed[u]
      BY <1>2, <1>3, <2>1, <3>1 DEF UserKept, Carried, Serves, InMove
    <3> QED
      BY <1>2, <3>2, <3>3
  <2> QED
    BY <1>2, <2>1, RunningCarries
<1> QED
  BY <1>6, <1>7, <1>8 DEF UserKept

\* A departure that begins: he is in memory, and what is photographed is his row.
LEMMA DepartureBegins ==
    ASSUME Typed, Standing, AllKept, NEW w \in Workers, NEW u \in Users,
           Awake(w, u), moving[u] = Nothing \/ Departs(u),
           at' = at, life' = life, asked' = asked, proc' = proc, deposit' = deposit,
           UNCHANGED <<home, known, frozen, rows, flags, owed, calling, excused>>,
           u \in held => u \in held',
           at = "up" /\ rows[w][u] # life => u \in held',
           NEW kind \in {"order", "transfer"}, NEW stage \in {"waiting", "locked"},
           NEW store, moving'[u] = Move(kind, w, stage, store),
           stage = "locked" => store = rows[w][u] /\ calling[u] # w
    PROVE  UserKept(u)'
<1>1. UserKept(u) /\ Homed(u) /\ at \in {"up", "quitting"}
  BY Place DEF AllKept, UserKept, Homed, AtHome
<1>2. /\ \A x \in Workers : Awake(x, u) => x = w
      /\ home[u] = w /\ u \in known /\ ~Asleep(u) /\ proc[w] # "off"
  BY <1>1, OneHome DEF Homed, AtHome
<1>3. /\ moving'[u].kind = kind /\ moving'[u].stage = stage /\ moving'[u].worker = w
      /\ moving'[u].dir = deposit[w] /\ moving'[u].store = store
  BY DEF Move
<1>4. /\ \A x \in Workers : Awake(x, u)' <=> Awake(x, u)
      /\ ~Asleep(u)' /\ ~Pulls(u)'
  BY <1>2, <1>3 DEF Awake, Asleep, Pulls
<1>5. Homed(u)'
  <2>1. AtHome(u)'
    BY <1>1, <1>4 DEF Homed, AtHome
  <2>2. MovesAtHome(u)'
    BY <1>2, <1>3 DEF MovesAtHome
  <2>3. Departs(u)' => Awake(moving[u].worker, u)'
    BY <1>3 DEF Awake
  <2> QED
    BY <1>1, <1>4, <2>1, <2>2, <2>3 DEF Homed, PullsAsleep
<1>6. Photographed(u)'
  BY <1>3 DEF Photographed
<1>7. Blocked(u)'
  <2>1. at = "quitting" /\ asked # Nowhere /\ Awake(asked, u) /\ rows[asked][u] # life => u \in held
    BY <1>1 DEF UserKept, Blocked
  <2> QED
    BY <1>3, <1>4, <2>1 DEF Blocked, Awake
<1>8. Carried(u)'
  <2>1. u \notin excused /\ owed[u] # 0 /\ at = "up" => Serves(u)'
    BY <1>1, <1>4 DEF UserKept, Carried, Serves, InMemory
  <2>2. u \notin excused /\ owed[u] # 0 /\ at = "quitting" => Quits(u)'
    BY <1>1, <1>4 DEF UserKept, Carried, Quits, InMemory
  <2> QED
    BY <1>1, <2>1, <2>2, RunningCarries
<1>9. Flagged(u)'
  BY <1>1, <1>4 DEF UserKept, Flagged
<1> QED
  BY <1>5, <1>6, <1>7, <1>8, <1>9 DEF UserKept

LEMMA OrderFreezeKept ==
    ASSUME Typed, Standing, AllKept, NEW w \in Workers, NEW u \in Users, OrderFreeze(w, u)
    PROVE  UserKept(u)'
<1>1. /\ Awake(w, u) /\ moving[u] = Nothing
      /\ at' = at /\ life' = life /\ asked' = asked /\ proc' = proc /\ deposit' = deposit
      /\ UNCHANGED <<home, known, frozen, rows, flags, owed, calling, excused>>
      /\ u \in held'
  BY DEF OrderFreeze, course, history
<1>2. moving'[u] = Move("order", w, "waiting", Nothing)
  BY DEF OrderFreeze, Typed, ProcessesTyped
<1> QED
  BY <1>1, <1>2, DepartureBegins

LEMMA DepartsKept ==
    ASSUME Typed, Standing, AllKept, NEW w \in Workers, NEW u \in Users,
           DepartsOrdered(w, u) \/ DepartsFlagged(w, u)
    PROVE  UserKept(u)'
<1>1. /\ Awake(w, u) /\ calling[u] # w
      /\ at' = at /\ life' = life /\ asked' = asked /\ proc' = proc /\ deposit' = deposit
      /\ UNCHANGED <<home, known, frozen, held, rows, flags, owed, calling, excused>>
  BY DEF DepartsOrdered, DepartsFlagged, course, vertex, history
<1>2. PICK kind \in {"order", "transfer"} : Claims(kind, w, u)
  BY DEF DepartsOrdered, DepartsFlagged
<1>3. moving[u] = Nothing \/ Departs(u)
  BY <1>2 DEF Claims, InMove, Departs
<1>4. moving'[u] = Move(kind, w, "locked", rows[w][u])
  BY <1>2 DEF Claims, Typed, ProcessesTyped
<1>5. at = "up" /\ rows[w][u] # life => u \in held
  <2>1. SUFFICES ASSUME at = "up", rows[w][u] # life PROVE u \in held
    OBVIOUS
  <2>2. DepartsOrdered(w, u)
    BY <2>1, Place DEF DepartsFlagged
  <2>3. Departs(u) /\ moving[u].worker = w
    BY <2>2 DEF DepartsOrdered, InMove, Departs
  <2> QED
    BY <2>1, <2>3 DEF AllKept, UserKept, Blocked
<1> QED
  BY <1>1, <1>3, <1>4, <1>5, DepartureBegins

LEMMA AnswerKept ==
    ASSUME Typed, Standing, AllKept, NEW u \in Users, Answer(u) PROVE UserKept(u)'
<1>1. PICK w \in Workers : w = calling[u]
  BY DEF Answer, Typed, ProcessesTyped
<1>2. /\ at' = at /\ life' = life /\ asked' = asked /\ proc' = proc /\ deposit' = deposit
      /\ UNCHANGED <<home, known, flags>>
      /\ at \in {"up", "quitting"}
      /\ ~InMove(u, "pull", "locked") /\ ~InMove(u, "pull", "done")
  BY <1>1, Busy, Constants DEF Answer, course
<1>3. calling'[u] = Nowhere /\ w # Nowhere
  BY <1>1, Constants DEF Answer, Typed, ProcessesTyped
<1>4. UserKept(u) /\ Homed(u)
  BY DEF AllKept, UserKept
<1>5. proc[w] # "off"
  BY <1>1, <1>3, <1>4 DEF Homed
<1>6. ~Pulls(u)
  BY <1>2, <1>4, MoverOf DEF Homed, PullsAsleep, Pulls, InMove, Movement
<1>7. asked' = Nowhere \/ asked' \in Workers
  BY <1>2 DEF Typed, CourseTyped
<1>8. CASE ~Awake(w, u)
  <2>1. UNCHANGED <<rows, owed, excused, frozen, held, moving, disk>>
    BY <1>1, <1>8 DEF Answer
  <2>2. /\ \A x \in Workers : Awake(x, u)' <=> Awake(x, u)
        /\ Asleep(u)' <=> Asleep(u)
        /\ Departs(u)' <=> Departs(u)
        /\ Pulls(u)' <=> Pulls(u)
    BY <2>1, AwakeSame
  <2>3. AtHome(u)'
    BY <1>1, <1>2, <1>4, <1>8, <2>1, <2>2 DEF Homed, AtHome
  <2>4. MovesAtHome(u)' /\ (Departs(u)' => Awake(moving[u].worker, u)')
    BY <1>2, <1>4, <2>1 DEF Homed, MovesAtHome, Departs, Awake
  <2>5. Homed(u)'
    BY <1>2, <1>3, <1>4, <1>6, <2>1, <2>2, <2>3, <2>4 DEF Homed, PullsAsleep
  <2>6. Photographed(u)'
    BY <1>2, <1>3, <1>4, <2>1, <2>2, MoverOf, Constants
    DEF UserKept, Photographed, Here, Departs
  <2>7. Blocked(u)'
    BY <1>2, <1>4, <2>1, <2>2 DEF UserKept, Blocked, Awake
  <2>8. Carried(u)'
    BY <1>2, <1>4, <2>1 DEF UserKept, Carried, Serves, Quits, OnDisk, Asleep, Awake, InMemory, InMove
  <2>9. Flagged(u)'
    BY <1>2, <1>4, <2>1, <2>2 DEF UserKept, Flagged
  <2> QED
    BY <2>5, <2>6, <2>7, <2>8, <2>9 DEF UserKept
<1>9. CASE Awake(w, u)
  <2> DEFINE leaves == /\ proc[w] # "running" /\ u \in flags[w]
                       /\ moving[u] = Nothing \/ InMove(u, "order", "waiting")
  <2>1. /\ \A x \in Workers : Awake(x, u) => x = w
        /\ home[u] = w /\ u \in known /\ (moving[u] # Nothing => moving[u].worker = w)
    BY <1>4, <1>9, OneHome
  <2>2. /\ owed'[u] = life /\ rows'[w][u] = life
        /\ \A x \in Workers \ {w} : rows'[x][u] = rows[x][u]
        /\ excused' = IF proc[w] = "running" THEN excused \ {u} ELSE excused
    <3>1. /\ owed' = [owed EXCEPT ![u] = life] /\ rows' = [rows EXCEPT ![w][u] = life]
          /\ excused' = IF proc[w] = "running" THEN excused \ {u} ELSE excused
      BY <1>1, <1>9 DEF Answer
    <3> QED
      BY <3>1 DEF Typed, HistoryTyped, ProcessesTyped
  <2>3. (\A x \in Workers : Awake(x, u)' <=> x = w) /\ ~Asleep(u)'
    BY <2>1, <2>2, LifeIsAStore DEF Awake, Asleep
  <2>4. /\ frozen' \subseteq frozen
        /\ leaves \/ u \notin frozen'
    BY <1>1, <1>9 DEF Answer
  <2>5. \/ leaves /\ moving'[u] = Move("transfer", w, "locked", life)
        \/ ~leaves /\ moving' = moving
    BY <1>1, <1>9 DEF Answer, Typed, ProcessesTyped
  <2> HIDE DEF leaves
  <2>6. leaves => proc[w] # "running" /\ moving'[u].worker = w /\ moving'[u].dir = deposit[w]
                  /\ moving'[u].kind = "transfer" /\ moving'[u].store = life
                  /\ moving'[u].stage = "locked"
    BY <2>5 DEF leaves, Move
  <2>7. moving'[u] # Nothing => moving'[u].worker = w
    BY <2>1, <2>5, <2>6
  <2>8. ~Pulls(u)'
    BY <1>6, <2>5, <2>6 DEF Pulls
  <2>9. Homed(u)'
    <3>1. AtHome(u)'
      BY <1>2, <1>5, <2>1, <2>3, <2>4, <2>6 DEF AtHome
    <3>2. MovesAtHome(u)'
      BY <1>2, <1>4, <1>5, <2>1, <2>5, <2>6, <2>7 DEF Homed, MovesAtHome
    <3>3. Departs(u)' => Awake(moving[u].worker, u)'
      BY <2>2, <2>7, LifeIsAStore DEF Awake, Departs
    <3> QED
      BY <1>2, <1>3, <2>1, <2>4, <2>8, <3>1, <3>2, <3>3 DEF Homed, PullsAsleep
  <2>10. Photographed(u)'
    <3>1. CASE leaves
      BY <1>3, <2>2, <2>6, <3>1 DEF Photographed
    <3>2. CASE ~leaves
      <4>1. SUFFICES ASSUME Departs(u), moving[u].stage # "waiting", moving[u].dir = Here
                     PROVE  Photographed(u)'
        BY <1>2, <2>5, <3>2 DEF Photographed, Here, Departs
      <4>2. /\ moving[u].worker = w /\ rows[w][u] = life
            /\ moving[u].stage = "locked" => moving[u].store = life
            /\ moving[u].stage = "done" => disk[Here].parcels[u] = life
        BY <1>1, <1>4, <2>1, <4>1 DEF UserKept, Photographed, Departs
      <4>3. moving' = moving /\ disk' = disk /\ Here' = Here
        BY <1>1, <1>2, <1>9, <2>5, <3>2 DEF Answer, Here, leaves
      <4> QED
        BY <1>2, <1>3, <2>2, <4>2, <4>3 DEF Photographed
    <3> QED
      BY <3>1, <3>2
  <2>11. Blocked(u)'
    BY <1>2, <1>7, <2>2, <2>3, <2>7, <2>8 DEF Blocked, Departs
  <2>12. Carried(u)'
    <3>1. InMemory(u)'
      BY <2>2, <2>3 DEF InMemory
    <3> QED
      BY <1>2, <2>1, <2>3, <3>1, RunningCarries DEF Serves, Quits
  <2>13. Flagged(u)'
    <3>1. SUFFICES ASSUME deposit[w] = "temp", u \notin excused' PROVE u \in flags[w]
      BY <1>2, <2>3 DEF Flagged
    <3>2. proc[w] # "running" /\ u \notin excused
      BY <2>2, <3>1, Place
    <3> QED
      BY <1>4, <1>9, <3>1, <3>2 DEF UserKept, Flagged
  <2> QED
    BY <2>9, <2>10, <2>11, <2>12, <2>13 DEF UserKept
<1> QED
  BY <1>8, <1>9

\* Who departs is in the memory of the worker that writes his parcel.
LEMMA Writer ==
    ASSUME Typed, Standing, AllKept, NEW u \in Users, Departs(u)
    PROVE  /\ moving[u] \in Movement /\ moving[u].worker \in Workers
           /\ Awake(moving[u].worker, u) /\ at \in {"up", "quitting"}
           /\ home[u] = moving[u].worker /\ u \in known /\ ~Asleep(u)
           /\ \A x \in Workers : Awake(x, u) => x = moving[u].worker
           /\ moving[u].dir = Here => deposit[moving[u].worker] = Here
           /\ at = "up" => moving[u].dir = Here
<1>1. moving[u] # Nothing /\ moving[u] \in Movement /\ moving[u].worker \in Workers
      /\ moving[u].dir \in {"working", "temp"}
  BY MoverOf DEF Departs
<1>2. Homed(u) /\ at \in {"up", "quitting"}
  BY <1>1, Busy DEF AllKept, UserKept
<1>3. Awake(moving[u].worker, u)
  BY <1>2 DEF Homed
<1>4. moving[u].dir = "temp" => deposit[moving[u].worker] = "temp"
  BY <1>1, <1>2 DEF Homed, MovesAtHome
<1>5. at = "up" => deposit[moving[u].worker] = "working"
  BY <1>1, Place
<1>6. (moving[u].dir = Here => deposit[moving[u].worker] = Here) /\ (at = "up" => moving[u].dir = Here)
  BY <1>1, <1>2, <1>4, <1>5 DEF Here
<1> QED
  BY <1>1, <1>2, <1>3, <1>6, OneHome

LEMMA WritesKept ==
    ASSUME Typed, Standing, AllKept, NEW u \in Users, Writes(u) PROVE UserKept(u)'
<1>1. Departs(u) /\ moving[u].stage = "locked"
  BY DEF Writes, Departing, InMove, Departs
<1>2. PICK w \in Workers : w = moving[u].worker
  BY <1>1, Writer
<1>3. /\ at' = at /\ life' = life /\ asked' = asked /\ proc' = proc /\ deposit' = deposit
      /\ UNCHANGED <<home, known, frozen, held, rows, flags, owed, calling, excused>>
      /\ at \in {"up", "quitting"} /\ Here' = Here
  BY <1>1, Writer DEF Writes, course, vertex, history, Here
<1>4. /\ moving[u] \in Movement /\ Awake(w, u) /\ ~Asleep(u) /\ home[u] = w /\ u \in known
      /\ \A x \in Workers : Awake(x, u) => x = w
      /\ moving[u].dir = Here => deposit[w] = Here
  BY <1>1, <1>2, Writer
<1>5. /\ moving'[u].kind = moving[u].kind /\ moving'[u].stage = "done" /\ moving'[u].worker = w
      /\ moving'[u].dir = moving[u].dir
  <2>1. moving'[u] = [moving[u] EXCEPT !.stage = "done"]
    BY DEF Writes, Typed, ProcessesTyped
  <2> QED
    BY <1>2, <1>4, <2>1 DEF Movement
<1>6. UserKept(u) /\ Homed(u)
  BY DEF AllKept, UserKept
<1>7. /\ \A x \in Workers : Awake(x, u)' <=> Awake(x, u)
      /\ ~Asleep(u)' /\ ~Pulls(u)'
  BY <1>1, <1>3, <1>4, <1>5 DEF Awake, Asleep, Pulls, Departs
<1>8. Homed(u)'
  <2>1. AtHome(u)'
    BY <1>3, <1>6, <1>7 DEF Homed, AtHome
  <2>2. MovesAtHome(u)'
    BY <1>1, <1>2, <1>3, <1>5, <1>6 DEF Homed, MovesAtHome, Departs
  <2> QED
    BY <1>3, <1>4, <1>5, <1>6, <1>7, <2>1, <2>2 DEF Homed, PullsAsleep
<1>9. Photographed(u)'
  <2>1. SUFFICES ASSUME moving[u].dir = Here PROVE Photographed(u)'
    BY <1>3, <1>5 DEF Photographed
  <2>2. moving[u].store = rows[w][u] /\ (calling[u] = w => rows[w][u] = life)
    BY <1>1, <1>2, <1>6, <2>1 DEF UserKept, Photographed
  <2>3. disk'[Here].parcels[u] = moving[u].store
    <3>1. PICK store : store = moving[u].store
      OBVIOUS
    <3>2. Here \in Places
      BY DEF Here, Places
    <3>3. PICK d \in Places : d = Here
      BY <3>2
    <3>4. disk' = [disk EXCEPT ![d].parcels[u] = store]
      BY <1>2, <1>4, <2>1, <3>1, <3>3 DEF Writes
    <3>5. disk'[d].parcels[u] = store
      <4>1. disk[d] \in Directory /\ d \in DOMAIN disk
        BY DEF Typed, DiskTyped
      <4>2. disk'[d] = [disk[d] EXCEPT !.parcels[u] = store]
        BY <3>4, <4>1
      <4> QED
        BY <4>1, <4>2 DEF Directory
    <3> QED
      BY <3>1, <3>3, <3>5
  <2> QED
    BY <1>3, <1>5, <2>2, <2>3 DEF Photographed
<1>10. Blocked(u)' /\ Flagged(u)'
  BY <1>1, <1>2, <1>3, <1>5, <1>6, <1>7 DEF UserKept, Blocked, Flagged, Awake, Departs
<1>11. Carried(u)'
  <2>1. u \notin excused /\ owed[u] # 0 => InMemory(u)'
    BY <1>3, <1>6, <1>7 DEF UserKept, Carried, Serves, Quits, InMemory
  <2> QED
    BY <1>3, <1>4, <1>7, <2>1, RunningCarries DEF Serves, Quits
<1> QED
  BY <1>8, <1>9, <1>10, <1>11 DEF UserKept

LEMMA StaysKept ==
    ASSUME Typed, Standing, AllKept, NEW u \in Users, WriteMisses(u) \/ WriteRefused(u)
    PROVE  UserKept(u)'
<1>1. Departs(u) /\ Stays(u)
  BY DEF WriteMisses, WriteRefused, Departing, InMove, Departs
<1>2. PICK w \in Workers : w = moving[u].worker
  BY <1>1, Writer
<1>3. /\ at' = at /\ life' = life /\ asked' = asked /\ proc' = proc /\ deposit' = deposit
      /\ UNCHANGED <<home, known, frozen, rows, owed, calling>>
      /\ at \in {"up", "quitting"} /\ moving'[u] = Nothing
      /\ at = "quitting" => held' = held
      /\ excused' = IF moving[u].kind = "transfer" THEN excused \cup {u} ELSE excused
  <2>1. moving'[u] = Nothing
    BY <1>1, MoveWritten DEF Stays
  <2> QED
    BY <1>1, <2>1, Writer DEF Stays, course
<1>4. Awake(w, u) /\ ~Asleep(u) /\ u \in known /\ \A x \in Workers : Awake(x, u) => x = w
  BY <1>1, <1>2, Writer
<1>5. moving[u].kind # "transfer" => flags' = flags
  <2>1. flags' = [flags EXCEPT ![w] = IF moving[u].kind = "transfer" THEN @ \ {u} ELSE @]
    BY <1>1, <1>2 DEF Stays
  <2> QED
    BY <2>1 DEF Typed, ProcessesTyped
<1>6. UserKept(u) /\ Homed(u)
  BY DEF AllKept, UserKept
<1>7. /\ \A x \in Workers : Awake(x, u)' <=> Awake(x, u)
      /\ ~Asleep(u)' /\ ~Pulls(u)' /\ ~Departs(u)'
  BY <1>3, <1>4 DEF Awake, Asleep, Pulls, Departs
<1>8. Homed(u)'
  <2>1. AtHome(u)'
    BY <1>3, <1>6, <1>7 DEF Homed, AtHome
  <2> QED
    BY <1>3, <1>6, <1>7, <2>1 DEF Homed, MovesAtHome, PullsAsleep
<1>9. Photographed(u)' /\ Blocked(u)' /\ Flagged(u)'
  BY <1>3, <1>5, <1>6, <1>7 DEF UserKept, Photographed, Blocked, Flagged, Awake
<1>10. Carried(u)'
  <2>1. u \notin excused' /\ owed'[u] # 0 => InMemory(u)'
    BY <1>3, <1>6, <1>7 DEF UserKept, Carried, Serves, Quits, InMemory
  <2> QED
    BY <1>3, <1>4, <1>7, <2>1, RunningCarries DEF Serves, Quits
<1> QED
  BY <1>8, <1>9, <1>10 DEF UserKept

LEMMA DepartedKept ==
    ASSUME Typed, Standing, AllKept, NEW u \in Users, Departed(u) PROVE UserKept(u)'
<1>1. Departs(u) /\ moving[u].stage = "done"
  BY DEF Departed, Departing, InMove, Departs
<1>2. PICK w \in Workers : w = moving[u].worker
  BY <1>1, Writer
<1>3. /\ at' = at /\ life' = life /\ asked' = asked /\ proc' = proc /\ deposit' = deposit
      /\ UNCHANGED <<known, owed, calling>>
      /\ at \in {"up", "quitting"} /\ moving'[u] = Nothing /\ u \in frozen'
      /\ excused' = IF moving[u].dir = "working" THEN excused \cup Uncarried({u}) ELSE excused
  <2>1. moving'[u] = Nothing
    BY MoveWritten DEF Departed
  <2> QED
    BY <1>1, <2>1, Writer DEF Departed, course
<1>4. /\ Awake(w, u) /\ u \in known /\ \A x \in Workers : Awake(x, u) => x = w
      /\ moving[u].dir \in {"working", "temp"} /\ (at = "up" => moving[u].dir = Here)
  BY <1>1, <1>2, Writer DEF Movement
<1>5. Asleep(u)' /\ \A x \in Workers : ~Awake(x, u)'
  <2>1. rows' = [rows EXCEPT ![w][u] = Nothing]
    BY <1>2 DEF Departed
  <2>2. rows'[w][u] = Nothing /\ \A x \in Workers \ {w} : rows'[x][u] = rows[x][u]
    BY <2>1 DEF Typed, ProcessesTyped
  <2>3. \A x \in Workers \ {w} : rows[x][u] = Nothing
    BY <1>4 DEF Awake
  <2> QED
    BY <2>2, <2>3 DEF Awake, Asleep
<1>6. UserKept(u) /\ Homed(u)
  BY DEF AllKept, UserKept
<1>7. ~Pulls(u)' /\ ~Departs(u)'
  BY <1>3 DEF Pulls, Departs
<1>8. Homed(u)'
  BY <1>3, <1>4, <1>5, <1>6, <1>7 DEF Homed, AtHome, MovesAtHome, PullsAsleep
<1>9. Photographed(u)' /\ Blocked(u)' /\ Flagged(u)'
  <2>1. asked' = Nowhere \/ asked' \in Workers
    BY <1>3 DEF Typed, CourseTyped
  <2> QED
    BY <1>5, <1>7, <2>1 DEF Photographed, Blocked, Flagged
<1>10. Carried(u)'
  <2>1. \A d \in Places : disk'[d].parcels[u] = disk[d].parcels[u]
    BY <1>1, UnlockOrNot DEF Departed, SameParcels, Departs
  <2>2. u \notin excused' /\ owed[u] # 0 => disk'[Here].parcels[u] = owed[u]
    <3>1. SUFFICES ASSUME u \notin excused', owed[u] # 0 PROVE disk'[Here].parcels[u] = owed[u]
      OBVIOUS
    <3>2. moving[u].dir = Here /\ u \notin excused
      BY <1>3, <1>4, <3>1 DEF Here, Uncarried
    <3>3. disk[Here].parcels[u] = rows[w][u]
      BY <1>1, <1>2, <1>6, <3>2 DEF UserKept, Photographed
    <3>4. rows[w][u] = owed[u]
      BY <1>3, <1>4, <1>6, <3>1, <3>2 DEF UserKept, Carried, Serves, Quits, InMemory
    <3> QED
      BY <2>1, <3>3, <3>4 DEF Here, Places
  <2>3. ~InMove(u, "pull", "done")'
    BY <1>3 DEF InMove
  <2>4. u \notin excused' /\ owed'[u] # 0 /\ at' = "up" => Serves(u)'
    BY <1>3, <1>5, <2>2, <2>3 DEF Serves, InMemory, Here
  <2>5. u \notin excused' /\ owed'[u] # 0 /\ at' = "quitting" => Quits(u)'
    BY <1>3, <1>4, <1>5, <2>2 DEF Quits, InMemory, Here
  <2> QED
    BY <1>3, <2>4, <2>5, RunningCarries
<1> QED
  BY <1>8, <1>9, <1>10 DEF UserKept

LEMMA DoesKept ==
    ASSUME Typed, Standing, AllKept, NEW u \in Users, Does(u) PROVE AllKept'
<1>1. UserKept(u)'
  BY BornKept, CallKept, ReturnKept, OrderFreezeKept, DepartsKept, PullReadsKept, PullFailsKept,
     PullLandsKept, AnswerKept, WritesKept, StaysKept, DepartedKept DEF Does
<1> QED
  BY <1>1, DoesConcerns, ConcernsKept
-----------------------------------------------------------------------------
(* The quit, worker by worker.                                             *)

LEMMA BeginQuitKept == ASSUME Typed, Standing, AllKept, BeginQuit PROVE AllKept'
<1>1. /\ at = "up" /\ at' = "quitting" /\ asked = Nowhere
      /\ UNCHANGED <<life, asked, known, frozen, home, proc, deposit, rows, flags, calling, moving, owed>>
      /\ todo' = {w \in Workers : proc[w] # "off"} /\ excused' = excused \cup frozen
  BY DEF BeginQuit, processes, AllKept, InTurn
<1>2. InTurn'
  BY <1>1 DEF AllKept, InTurn, Turn
<1>3. ASSUME NEW u \in Users PROVE UserKept(u)'
  <2>1. UserKept(u) /\ Homed(u)
    BY DEF AllKept, UserKept
  <2>2. /\ \A x \in Workers : Awake(x, u)' <=> Awake(x, u)
        /\ Asleep(u)' <=> Asleep(u)
        /\ Departs(u)' <=> Departs(u)
        /\ Pulls(u)' <=> Pulls(u)
    BY <1>1, AwakeSame
  <2>3. Homed(u)'
    <3>1. AtHome(u)' /\ MovesAtHome(u)'
      BY <1>1, <2>1, <2>2 DEF Homed, AtHome, MovesAtHome
    <3>2. Departs(u)' => Awake(moving[u].worker, u)'
      BY <1>1, <2>1, <2>2 DEF Homed, Awake
    <3> QED
      BY <1>1, <2>1, <2>2, <3>1, <3>2 DEF Homed, PullsAsleep
  <2>4. Photographed(u)'
    <3>1. Departs(u) => moving[u].dir = "working"
      BY <1>1, <2>1, Writer DEF Here
    <3> QED
      BY <1>1, <2>2, <3>1 DEF Photographed, Here
  <2>5. Blocked(u)'
    <3>1. Pulls(u) => moving[u].worker # Nowhere
      BY MoverOf, Constants DEF Pulls
    <3> QED
      BY <1>1, <2>2, <3>1 DEF Blocked
  <2>6. Flagged(u)'
    BY <1>1, <2>2, Place DEF Flagged
  <2>7. Carried(u)'
    <3>1. SUFFICES ASSUME u \notin excused, u \notin frozen, owed[u] # 0 PROVE Quits(u)'
      BY <1>1, RunningCarries
    <3>2. InMemory(u) /\ ~Asleep(u)
      <4>1. Serves(u) /\ ~Pulls(u)
        BY <1>1, <2>1, <3>1 DEF UserKept, Carried, Homed, PullsAsleep
      <4> QED
        BY <3>1, <4>1 DEF Serves, Pulls, InMove
    <3>3. u \in known
      BY <2>1, <3>2 DEF Homed, AtHome, Asleep
    <3> QED
      BY <1>1, <2>2, <3>2, <3>3 DEF Quits, InMemory
  <2> QED
    BY <2>3, <2>4, <2>5, <2>6, <2>7 DEF UserKept
<1> QED
  BY <1>2, <1>3 DEF AllKept

\* The worker that leaves: what an order changes is who is held, who is flagged
\* and where the worker stands.
LEMMA AskToLeaveKept ==
    ASSUME Typed, Standing, AllKept, NEW w \in Workers, AskToLeave(w) PROVE AllKept'
<1>1. /\ at = "quitting" /\ asked = Nowhere /\ todo' = todo \ {w}
      /\ UNCHANGED <<at, life, known, frozen, home, processes, disk, owed, excused>>
      /\ UNCHANGED <<proc, deposit, rows, flags, calling, moving>>
      /\ held \subseteq held'
      /\ \/ proc[w] = "off" /\ asked' = asked
         \/ asked' = w /\ held' = held \cup {u \in known : home[u] = w}
  BY DEF AskToLeave, history, processes
<1>2. InTurn'
  <2>1. Nowhere # w
    BY Constants
  <2>2. ASSUME NEW x \in Workers PROVE Turn(x)'
    <3>1. Turn(x) /\ Nowhere # x
      BY Constants DEF AllKept, InTurn
    <3> QED
      BY <1>1, <3>1 DEF Turn
  <2> QED
    BY <1>1, <2>2 DEF InTurn
<1>3. ASSUME NEW u \in Users PROVE UserKept(u)'
  <2>1. UserKept(u) /\ Homed(u)
    BY DEF AllKept, UserKept
  <2>2. /\ \A x \in Workers : Awake(x, u)' <=> Awake(x, u)
        /\ Asleep(u)' <=> Asleep(u)
        /\ Departs(u)' <=> Departs(u)
        /\ Pulls(u)' <=> Pulls(u)
    BY <1>1, AwakeSame
  <2>3. Homed(u)'
    <3>1. AtHome(u)' /\ MovesAtHome(u)'
      BY <1>1, <2>1, <2>2 DEF Homed, AtHome, MovesAtHome
    <3>2. Departs(u)' => Awake(moving[u].worker, u)'
      BY <1>1, <2>1, <2>2 DEF Homed, Awake
    <3> QED
      BY <1>1, <2>1, <2>2, <3>1, <3>2 DEF Homed, PullsAsleep
  <2>4. Photographed(u)' /\ Flagged(u)'
    BY <1>1, <2>1, <2>2 DEF UserKept, Photographed, Flagged, Here, Departs
  <2>5. Blocked(u)'
    <3>1. CASE asked' = asked
      BY <1>1, <3>1, <2>2, MoverOf, Constants DEF Blocked, Pulls
    <3>2. CASE asked' = w /\ held' = held \cup {v \in known : home[v] = w}
      <4>1. Awake(w, u) \/ (Pulls(u) /\ moving[u].worker = w) => u \in known /\ home[u] = w
        BY <2>1 DEF Homed, AtHome, MovesAtHome, Pulls
      <4> QED
        BY <1>1, <2>2, <3>2, <4>1 DEF Blocked
    <3> QED
      BY <1>1, <3>1, <3>2
  <2>6. Carried(u)'
    BY <1>1, <2>1, <2>2, RunningCarries DEF UserKept, Carried, Quits, InMemory
  <2> QED
    BY <2>3, <2>4, <2>5, <2>6 DEF UserKept
<1> QED
  BY <1>2, <1>3 DEF AllKept

LEMMA LeavingOrderKept ==
    ASSUME Typed, Standing, AllKept, NEW w \in Workers,
           BeginLeaving(w) \/ Swap(w) \/ CutStragglers(w)
    PROVE  AllKept'
<1>1. /\ at = "quitting" /\ asked = w /\ proc[w] # "off"
      /\ UNCHANGED <<at, life, asked, todo, saved, home, known, frozen, held, rows, moving, disk, owed>>
      /\ UNCHANGED rows /\ UNCHANGED moving
      /\ excused \subseteq excused'
  BY Place, Constants DEF BeginLeaving, Swap, CutStragglers, course, vertex, history, AllKept, InTurn
<1>2. /\ proc'[w] \in {"leaving", "cut"}
      /\ \A x \in Workers \ {w} : proc'[x] = proc[x] /\ deposit'[x] = deposit[x] /\ flags'[x] = flags[x]
      /\ deposit'[w] = "temp" => \/ flags'[w] = flags[w] /\ deposit[w] = "temp"
                                 \/ \A u \in Users : Awake(w, u) => u \in flags'[w]
      /\ deposit[w] = "temp" => deposit'[w] = "temp"
      /\ deposit'[w] \in {"working", "temp"}
  <2>1. CASE BeginLeaving(w)
    BY <2>1, DepositOf DEF BeginLeaving, FlagsEverybody, Typed, ProcessesTyped
  <2>2. CASE Swap(w)
    BY <2>2, DepositOf DEF Swap, FlagsEverybody, Typed, ProcessesTyped
  <2>3. CASE CutStragglers(w)
    BY <2>3, DepositOf DEF CutStragglers, Typed, ProcessesTyped
  <2> QED
    BY <2>1, <2>2, <2>3
<1>3. \A u \in Users : calling'[u] = calling[u] \/ (calling[u] = w /\ calling'[u] = Nowhere)
  <2>1. CASE calling' = calling
    BY <2>1
  <2>2. CASE calling' = [u \in Users |-> IF calling[u] = w THEN Nowhere ELSE calling[u]]
    BY <2>2
  <2> QED
    BY <2>1, <2>2 DEF BeginLeaving, Swap, CutStragglers
<1>4. InTurn'
  <2>1. ASSUME NEW x \in Workers PROVE Turn(x)'
    <3>1. Turn(x)
      BY DEF AllKept, InTurn
    <3> QED
      BY <1>1, <1>2, <3>1 DEF Turn
  <2> QED
    BY <1>1, <2>1 DEF InTurn
<1>5. ASSUME NEW u \in Users PROVE UserKept(u)'
  <2>1. UserKept(u) /\ Homed(u)
    BY DEF AllKept, UserKept
  <2>2. /\ \A x \in Workers : Awake(x, u)' <=> Awake(x, u)
        /\ Asleep(u)' <=> Asleep(u)
        /\ Departs(u)' <=> Departs(u)
        /\ Pulls(u)' <=> Pulls(u)
    BY <1>1, AwakeSame
  <2>3. calling'[u] = calling[u] \/ (calling[u] = w /\ calling'[u] = Nowhere)
    BY <1>3
  <2>4. \A x \in Workers : (proc[x] # "off" => proc'[x] # "off") /\ (proc[x] # "running" => proc'[x] # "running")
    BY <1>2
  <2>5. Homed(u)'
    <3>1. AtHome(u)'
      BY <1>1, <1>2, <2>1, <2>2, <2>3, <2>4 DEF Homed, AtHome
    <3>2. MovesAtHome(u)'
      BY <1>1, <1>2, <2>1, <2>4, MoverOf DEF Homed, MovesAtHome
    <3>3. Departs(u)' => Awake(moving[u].worker, u)'
      BY <1>1, <2>1, <2>2 DEF Homed, Awake
    <3>4. PullsAsleep(u)'
      BY <1>1, <1>2, <2>1, <2>2, <2>3, <2>4, MoverOf DEF Homed, PullsAsleep, Pulls
    <3>5. calling'[u] # Nowhere => proc'[calling'[u]] # "off"
      BY <2>1, <2>3, <2>4 DEF Homed, Typed, ProcessesTyped
    <3> QED
      BY <1>1, <2>1, <3>1, <3>2, <3>3, <3>4, <3>5 DEF Homed
  <2>6. Photographed(u)'
    BY <1>1, <2>1, <2>2, <2>3, MoverOf, Constants DEF UserKept, Photographed, Here, Departs
  <2>7. Blocked(u)'
    BY <1>1, <2>1, <2>2 DEF UserKept, Blocked, Awake
  <2>8. Flagged(u)'
    BY <1>1, <1>2, <2>1, <2>2 DEF UserKept, Flagged
  <2>9. Carried(u)'
    BY <1>1, <2>1, <2>2, RunningCarries DEF UserKept, Carried, Quits, InMemory
  <2> QED
    BY <2>5, <2>6, <2>7, <2>8, <2>9 DEF UserKept
<1> QED
  BY <1>4, <1>5 DEF AllKept
-----------------------------------------------------------------------------
(* A process that ends.                                                    *)

\* Who has his work in the memory of a worker that ends is not answered for.
LEMMA EndedKept ==
    ASSUME Typed, Standing, AllKept, NEW w \in Workers, Ends({w}), at \in {"up", "quitting"},
           UNCHANGED <<at, life, saved, todo>>,
           asked' = IF asked = w THEN Nowhere ELSE asked,
           frozen' = frozen, excused' = excused,
           \A u \in Users :
             /\ home'[u] = home[u] \/ home[u] = w
             /\ u \in known' => u \in known
             /\ u \in known \ known' => u \notin frozen /\ Awake(w, u)
             /\ u \in held \ held' => Awake(w, u)
             /\ ~Awake(w, u) => \A d \in Places : disk'[d].parcels[u] = disk[d].parcels[u]
             /\ u \notin excused /\ owed'[u] # 0 =>
                  /\ owed'[u] = owed[u] /\ ~Awake(w, u)
                  /\ ~(InMove(u, "pull", "done") /\ moving[u].worker = w)
    PROVE  AllKept'
<1>1. /\ proc'[w] = "off" /\ deposit'[w] = "working" /\ \A u \in Users : rows'[w][u] = Nothing
      /\ \A x \in Workers \ {w} : /\ proc'[x] = proc[x] /\ deposit'[x] = deposit[x]
                                  /\ rows'[x] = rows[x] /\ flags'[x] = flags[x]
      /\ \A u \in Users :
           /\ moving[u] # Nothing /\ moving[u].worker = w => moving'[u] = Nothing
           /\ moving[u] = Nothing \/ moving[u].worker # w => moving'[u] = moving[u]
           /\ calling[u] = w => calling'[u] = Nowhere
           /\ calling[u] # w => calling'[u] = calling[u]
  BY EndsTakes
<1>2. InTurn'
  <2>1. ASSUME NEW x \in Workers PROVE Turn(x)'
    <3>1. Turn(x) /\ Turn(w)
      BY DEF AllKept, InTurn
    <3> QED
      BY <1>1, <3>1, Constants DEF Turn
  <2> QED
    BY <2>1 DEF InTurn, AllKept
<1>3. ASSUME NEW u \in Users PROVE UserKept(u)'
  <2>1. UserKept(u) /\ Homed(u)
    BY DEF AllKept, UserKept
  <2>2. \A x \in Workers : Awake(x, u)' <=> x # w /\ Awake(x, u)
    BY <1>1 DEF Awake
  <2>3. moving'[u] # Nothing =>
          moving'[u] = moving[u] /\ moving[u].worker # w /\ moving[u].worker \in Workers
    BY <1>1, MoverOf
  <2>4. \A x \in Workers \ {w} : Awake(x, u) => ~Awake(w, u) /\ home[u] = x
    BY <2>1 DEF Homed, AtHome
  <2>5. moving'[u] # Nothing => ~Awake(w, u) /\ home'[u] = home[u] /\ home[u] = moving[u].worker
    BY <2>1, <2>3 DEF Homed, AtHome, MovesAtHome
  <2>6. ~Awake(w, u) => /\ u \in known => u \in known'
                        /\ u \in held => u \in held'
                        /\ \A d \in Places : disk'[d].parcels[u] = disk[d].parcels[u]
    OBVIOUS
  <2>7. Homed(u)'
    <3>1. AtHome(u)'
      BY <1>1, <2>1, <2>2, <2>4, <2>6 DEF Homed, AtHome
    <3>2. MovesAtHome(u)'
      BY <1>1, <2>1, <2>3, <2>5, <2>6 DEF Homed, MovesAtHome
    <3>3. PullsAsleep(u)'
      BY <1>1, <2>1, <2>2, <2>3 DEF Homed, PullsAsleep, Pulls, Asleep
    <3>4. Departs(u)' => Awake(moving[u].worker, u)'
      <4>1. Departs(u)' => Departs(u) /\ moving'[u] = moving[u] /\ moving[u].worker \in Workers \ {w}
        BY <2>3 DEF Departs
      <4> QED
        BY <1>1, <2>1, <4>1 DEF Homed, Awake
    <3>5. calling'[u] # Nowhere => proc'[calling'[u]] # "off"
      BY <1>1, <2>1 DEF Homed, Typed, ProcessesTyped
    <3>6. u \in frozen' => u \in known'
      BY <2>1 DEF Homed
    <3> QED
      BY <3>1, <3>2, <3>3, <3>4, <3>5, <3>6 DEF Homed
  <2>8. Photographed(u)'
    <3>1. SUFFICES ASSUME Departs(u)' PROVE Photographed(u)'
      BY DEF Photographed
    <3>2. /\ moving'[u] = moving[u] /\ moving[u].worker \in Workers \ {w} /\ Departs(u)
          /\ rows'[moving[u].worker] = rows[moving[u].worker]
      BY <1>1, <2>3, <3>1 DEF Departs
    <3>3. disk'[Here].parcels[u] = disk[Here].parcels[u] /\ Here' = Here
      BY <2>5, <2>6, <3>2 DEF Here, Places, Departs
    <3>4. calling'[u] = moving[u].worker => calling[u] = moving[u].worker
      BY <1>1, <3>2, Constants
    <3> QED
      BY <2>1, <3>2, <3>3, <3>4 DEF UserKept, Photographed
  <2>9. Blocked(u)'
    <3>1. at = "up" /\ Departs(u)' /\ rows'[moving'[u].worker][u] # life => u \in held'
      BY <1>1, <2>1, <2>3, <2>5, <2>6 DEF UserKept, Blocked, Departs
    <3>2. at = "quitting" /\ asked' # Nowhere =>
            /\ asked' = asked /\ asked \in Workers \ {w} /\ rows'[asked] = rows[asked]
      BY <1>1 DEF Typed, CourseTyped
    <3>3. at = "quitting" /\ asked' # Nowhere /\ rows'[asked'][u] \notin {Nothing, life}
            => u \in held'
      BY <2>1, <2>4, <2>6, <3>2 DEF UserKept, Blocked, Awake
    <3>4. at = "quitting" /\ Pulls(u)' /\ moving'[u].worker = asked' => u \in held'
      BY <2>1, <2>3, <2>5, <2>6, <3>2, Constants DEF UserKept, Blocked, Pulls
    <3> QED
      BY <3>1, <3>2, <3>3, <3>4 DEF Blocked, Awake
  <2>10. Flagged(u)'
    BY <1>1, <2>1, <2>2 DEF UserKept, Flagged
  <2>11. Carried(u)'
    <3>1. SUFFICES ASSUME u \notin excused, owed'[u] # 0
                   PROVE  (at = "up" => Serves(u)') /\ (at = "quitting" => Quits(u)')
      BY RunningCarries
    <3>2. /\ owed'[u] = owed[u] /\ ~Awake(w, u) /\ owed[u] # 0
          /\ ~(InMove(u, "pull", "done") /\ moving[u].worker = w)
      BY <3>1
    <3>3. (\A x \in Workers : Awake(x, u)' <=> Awake(x, u)) /\ (Asleep(u)' <=> Asleep(u))
      BY <2>2, <3>2 DEF Asleep
    <3>4. InMemory(u) => InMemory(u)'
      BY <1>1, <2>2, <3>2 DEF InMemory
    <3>5. \A d \in Places : disk'[d].parcels[u] = disk[d].parcels[u]
      BY <2>6, <3>2
    <3>6. CASE at = "up"
      <4>1. Serves(u)
        BY <2>1, <3>1, <3>2, <3>6 DEF UserKept, Carried
      <4>2. InMove(u, "pull", "done") => moving'[u] = moving[u]
        BY <1>1, <3>2
      <4>3. InMove(u, "pull", "done")' <=> InMove(u, "pull", "done")
        BY <2>3, <4>2 DEF InMove
      <4> QED
        BY <3>2, <3>3, <3>4, <3>5, <3>6, <4>1, <4>2, <4>3 DEF Serves, Places
    <3>7. CASE at = "quitting"
      <4>1. Quits(u)
        BY <2>1, <3>1, <3>2, <3>7 DEF UserKept, Carried
      <4>2. u \in known'
        BY <2>6, <3>2, <4>1 DEF Quits
      <4> QED
        BY <1>1, <3>2, <3>3, <3>4, <3>5, <3>7, <4>1, <4>2 DEF Quits, Places
    <3> QED
      BY <3>6, <3>7
  <2> QED
    BY <2>7, <2>8, <2>9, <2>10, <2>11 DEF UserKept
<1> QED
  BY <1>2, <1>3 DEF AllKept

LEMMA LeavesKept ==
    ASSUME Typed, Standing, AllKept, NEW w \in Workers, Leaves(w) PROVE AllKept'
<1>1. at = "quitting" /\ asked = w /\ asked' = Nowhere /\ deposit[w] = "temp" /\ Ends({w})
      /\ UNCHANGED <<at, life, saved, todo, known, frozen, held, home, disk, owed, excused>>
  BY Place DEF Leaves, vertex, history
<1>2. ASSUME NEW u \in Users, u \notin excused
      PROVE  ~Awake(w, u) /\ ~(InMove(u, "pull", "done") /\ moving[u].worker = w)
  <2>1. u \notin flags[w] /\ u \notin MovingAt(w)
    BY DEF Leaves, Finished
  <2>2. ~Awake(w, u)
    BY <1>1, <1>2, <2>1 DEF AllKept, UserKept, Flagged
  <2> QED
    BY <2>1, <2>2 DEF MovingAt, InMove
<1> QED
  BY <1>1, <1>2, EndedKept

\* A death: what was in memory is gone, and only its departing users have a torn parcel.
LEMMA DeathTears ==
    ASSUME Typed, Standing, AllKept, NEW w \in Workers, NEW left \in LeftByWriters({w}),
           NEW u \in Users, ~Awake(w, u)
    PROVE  \A d \in Places : left[d].parcels[u] = disk[d].parcels[u]
<1>1. \A d \in Places : \/ left[d].parcels[u] = disk[d].parcels[u]
                        \/ Departing(u, "locked") /\ moving[u].worker = w
  BY LeftParcels
<1>2. Departing(u, "locked") => Awake(moving[u].worker, u)
  BY Writer DEF Departing, InMove, Departs
<1> QED
  BY <1>1, <1>2

LEMMA DiesInQuitKept ==
    ASSUME Typed, Standing, AllKept, NEW w \in Workers, DiesLeaving(w) \/ Overdue(w) PROVE AllKept'
<1>1. /\ at = "quitting" /\ Ends({w}) /\ asked' = IF asked = w THEN Nowhere ELSE asked
      /\ UNCHANGED <<at, life, saved, todo, known, frozen, held, home, excused>>
      /\ owed' = [u \in Users |-> IF u \in InMemoryOf({w}) THEN 0 ELSE owed[u]]
      /\ disk' \in LeftByWriters({w})
  BY Constants DEF DiesLeaving, Overdue, vertex, AllKept, InTurn
<1>2. ASSUME NEW u \in Users, owed'[u] # 0
      PROVE  /\ owed'[u] = owed[u] /\ ~Awake(w, u)
             /\ ~(InMove(u, "pull", "done") /\ moving[u].worker = w)
  <2>1. u \notin InMemoryOf({w}) /\ owed'[u] = owed[u]
    BY <1>1, <1>2
  <2> QED
    BY <2>1 DEF InMemoryOf
<1>3. \A u \in Users : ~Awake(w, u) => \A d \in Places : disk'[d].parcels[u] = disk[d].parcels[u]
  BY <1>1, DeathTears
<1> QED
  BY <1>1, <1>2, <1>3, EndedKept

LEMMA DiesServingKept ==
    ASSUME Typed, Standing, AllKept, NEW w \in Workers, DiesServing(w) PROVE AllKept'
<1> DEFINE lost == {u \in known \ frozen : Awake(w, u) /\ home[u] = w}
<1>1. /\ at = "up" /\ Ends({w}) /\ UNCHANGED <<at, life, saved, todo, asked, excused>>
      /\ known' = known \ lost /\ frozen' = frozen \ lost /\ held' = held \ lost
      /\ home' = [u \in Users |-> IF home[u] = w THEN Nowhere ELSE home[u]]
      /\ owed' = [u \in Users |-> IF u \in InMemoryOf({w}) THEN 0 ELSE owed[u]]
  BY DEF DiesServing, course
<1>2. PICK left \in LeftByWriters({w}) :
        disk' = [left EXCEPT !["working"].parcels =
                    [u \in Users |-> IF u \in lost THEN Nothing ELSE @[u]],
                              !["working"].locks = @ \ lost]
  BY DEF DiesServing
<1>3. \A u \in lost : Awake(w, u) /\ u \notin frozen
  OBVIOUS
<1> HIDE DEF lost
<1>4. ASSUME NEW u \in Users, ~Awake(w, u)
      PROVE  \A d \in Places : disk'[d].parcels[u] = disk[d].parcels[u]
  <2>1. /\ \A d \in Places : left[d] \in Directory
        /\ left \in [Places -> Directory]
    BY LeftParcels, LeftTyped DEF Typed
  <2>2. /\ disk'["working"].parcels =
             [v \in Users |-> IF v \in lost THEN Nothing ELSE left["working"].parcels[v]]
        /\ \A d \in Places \ {"working"} : disk'[d] = left[d]
    BY <1>2, <2>1 DEF Directory, Places
  <2>3. \A d \in Places : disk'[d].parcels[u] = left[d].parcels[u]
    BY <1>3, <1>4, <2>2
  <2> QED
    BY <1>4, <2>3, DeathTears
<1>5. ASSUME NEW u \in Users, owed'[u] # 0
      PROVE  /\ owed'[u] = owed[u] /\ ~Awake(w, u)
             /\ ~(InMove(u, "pull", "done") /\ moving[u].worker = w)
  <2>1. u \notin InMemoryOf({w}) /\ owed'[u] = owed[u]
    BY <1>1, <1>5
  <2> QED
    BY <2>1 DEF InMemoryOf
<1>6. frozen' = frozen /\ asked' = IF asked = w THEN Nowhere ELSE asked
  BY <1>1, <1>3, Constants DEF AllKept, InTurn
<1>7. \A u \in Users : /\ home'[u] = home[u] \/ home[u] = w
                       /\ u \in known' => u \in known
                       /\ u \in known \ known' => u \notin frozen /\ Awake(w, u)
                       /\ u \in held \ held' => Awake(w, u)
  BY <1>1, <1>3
<1> QED
  BY <1>1, <1>4, <1>5, <1>6, <1>7, EndedKept
-----------------------------------------------------------------------------
(* No process: the quit is over, or the machine is down or starting.       *)

LEMMA Quiescent ==
    ASSUME Typed, Standing, AllKept, \A w \in Workers : proc[w] = "off"
    PROVE  /\ \A w \in Workers : deposit[w] = "working"
           /\ \A u \in Users : /\ Asleep(u) /\ moving[u] = Nothing /\ calling[u] = Nowhere
                               /\ \A w \in Workers : rows[w][u] = Nothing
<1>1. \A w \in Workers : deposit[w] = "working"
  BY DepositOf DEF AllKept, InTurn, Turn
<1>2. ASSUME NEW u \in Users
      PROVE  /\ Asleep(u) /\ moving[u] = Nothing /\ calling[u] = Nowhere
             /\ \A w \in Workers : rows[w][u] = Nothing
  <2>1. Homed(u)
    BY DEF AllKept, UserKept
  <2>2. \A w \in Workers : rows[w][u] = Nothing
    BY <2>1 DEF Homed, AtHome, Awake
  <2>3. moving[u] = Nothing
    BY <2>1, MoverOf DEF Homed, MovesAtHome
  <2>4. calling[u] = Nowhere
    BY <2>1 DEF Homed, Typed, ProcessesTyped
  <2> QED
    BY <2>2, <2>3, <2>4 DEF Asleep, Awake
<1> QED
  BY <1>1, <1>2

LEMMA NoProcess ==
    ASSUME Typed, Standing, AllKept, at \notin {"up", "quitting"}
    PROVE  \A w \in Workers : proc[w] = "off"
BY DEF Standing, Idle, Running, AllKept, InTurn, Turn

\* Then the work is where the photo is being made or found.
LEMMA StillKept ==
    ASSUME at' \notin {"up", "quitting"}, asked' = Nowhere, frozen' \subseteq known',
           \A w \in Workers : proc'[w] = "off" /\ deposit'[w] = "working",
           \A u \in Users : /\ moving'[u] = Nothing /\ calling'[u] = Nowhere
                            /\ \A w \in Workers : rows'[w][u] = Nothing,
           \A u \in Users : u \notin excused' /\ owed'[u] # 0 => OnDisk(u)'
    PROVE  AllKept'
<1>1. InTurn'
  BY DEF InTurn, Turn
<1>2. ASSUME NEW u \in Users PROVE UserKept(u)'
  <2>1. ~Departs(u)' /\ ~Pulls(u)' /\ \A w \in Workers : ~Awake(w, u)'
    BY DEF Departs, Pulls, Awake
  <2>2. Homed(u)'
    BY <2>1 DEF Homed, AtHome, MovesAtHome, PullsAsleep
  <2>3. Photographed(u)' /\ Blocked(u)' /\ Flagged(u)'
    BY <2>1 DEF Photographed, Blocked, Flagged
  <2>4. Carried(u)'
    BY DEF Carried
  <2> QED
    BY <2>2, <2>3, <2>4 DEF UserKept
<1> QED
  BY <1>1, <1>2 DEF AllKept

\* A step from one such state to another.
LEMMA StillStep ==
    ASSUME Typed, Standing, AllKept, at \notin {"up", "quitting"}, at' \notin {"up", "quitting"},
           UNCHANGED <<asked, processes>>, frozen' \subseteq known',
           \A u \in Users : u \notin excused' /\ owed'[u] # 0 => OnDisk(u)'
    PROVE  AllKept'
<1>1. /\ \A w \in Workers : proc[w] = "off" /\ deposit[w] = "working"
      /\ \A u \in Users : /\ moving[u] = Nothing /\ calling[u] = Nowhere
                          /\ \A w \in Workers : rows[w][u] = Nothing
  BY NoProcess, Quiescent
<1>2. asked = Nowhere
  BY DEF AllKept, InTurn
<1> QED
  BY <1>1, <1>2, StillKept DEF processes

LEMMA FrozenKnown == ASSUME Typed, AllKept PROVE frozen \subseteq known
BY DEF AllKept, UserKept, Homed, Typed, VertexTyped

LEMMA QuitAllDoneKept == ASSUME Typed, Standing, AllKept, QuitAllDone PROVE AllKept'
<1>1. /\ at = "quitting" /\ at' = "gathered" /\ asked = Nowhere /\ todo = {}
      /\ UNCHANGED <<asked, known, frozen, proc, deposit, rows, moving, calling, disk, owed, excused>>
  BY DEF QuitAllDone, vertex, processes, history
<1>2. \A w \in Workers : proc[w] = "off"
  BY <1>1, Constants DEF AllKept, InTurn, Turn
<1>3. /\ \A w \in Workers : deposit[w] = "working"
      /\ \A u \in Users : /\ Asleep(u) /\ moving[u] = Nothing /\ calling[u] = Nowhere
                          /\ \A w \in Workers : rows[w][u] = Nothing
  BY <1>2, Quiescent
<1>4. ASSUME NEW u \in Users, u \notin excused, owed[u] # 0 PROVE OnDisk(u)'
  <2>1. Quits(u) /\ Asleep(u)
    BY <1>1, <1>3, <1>4 DEF AllKept, UserKept, Carried
  <2> QED
    BY <1>1, <2>1 DEF Quits, OnDisk
<1> QED
  BY <1>1, <1>2, <1>3, <1>4, FrozenKnown, StillKept

LEMMA WriteItemKept == ASSUME Typed, Standing, AllKept, WriteItem PROVE AllKept'
<1>1. /\ at = "gathered" /\ at' = "written"
      /\ UNCHANGED <<asked, processes, known, frozen, owed, excused>>
  BY DEF WriteItem, vertex, history
<1>2. disk'["temp"].item.users = known /\ disk'["temp"].parcels = disk["temp"].parcels
  BY DEF WriteItem, Typed, DiskTyped, Directory, Places
<1>3. ASSUME NEW u \in Users, u \notin excused, owed[u] # 0 PROVE OnDisk(u)'
  <2>1. OnDisk(u)
    BY <1>3 DEF AllKept, UserKept, Carried
  <2> QED
    BY <1>1, <1>2, <2>1 DEF OnDisk
<1> QED
  BY <1>1, <1>3, FrozenKnown, StillStep

\* The vertex ends: what is owed then is what the directory of the photo holds.
LEMMA FallsKept ==
    ASSUME Typed, Falls,
           \A u \in Users : u \notin excused' /\ owed'[u] # 0 =>
             /\ disk'["data"].item.state = "whole" /\ u \in disk'["data"].item.users
             /\ disk'["data"].parcels[u] = owed'[u]
    PROVE  AllKept'
<1>1. at' = "down" /\ asked' = Nowhere /\ frozen' = {} /\ known' = {}
  BY DEF Falls
<1>2. /\ \A w \in Workers : proc'[w] = "off" /\ deposit'[w] = "working"
      /\ \A w \in Workers, u \in Users : rows'[w][u] = Nothing
      /\ \A u \in Users : moving'[u] = Nothing /\ calling'[u] = Nowhere
  <2>1. \A u \in Users : moving[u] # Nothing => moving[u].worker \in Workers
    BY MoverOf
  <2>2. \A u \in Users : calling[u] = Nowhere \/ calling[u] \in Workers
    BY DEF Typed, ProcessesTyped
  <2> QED
    BY <2>1, <2>2, EndsTakes DEF Falls
<1>3. \A u \in Users : u \notin excused' /\ owed'[u] # 0 => OnDisk(u)'
  BY <1>1 DEF OnDisk
<1> QED
  BY <1>1, <1>2, <1>3, StillKept

LEMMA CommitKept == ASSUME Typed, Standing, AllKept, Commit PROVE AllKept'
<1>1. disk'["data"] = disk["temp"] /\ disk["temp"].item.state = "whole"
  BY CommitKeeps
<1>2. ASSUME NEW u \in Users, u \notin excused, owed[u] # 0
      PROVE  u \in disk["temp"].item.users /\ disk["temp"].parcels[u] = owed[u]
  BY <1>2 DEF AllKept, UserKept, Carried, OnDisk, Commit
<1> QED
  BY <1>1, <1>2, FallsKept DEF Commit, history

LEMMA VertexEndsKept ==
    ASSUME Typed, Standing, AllKept,
           QuitRaises \/ StopDry \/ Crash \/ \E w \in Workers : DiesUnderOrder(w)
    PROVE  AllKept'
<1>1. Falls /\ disk'["data"] = disk["data"] /\ owed' = OwedBy(disk) /\ excused' = excused
  BY EndsKeep DEF QuitRaises, StopDry, Crash, DiesUnderOrder
<1>2. at # "down"
  BY DEF QuitRaises, StopDry, Crash, DiesUnderOrder
<1>3. ASSUME NEW u \in Users, u \notin excused, owed'[u] # 0
      PROVE  /\ disk["data"].item.state = "whole" /\ u \in disk["data"].item.users
             /\ disk["data"].parcels[u] = owed'[u]
  <2>1. /\ disk["data"].item.state = "whole" /\ u \in disk["data"].item.users
        /\ owed'[u] = owed[u]
    BY <1>1, <1>3 DEF OwedBy
  <2>2. at \in {"wiped", "cleared", "found", "missing"}
    <3>1. disk["data"] # Gone /\ disk["data"].item # NoItem
      BY <2>1 DEF Gone, Bare, NoItem
    <3> QED
      BY <1>2, <3>1 DEF Standing, PhotoStands, Running, Typed, CourseTyped, Courses
  <2> QED
    BY <1>3, <2>1, <2>2 DEF AllKept, UserKept, Carried, OnDisk
<1> QED
  BY <1>1, <1>3, FallsKept

LEMMA StartWorkerKept ==
    ASSUME Typed, Standing, AllKept, NEW w \in Workers, StartWorker(w) PROVE AllKept'
<1>1. /\ at \in {"judged", "up"} /\ at' = "up" /\ proc[w] = "off"
      /\ UNCHANGED <<life, asked, known, frozen, held, home, deposit, rows, flags, calling, moving,
                     disk, owed, excused>>
      /\ proc'[w] = "running" /\ \A x \in Workers \ {w} : proc'[x] = proc[x]
  BY DEF StartWorker, vertex, history, Typed, ProcessesTyped
<1>2. InTurn'
  BY <1>1, Place DEF AllKept, InTurn, Turn
<1>3. ASSUME NEW u \in Users PROVE UserKept(u)'
  <2>1. UserKept(u) /\ Homed(u)
    BY DEF AllKept, UserKept
  <2>2. /\ \A x \in Workers : Awake(x, u)' <=> Awake(x, u)
        /\ Asleep(u)' <=> Asleep(u)
        /\ Departs(u)' <=> Departs(u)
        /\ Pulls(u)' <=> Pulls(u)
    BY <1>1, AwakeSame
  <2>3. ~Awake(w, u) /\ (moving[u] # Nothing => moving[u].worker # w)
    BY <1>1, <2>1 DEF Homed, AtHome, MovesAtHome
  <2>4. Homed(u)'
    <3>1. AtHome(u)' /\ MovesAtHome(u)'
      BY <1>1, <2>1, <2>2, <2>3, MoverOf DEF Homed, AtHome, MovesAtHome
    <3>2. Departs(u)' => Awake(moving[u].worker, u)'
      BY <1>1, <2>1, <2>2 DEF Homed, Awake
    <3>3. PullsAsleep(u)'
      BY <1>1, <2>1, <2>2, <2>3, MoverOf DEF Homed, PullsAsleep, Pulls
    <3>4. calling'[u] # Nowhere => proc'[calling'[u]] # "off"
      BY <1>1, <2>1 DEF Homed, Typed, ProcessesTyped
    <3> QED
      BY <1>1, <2>1, <3>1, <3>2, <3>3, <3>4 DEF Homed
  <2>5. at = "judged" => moving[u] = Nothing /\ Asleep(u)
    BY NoProcess, Quiescent
  <2>6. Photographed(u)' /\ Blocked(u)' /\ Flagged(u)'
    BY <1>1, <2>1, <2>2, <2>5 DEF UserKept, Photographed, Blocked, Flagged, Here, Departs
  <2>7. Carried(u)'
    <3>1. SUFFICES ASSUME u \notin excused, owed[u] # 0 PROVE Serves(u)'
      BY <1>1, RunningCarries
    <3>2. CASE at = "up"
      <4>1. Serves(u)
        BY <2>1, <3>1, <3>2 DEF UserKept, Carried
      <4> QED
        BY <1>1, <2>2, <4>1 DEF Serves, InMemory, InMove
    <3>3. CASE at = "judged"
      <4>1. u \in frozen /\ disk["working"].parcels[u] = owed[u]
        BY <2>1, <3>1, <3>3 DEF UserKept, Carried, OnDisk
      <4> QED
        BY <1>1, <2>2, <2>5, <3>3, <4>1 DEF Serves, InMemory, InMove, Asleep
    <3> QED
      BY <1>1, <3>2, <3>3
  <2> QED
    BY <2>4, <2>6, <2>7 DEF UserKept
<1> QED
  BY <1>2, <1>3 DEF AllKept
-----------------------------------------------------------------------------
(* The start, and the theorem.                                             *)

LEMMA BootReadsKept ==
    ASSUME Typed, Standing, AllKept,
           WipeWorking \/ DropTemp \/ ReadItem \/ ReadNothing \/ ReadFails \/ DropItem \/ DropWorking
    PROVE  AllKept'
<1>1. UNCHANGED <<asked, known, frozen, processes, owed, excused>>
  BY DEF WipeWorking, DropTemp, ReadItem, ReadNothing, ReadFails, DropItem, DropWorking, vertex,
     history
<1>2. at \notin {"up", "quitting"} /\ at' \notin {"up", "quitting"}
  BY DEF WipeWorking, DropTemp, ReadItem, ReadNothing, ReadFails, DropItem, DropWorking
<1>3. disk'["data"].parcels = disk["data"].parcels
  BY DEF WipeWorking, DropTemp, ReadItem, ReadNothing, ReadFails, DropItem, DropWorking, Typed,
     DiskTyped, Directory, Places
<1>4. ~DropItem => disk'["data"].item = disk["data"].item
  BY DEF WipeWorking, DropTemp, ReadItem, ReadNothing, ReadFails, DropWorking, Typed,
     DiskTyped, Directory, Places
<1>5. ASSUME NEW u \in Users, u \notin excused, owed[u] # 0 PROVE OnDisk(u)'
  <2>1. OnDisk(u)
    BY <1>5 DEF AllKept, UserKept, Carried
  <2>2. CASE WipeWorking \/ DropTemp \/ ReadItem \/ ReadNothing \/ ReadFails
    <3>1. /\ at \in {"down", "wiped", "cleared"} /\ at' \in {"wiped", "cleared", "found", "missing"}
          /\ disk'["data"].item = disk["data"].item
      BY <1>4, <2>2 DEF WipeWorking, DropTemp, ReadItem, ReadNothing, ReadFails, DropItem
    <3> QED
      BY <1>1, <1>3, <2>1, <3>1 DEF OnDisk
  <2>3. CASE DropItem
    <3>1. at = "found" /\ at' = "spent" /\ saved' = saved /\ saved = disk["data"].item
      BY <2>3 DEF DropItem, Standing, PhotoStands
    <3> QED
      BY <1>1, <1>3, <2>1, <3>1 DEF OnDisk
  <2>4. CASE DropWorking
    <3>1. at = "spent" /\ at' = "cleared_working" /\ saved' = saved
      BY <2>4 DEF DropWorking
    <3> QED
      BY <1>1, <1>3, <2>1, <3>1 DEF OnDisk
  <2> QED
    BY <2>2, <2>3, <2>4
<1> QED
  BY <1>1, <1>2, <1>5, FrozenKnown, StillStep

\* Whose parcel is gone is owed nothing, and without the item nobody is.
LEMMA UnlinksKept == ASSUME Typed, Standing, AllKept, Unlinks PROVE AllKept'
<1>1. /\ UNCHANGED <<asked, processes, known, frozen, excused>>
      /\ at = "missing" /\ at' = "missing"
  BY DEF Unlinks, course, vertex
<1>2. ASSUME NEW u \in Users, u \notin excused, owed'[u] # 0 PROVE OnDisk(u)'
  <2>1. disk["data"] \in Directory /\ owed \in [Users -> Stores]
    BY DEF Typed, DiskTyped, HistoryTyped, Places
  <2>2. \/ \E v \in Users : /\ disk' = [disk EXCEPT !["data"].parcels[v] = Nothing]
                            /\ owed' = [owed EXCEPT ![v] = 0]
        \/ /\ owed' = owed
           /\ \E us : disk' = [disk EXCEPT !["data"].locks = us]
    BY <1>2 DEF Unlinks
  <2>3. CASE owed' = owed /\ \E us : disk' = [disk EXCEPT !["data"].locks = us]
    <3>1. SameParcels /\ disk'["data"].item = disk["data"].item
      BY <2>3, LocksOnly DEF Places
    <3>2. OnDisk(u)
      BY <1>2, <2>3 DEF AllKept, UserKept, Carried
    <3> QED
      BY <1>1, <2>3, <3>1, <3>2 DEF OnDisk, SameParcels, Places
  <2>4. ASSUME NEW v \in Users, disk' = [disk EXCEPT !["data"].parcels[v] = Nothing],
               owed' = [owed EXCEPT ![v] = 0]
        PROVE  OnDisk(u)'
    <3>1. u # v /\ owed'[u] = owed[u]
      BY <1>2, <2>1, <2>4
    <3>2. OnDisk(u)
      BY <1>2, <3>1 DEF AllKept, UserKept, Carried
    <3>3. disk'["data"].parcels[u] = disk["data"].parcels[u] /\ disk'["data"].item = disk["data"].item
      BY <2>4, <3>1, ParcelWritten DEF Places
    <3> QED
      BY <1>1, <3>1, <3>2, <3>3 DEF OnDisk
  <2> QED
    BY <2>2, <2>3, <2>4
<1> QED
  BY <1>1, <1>2, FrozenKnown, StillStep

LEMMA BootBecomesKept ==
    ASSUME Typed, Standing, AllKept,
           StartClean \/ RenameIn \/ Adopt \/ \E old \in SUBSET Users : Expire(old)
    PROVE  AllKept'
<1>1. UNCHANGED <<asked, processes>> /\ at \notin {"up", "quitting"} /\ at' \notin {"up", "quitting"}
  BY DEF StartClean, RenameIn, Adopt, Expire
<1>2. CASE StartClean
  <2>1. \A u \in Users : owed'[u] = 0
    BY <1>2 DEF StartClean
  <2>2. frozen' \subseteq known'
    BY <1>2, FrozenKnown DEF StartClean, vertex
  <2> QED
    BY <1>1, <2>1, <2>2, StillStep
<1>3. CASE RenameIn
  <2>1. /\ at = "cleared_working" /\ at' = "renamed" /\ disk'["working"] = disk["data"]
        /\ UNCHANGED <<known, frozen, saved, owed, excused>>
    BY <1>3 DEF RenameIn, Rename, vertex, history, Typed, DiskTyped, Places
  <2>2. ASSUME NEW u \in Users, u \notin excused, owed[u] # 0 PROVE OnDisk(u)'
    <3>1. OnDisk(u)
      BY <2>2 DEF AllKept, UserKept, Carried
    <3> QED
      BY <2>1, <3>1 DEF OnDisk
  <2> QED
    BY <1>1, <2>1, <2>2, FrozenKnown, StillStep
<1>4. CASE Adopt
  <2>1. /\ at = "renamed" /\ at' = "adopted" /\ known' = saved.users /\ frozen' = saved.users
        /\ UNCHANGED <<disk, owed, excused>>
    BY <1>4 DEF Adopt, history
  <2>2. ASSUME NEW u \in Users, u \notin excused, owed[u] # 0 PROVE OnDisk(u)'
    <3>1. OnDisk(u)
      BY <2>2 DEF AllKept, UserKept, Carried
    <3> QED
      BY <2>1, <3>1 DEF OnDisk
  <2> QED
    BY <1>1, <2>1, <2>2, StillStep
<1>5. CASE \E old \in SUBSET Users : Expire(old)
  <2>1. PICK old \in SUBSET Users : Expire(old)
    BY <1>5
  <2>2. /\ at = "adopted" /\ at' = "judged" /\ known' = known \ old /\ frozen' = frozen \ old
        /\ owed' = [u \in Users |-> IF u \in old THEN 0 ELSE owed[u]] /\ excused' = excused
    BY <2>1 DEF Expire
  <2>3. disk'["working"].parcels =
          [u \in Users |-> IF u \in old THEN Nothing ELSE disk["working"].parcels[u]]
    <3>1. disk["working"] \in Directory
      BY DEF Typed, DiskTyped, Places
    <3> QED
      BY <2>1, <3>1 DEF Expire, Typed, DiskTyped, Directory, Places
  <2>4. ASSUME NEW u \in Users, u \notin excused, owed'[u] # 0 PROVE OnDisk(u)'
    <3>1. u \notin old /\ owed'[u] = owed[u]
      BY <2>2, <2>4
    <3>2. OnDisk(u)
      BY <2>4, <3>1 DEF AllKept, UserKept, Carried
    <3>3. disk'["working"].parcels[u] = disk["working"].parcels[u]
      BY <2>3, <3>1
    <3> QED
      BY <2>2, <3>1, <3>2, <3>3 DEF OnDisk
  <2>5. frozen' \subseteq known'
    BY <2>2, FrozenKnown
  <2> QED
    BY <1>1, <2>2, <2>4, <2>5, StillStep
<1> QED
  BY <1>2, <1>3, <1>4, <1>5

LEMMA KeptInit == Init => AllKept
<1> SUFFICES ASSUME Init PROVE AllKept
  OBVIOUS
<1>1. InTurn
  BY DEF Init, InTurn, Turn
<1>2. ASSUME NEW u \in Users PROVE UserKept(u)
  BY DEF Init, UserKept, Homed, AtHome, MovesAtHome, PullsAsleep, Photographed, Blocked, Flagged,
     Carried, Departs, Pulls, Awake
<1> QED
  BY <1>1, <1>2 DEF AllKept

LEMMA KeptStep == ASSUME Typed, Standing, AllKept, [Next]_vars PROVE AllKept'
<1>1. CASE Boot
  BY <1>1, BootReadsKept, UnlinksKept, BootBecomesKept DEF Boot
<1>2. CASE Service
  BY <1>2, StartWorkerKept, DoesKept DEF Service, Does
<1>3. CASE Departure
  BY <1>3, DoesKept DEF Departure, Does
<1>4. CASE Quit
  BY <1>4, BeginQuitKept, QuitAllDoneKept, WriteItemKept, CommitKept, VertexEndsKept,
     AskToLeaveKept, LeavingOrderKept, LeavesKept DEF Quit
<1>5. CASE GoesWrong
  BY <1>5, DiesServingKept, DiesInQuitKept, VertexEndsKept DEF GoesWrong
<1>6. CASE UNCHANGED vars
  <2>1. /\ UNCHANGED <<at, life, saved, todo, asked, known, frozen, held, home>>
        /\ UNCHANGED <<proc, deposit, rows, flags, calling, moving, disk, owed, excused>>
    BY <1>6 DEF vars, course, vertex, processes, history
  <2>2. SameMachine /\ \A u \in Users : Aside(u)
    BY <2>1 DEF SameMachine, Aside, course
  <2>3. InTurn'
    BY <2>1 DEF AllKept, InTurn, Turn
  <2> QED
    BY <2>2, <2>3, AsideKept DEF AllKept
<1> QED
  BY <1>1, <1>2, <1>3, <1>4, <1>5, <1>6 DEF Next

LEMMA KeptIsKept == ASSUME Typed, Standing, AllKept PROVE Kept
<1> SUFFICES ASSUME NEW u \in Users \ excused, owed[u] # 0
             PROVE  /\ at = "up" =>
                         /\ u \in known
                         /\ \/ \E w \in Workers : rows[w][u] = owed[u]
                            \/ u \in frozen /\ disk["working"].parcels[u] = owed[u]
                            \/ InMove(u, "pull", "done") /\ moving[u].store = owed[u]
                    /\ at = "down" =>
                         /\ disk["data"].item.state = "whole" /\ u \in disk["data"].item.users
                         /\ disk["data"].parcels[u] = owed[u]
  BY DEF Kept
<1>1. Homed(u) /\ Carried(u)
  BY DEF AllKept, UserKept
<1>2. ASSUME at = "up", ~Asleep(u)
      PROVE  u \in known /\ \E w \in Workers : rows[w][u] = owed[u]
  BY <1>1, <1>2 DEF Homed, AtHome, Asleep, Carried, Serves, InMemory
<1>3. ASSUME at = "up", Asleep(u)
      PROVE  /\ u \in known
             /\ \/ u \in frozen /\ disk["working"].parcels[u] = owed[u]
                \/ InMove(u, "pull", "done") /\ moving[u].store = owed[u]
  BY <1>1, <1>3 DEF Homed, MovesAtHome, Carried, Serves, InMove
<1>4. CASE at = "down"
  BY <1>1, <1>4 DEF Carried, OnDisk
<1> QED
  BY <1>2, <1>3, <1>4

\* quit, adopt_frozen_registers: whoever was awake when the soft quit began is found again with
\* his last work by the start that follows it, unless the disk or a death took it, and nothing he
\* did since is in an older parcel.
THEOREM WorkIsKept == Spec => []Kept
<1>1. Init => IInv /\ AllKept
  BY TypedInit, StandingInit, KeptInit DEF IInv
<1>2. IInv /\ AllKept /\ [Next]_vars => (IInv /\ AllKept)'
  BY TypedStep, StandingStep, KeptStep DEF IInv
<1>3. IInv /\ AllKept => Kept
  BY KeptIsKept DEF IInv
<1> QED
  BY <1>1, <1>2, <1>3, PTL DEF Spec
-----------------------------------------------------------------------------
=============================================================================
