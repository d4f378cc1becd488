------------------------- MODULE SoftReboot_proofs -------------------------
(***************************************************************************)
(* What holds of the soft reboot for any users and any workers, however    *)
(* often the machine is started and whatever goes wrong: both renames find *)
(* their source there and their destination free, and a start becomes the  *)
(* whole of the photo it finds or nothing of it, a photo that loses a file *)
(* only to a start that gave it up.                                        *)
(***************************************************************************)
EXTENDS SoftReboot, TLAPS

Courses ==
    {"down", "wiped", "cleared", "found", "missing", "spent", "cleared_working", "renamed",
     "adopted", "judged", "up", "quitting", "gathered", "written"}
Parcels == Stores \cup {Nothing, Torn}

\* TypeOK, cut where the actions cut it.
CourseTyped ==
    /\ at \in Courses /\ life \in 0..MaxLives
    /\ saved \in Item /\ todo \in SUBSET Workers /\ asked \in Workers \cup {Nowhere}
VertexTyped ==
    /\ known \in SUBSET Users /\ frozen \in SUBSET Users /\ held \in SUBSET Users
    /\ home \in [Users -> Workers \cup {Nowhere}]
    /\ register \in Stores
ProcessesTyped ==
    /\ proc \in [Workers -> {"off", "running", "leaving", "cut"}]
    /\ deposit \in [Workers -> {"working", "temp"}]
    /\ rows \in [Workers -> [Users -> Stores \cup {Nothing}]]
    /\ flags \in [Workers -> SUBSET Users]
    /\ calling \in [Users -> Workers \cup {Nowhere}]
    /\ moving \in [Users -> Movement \cup {Nothing}]
HistoryTyped ==
    /\ owed \in [Users -> Stores] /\ excused \in SUBSET Users
    /\ fresh \in Stores /\ troubles \in 0..MaxTroubles
DiskTyped == disk \in [Places -> Directory]
Typed == CourseTyped /\ VertexTyped /\ ProcessesTyped /\ HistoryTyped /\ DiskTyped

LEMMA TypeOKIsTyped == TypeOK <=> Typed
BY DEF TypeOK, Typed, CourseTyped, VertexTyped, ProcessesTyped, HistoryTyped, DiskTyped, Courses

LEMMA Constants ==
    /\ Nothing \notin Nat /\ Torn \notin Nat /\ Nothing # Torn
    /\ Nowhere \notin Workers
    /\ MaxLives \in Nat /\ MaxTroubles \in Nat
BY SoftRebootAssumption DEF SoftRebootAssumption

LEMMA EmptyDirectories == Gone \in Directory /\ Emptied \in Directory /\ NoItem \in Item
<1>1. NoItem \in Item
  BY Constants DEF NoItem, Item, Stores
<1>2. [u \in Users |-> Nothing] \in [Users -> Stores \cup {Nothing, Torn}]
  OBVIOUS
<1> QED
  BY <1>1, <1>2 DEF Gone, Emptied, Bare, Directory

\* A process that ends keeps every variable of the processes in its shape.
LEMMA EndsTyped ==
    ASSUME ProcessesTyped, NEW ws \in SUBSET Workers, Ends(ws)
    PROVE  ProcessesTyped'
<1>1. proc' \in [Workers -> {"off", "running", "leaving", "cut"}]
  BY DEF ProcessesTyped, Ends
<1>2. deposit' \in [Workers -> {"working", "temp"}]
  BY DEF ProcessesTyped, Ends
<1>3. rows' \in [Workers -> [Users -> Stores \cup {Nothing}]]
  BY DEF ProcessesTyped, Ends
<1>4. flags' \in [Workers -> SUBSET Users]
  BY DEF ProcessesTyped, Ends
<1>5. calling' \in [Users -> Workers \cup {Nowhere}]
  BY DEF ProcessesTyped, Ends
<1>6. moving' \in [Users -> Movement \cup {Nothing}]
  BY DEF ProcessesTyped, Ends
<1> QED
  BY <1>1, <1>2, <1>3, <1>4, <1>5, <1>6 DEF ProcessesTyped

LEMMA FallsTyped ==
    ASSUME Typed, Falls
    PROVE  CourseTyped' /\ VertexTyped' /\ ProcessesTyped'
<1>1. CourseTyped'
  BY EmptyDirectories DEF Typed, CourseTyped, Falls, Courses
<1>2. VertexTyped'
  BY Constants DEF Typed, VertexTyped, Falls, Stores
<1>3. ProcessesTyped'
  BY EndsTyped DEF Typed, Falls
<1> QED
  BY <1>1, <1>2, <1>3

\* Writing in one directory leaves three directories.
LEMMA DirectoryWritten ==
    ASSUME DiskTyped, NEW d \in Places, NEW x \in Directory
    PROVE  [disk EXCEPT ![d] = x] \in [Places -> Directory]
BY DEF DiskTyped

LEMMA LocksWritten ==
    ASSUME DiskTyped, NEW d \in Places, NEW us \in SUBSET Users
    PROVE  [disk EXCEPT ![d].locks = us] \in [Places -> Directory]
<1>1. [disk[d] EXCEPT !.locks = us] \in Directory
  BY DEF DiskTyped, Directory
<1> QED
  BY <1>1, DirectoryWritten

LEMMA ParcelsWritten ==
    ASSUME DiskTyped, NEW d \in Places, NEW ps \in [Users -> Parcels]
    PROVE  [disk EXCEPT ![d].parcels = ps] \in [Places -> Directory]
<1>1. [disk[d] EXCEPT !.parcels = ps] \in Directory
  BY DEF DiskTyped, Directory, Parcels
<1> QED
  BY <1>1, DirectoryWritten

LEMMA ItemWritten ==
    ASSUME DiskTyped, NEW d \in Places, NEW i \in Item
    PROVE  [disk EXCEPT ![d].item = i] \in [Places -> Directory]
<1>1. [disk[d] EXCEPT !.item = i] \in Directory
  BY DEF DiskTyped, Directory
<1> QED
  BY <1>1, DirectoryWritten

LEMMA MadeThere ==
    ASSUME DiskTyped, NEW d \in Places
    PROVE  [disk EXCEPT ![d].there = TRUE] \in [Places -> Directory]
<1>1. [disk[d] EXCEPT !.there = TRUE] \in Directory
  BY DEF DiskTyped, Directory
<1> QED
  BY <1>1, DirectoryWritten

\* What dying writers leave: parcels changed where they wrote, nothing else.
LEMMA LeftTyped ==
    ASSUME DiskTyped, ProcessesTyped, NEW ws \in SUBSET Workers, NEW left \in LeftByWriters(ws)
    PROVE  /\ left \in [Places -> Directory]
           /\ \A d \in Places : left[d].there = disk[d].there /\ left[d].item = disk[d].item
                                /\ left[d].locks = disk[d].locks
           /\ left["data"] = disk["data"]
<1>1. PICK us \in SUBSET {u \in Users : Departing(u, "locked") /\ moving[u].worker \in ws} :
        left = [d \in Places |-> [disk[d] EXCEPT !.parcels =
                 [u \in Users |-> IF u \in us /\ deposit[moving[u].worker] = d THEN Torn
                                  ELSE @[u]]]]
  BY Zenon DEF LeftByWriters
<1>2. ASSUME NEW d \in Places
      PROVE  /\ left[d] = [disk[d] EXCEPT !.parcels =
                 [u \in Users |-> IF u \in us /\ deposit[moving[u].worker] = d THEN Torn
                                  ELSE @[u]]]
             /\ left[d] \in Directory
             /\ left[d].there = disk[d].there /\ left[d].item = disk[d].item
             /\ left[d].locks = disk[d].locks
  BY <1>1 DEF DiskTyped, Directory
<1>3. left \in [Places -> Directory]
  BY <1>1, <1>2
<1>4. \A u \in us : deposit[moving[u].worker] # "data"
  <2> SUFFICES ASSUME NEW u \in us PROVE deposit[moving[u].worker] # "data"
    OBVIOUS
  <2>1. moving[u].worker \in Workers
    BY <1>1 DEF Departing, InMove, ProcessesTyped, Movement
  <2> QED
    BY <2>1 DEF ProcessesTyped
<1>5. [u \in Users |-> IF u \in us /\ deposit[moving[u].worker] = "data" THEN Torn
                       ELSE disk["data"].parcels[u]] = disk["data"].parcels
  BY <1>4 DEF DiskTyped, Directory, Places
<1>6. left["data"] = disk["data"]
  BY <1>2, <1>5 DEF DiskTyped, Directory, Places
<1> QED
  BY <1>2, <1>3, <1>6
-----------------------------------------------------------------------------
(* Every step keeps the types: first the start.                            *)

LEMMA BootTyped ==
    ASSUME Typed,
           WipeWorking \/ DropTemp \/ ReadItem \/ ReadNothing \/ ReadFails \/ StartClean
             \/ DropItem \/ DropWorking \/ RenameIn \/ Adopt
    PROVE  Typed'
<1>1. CASE WipeWorking
  <2>1. DiskTyped'
    BY <1>1, EmptyDirectories, DirectoryWritten DEF WipeWorking, Typed, DiskTyped, Places
  <2>2. CourseTyped'
    BY <1>1, Constants DEF WipeWorking, Typed, CourseTyped, Courses
  <2> QED
    BY <1>1, <2>1, <2>2
    DEF WipeWorking, Typed, VertexTyped, ProcessesTyped, HistoryTyped, vertex, processes, history
<1>2. CASE DropTemp
  <2>1. DiskTyped'
    BY <1>2, EmptyDirectories, DirectoryWritten DEF DropTemp, Typed, DiskTyped, Places
  <2> QED
    BY <1>2, <2>1
    DEF DropTemp, Typed, CourseTyped, Courses, VertexTyped, ProcessesTyped, HistoryTyped, vertex,
        processes, history
<1>3. CASE ReadItem
  <2>1. disk["data"].item \in Item
    BY DEF Typed, DiskTyped, Places, Directory
  <2> QED
    BY <1>3, <2>1
    DEF ReadItem, Typed, CourseTyped, Courses, VertexTyped, ProcessesTyped, HistoryTyped, DiskTyped,
        vertex, processes, history
<1>4. CASE ReadNothing
  <2>1. DiskTyped'
    BY <1>4, MadeThere DEF ReadNothing, Typed, DiskTyped, Places
  <2> QED
    BY <1>4, <2>1
    DEF ReadNothing, Typed, CourseTyped, Courses, VertexTyped, ProcessesTyped, HistoryTyped, vertex,
        processes, history
<1>5. CASE ReadFails
  BY <1>5, Constants
  DEF ReadFails, Trouble, Typed, CourseTyped, Courses, VertexTyped, ProcessesTyped, HistoryTyped,
      DiskTyped, vertex, processes
<1>6. CASE StartClean
  <2>1. DiskTyped'
    BY <1>6, EmptyDirectories, DirectoryWritten DEF StartClean, Typed, DiskTyped, Places
  <2>2. HistoryTyped'
    BY <1>6, Constants DEF StartClean, Typed, HistoryTyped, CourseTyped, Stores
  <2> QED
    BY <1>6, <2>1, <2>2
    DEF StartClean, Typed, CourseTyped, Courses, VertexTyped, ProcessesTyped, vertex, processes
<1>7. CASE DropItem
  <2>1. DiskTyped'
    BY <1>7, EmptyDirectories, ItemWritten DEF DropItem, Typed, DiskTyped, Places
  <2> QED
    BY <1>7, <2>1
    DEF DropItem, Typed, CourseTyped, Courses, VertexTyped, ProcessesTyped, HistoryTyped, vertex,
        processes, history
<1>8. CASE DropWorking
  <2>1. DiskTyped'
    BY <1>8, EmptyDirectories, DirectoryWritten DEF DropWorking, Typed, DiskTyped, Places
  <2> QED
    BY <1>8, <2>1
    DEF DropWorking, Typed, CourseTyped, Courses, VertexTyped, ProcessesTyped, HistoryTyped, vertex,
        processes, history
<1>9. CASE RenameIn
  <2>1. DiskTyped'
    BY <1>9, EmptyDirectories DEF RenameIn, Rename, Typed, DiskTyped, Places
  <2> QED
    BY <1>9, <2>1
    DEF RenameIn, Typed, CourseTyped, Courses, VertexTyped, ProcessesTyped, HistoryTyped, vertex,
        processes, history
<1>10. CASE Adopt
  <2>1. saved.users \in SUBSET Users /\ saved.register \in Stores
    BY DEF Typed, CourseTyped, Item
  <2> QED
    BY <1>10, <2>1, EmptyDirectories
    DEF Adopt, Typed, CourseTyped, Courses, VertexTyped, ProcessesTyped, HistoryTyped, DiskTyped,
        processes, history
<1> QED
  BY <1>1, <1>2, <1>3, <1>4, <1>5, <1>6, <1>7, <1>8, <1>9, <1>10

LEMMA OwedTyped == ASSUME Typed PROVE OwedBy(disk) \in [Users -> Stores]
BY Constants DEF Typed, HistoryTyped, OwedBy, Stores

LEMMA ExpireTyped == ASSUME Typed, NEW old \in SUBSET Users, Expire(old) PROVE Typed'
<1> DEFINE ps == [u \in Users |-> IF u \in old THEN Nothing ELSE disk["working"].parcels[u]]
           x == [disk["working"] EXCEPT !.parcels = ps, !.locks = disk["working"].locks \ old]
<1>1. disk["working"] \in Directory
  BY DEF Typed, DiskTyped, Places
<1>2. ps \in [Users -> Stores \cup {Nothing, Torn}]
  BY <1>1 DEF Directory
<1>3. x \in Directory
  BY <1>1, <1>2 DEF Directory
<1>4. disk' = [disk EXCEPT !["working"] = x]
  BY DEF Expire, Typed, DiskTyped, Places
<1>5. DiskTyped'
  BY <1>3, <1>4, DirectoryWritten DEF Typed, DiskTyped, Places
<1> QED
  BY <1>5, Constants
  DEF Expire, Typed, CourseTyped, Courses, VertexTyped, ProcessesTyped, HistoryTyped, processes, Stores
-----------------------------------------------------------------------------
(* The service and the departures.                                         *)

LEMMA DirectoryOf ==
    ASSUME Typed, NEW w \in Workers
    PROVE  deposit[w] \in Places /\ disk[deposit[w]] \in Directory
BY DEF Typed, ProcessesTyped, DiskTyped, Places

LEMMA DepositOf ==
    ASSUME Typed, NEW w \in Workers PROVE deposit[w] \in {"working", "temp"}
BY DEF Typed, ProcessesTyped

LEMMA MoverOf ==
    ASSUME Typed, NEW u \in Users, moving[u] # Nothing
    PROVE  moving[u] \in Movement /\ moving[u].worker \in Workers /\ moving[u].dir \in {"working", "temp"}
           /\ moving[u].dir \in Places /\ moving[u].store \in Stores \cup {Nothing}
BY DEF Typed, ProcessesTyped, Movement, Places

LEMMA MoveTyped ==
    ASSUME Typed, NEW w \in Workers, NEW kind \in {"pull", "order", "transfer"},
           NEW stage \in {"waiting", "locked", "done"}, NEW store \in Stores \cup {Nothing}
    PROVE  Move(kind, w, stage, store) \in Movement
BY DepositOf DEF Move, Movement

LEMMA LocksTyped == ASSUME Typed, NEW w \in Workers, NEW u \in Users, Locks(w, u) PROVE DiskTyped'
<1>1. deposit[w] \in Places /\ disk[deposit[w]].locks \cup {u} \in SUBSET Users
  BY DirectoryOf DEF Directory
<1>2. disk' = [disk EXCEPT ![deposit[w]].locks = disk[deposit[w]].locks \cup {u}]
  BY DEF Locks
<1> QED
  BY <1>1, <1>2, LocksWritten DEF Typed, DiskTyped

LEMMA UnlocksTyped ==
    ASSUME Typed, NEW d \in Places, NEW u \in Users
    PROVE  [disk EXCEPT ![d].locks = @ \ {u}] \in [Places -> Directory]
<1>1. disk[d].locks \ {u} \in SUBSET Users
  BY DEF Typed, DiskTyped, Directory
<1> QED
  BY <1>1, LocksWritten DEF Typed

LEMMA ParcelTyped ==
    ASSUME Typed, NEW d \in Places, NEW u \in Users, NEW store \in Stores \cup {Nothing}
    PROVE  [disk EXCEPT ![d].parcels[u] = store] \in [Places -> Directory]
<1> DEFINE ps == [disk[d].parcels EXCEPT ![u] = store]
<1>1. ps \in [Users -> Parcels]
  BY DEF Typed, DiskTyped, Directory, Parcels
<1>2. [disk EXCEPT ![d].parcels = ps] \in [Places -> Directory]
  BY <1>1, ParcelsWritten DEF Typed
<1>3. [disk EXCEPT ![d].parcels[u] = store] = [disk EXCEPT ![d].parcels = ps]
  BY DEF Typed, DiskTyped
<1> QED
  BY <1>2, <1>3

LEMMA UnlinksTyped == ASSUME Typed, Unlinks PROVE Typed'
<1>1. DiskTyped'
  <2>1. [disk EXCEPT !["data"].item = NoItem] \in [Places -> Directory]
    BY EmptyDirectories, ItemWritten DEF Typed, Places
  <2>2. ASSUME NEW u \in Users
        PROVE  /\ [disk EXCEPT !["data"].parcels[u] = Nothing] \in [Places -> Directory]
               /\ [disk EXCEPT !["data"].locks = @ \ {u}] \in [Places -> Directory]
    BY ParcelTyped, UnlocksTyped DEF Places
  <2> QED
    BY <2>1, <2>2 DEF Unlinks, DiskTyped
<1>2. owed' \in [Users -> Stores]
  BY Constants DEF Unlinks, Typed, HistoryTyped, Stores
<1> QED
  BY <1>1, <1>2
  DEF Unlinks, Typed, CourseTyped, VertexTyped, ProcessesTyped, HistoryTyped, course, vertex, processes

LEMMA StartWorkerTyped == ASSUME Typed, NEW w \in Workers, StartWorker(w) PROVE Typed'
BY DEF StartWorker, Typed, CourseTyped, Courses, VertexTyped, ProcessesTyped, HistoryTyped, DiskTyped,
       vertex, history

LEMMA ServiceTyped ==
    ASSUME Typed, NEW w \in Workers, NEW u \in Users, Born(w, u) \/ Call(w, u) \/ Return(w, u)
    PROVE  Typed'
<1>1. CASE Born(w, u)
  <2>1. life \in Stores
    BY Constants DEF Typed, CourseTyped, Stores
  <2>2. ProcessesTyped'
    BY <1>1, <2>1 DEF Born, Typed, ProcessesTyped
  <2> QED
    BY <1>1, <2>1, <2>2
    DEF Born, Typed, CourseTyped, VertexTyped, HistoryTyped, DiskTyped, course
<1>2. CASE Call(w, u)
  BY <1>2 DEF Call, Typed, CourseTyped, VertexTyped, ProcessesTyped, HistoryTyped, DiskTyped, course,
              vertex, history
<1>3. CASE Return(w, u)
  <2>1. Move("pull", w, "locked", Nothing) \in Movement
    BY MoveTyped
  <2>2. ProcessesTyped'
    BY <1>3, <2>1 DEF Return, Typed, ProcessesTyped
  <2>3. DiskTyped'
    BY <1>3, LocksTyped DEF Return
  <2> QED
    BY <1>3, <2>2, <2>3
    DEF Return, Uncarried, Typed, CourseTyped, VertexTyped, HistoryTyped, course
<1> QED
  BY <1>1, <1>2, <1>3

LEMMA PullReadsTyped == ASSUME Typed, NEW u \in Users, PullReads(u) PROVE Typed'
<1> DEFINE w == moving[u].worker
           d == deposit[w]
<1>1. moving[u] \in Movement /\ w \in Workers
  BY MoverOf DEF PullReads, InMove
<1>2. d \in Places /\ disk[d] \in Directory
  BY <1>1, DirectoryOf
<1>3. disk[d].parcels[u] \in Stores \cup {Nothing}
  BY <1>2 DEF PullReads, Directory
<1>4. [moving[u] EXCEPT !.stage = "done", !.store = disk[d].parcels[u]] \in Movement
  BY <1>1, <1>3 DEF Movement
<1>5. moving' = [moving EXCEPT ![u] =
                   [moving[u] EXCEPT !.stage = "done", !.store = disk[d].parcels[u]]]
  BY <1>1 DEF PullReads, Typed, ProcessesTyped
<1>6. ProcessesTyped'
  BY <1>4, <1>5 DEF PullReads, Typed, ProcessesTyped
<1>7. disk' \in [Places -> Directory]
  BY <1>2, ParcelTyped DEF PullReads
<1> QED
  BY <1>6, <1>7 DEF PullReads, Typed, CourseTyped, VertexTyped, HistoryTyped, DiskTyped, course, vertex,
                    history

LEMMA PullFailsTyped == ASSUME Typed, NEW u \in Users, PullFails(u) PROVE Typed'
<1>1. moving[u].worker \in Workers /\ moving[u].dir \in Places
  BY MoverOf DEF PullFails, InMove
<1>2. ProcessesTyped'
  BY <1>1 DEF PullFails, Typed, ProcessesTyped
<1>3. DiskTyped'
  BY <1>1, UnlocksTyped DEF PullFails, Typed, DiskTyped
<1> QED
  BY <1>2, <1>3 DEF PullFails, Typed, CourseTyped, VertexTyped, HistoryTyped, course, vertex, history

LEMMA PullLandsTyped == ASSUME Typed, NEW u \in Users, PullLands(u) PROVE Typed'
<1> DEFINE w == moving[u].worker
<1>1. moving[u] \in Movement /\ w \in Workers /\ moving[u].dir \in Places
      /\ moving[u].store \in Stores \cup {Nothing}
  BY MoverOf DEF PullLands, InMove
<1>2. (IF moving[u].store = Nothing THEN 0 ELSE moving[u].store) \in Stores
  BY <1>1, Constants DEF Stores
<1>3. ProcessesTyped'
  <2>1. rows' \in [Workers -> [Users -> Stores \cup {Nothing}]]
    <3> DEFINE store == IF moving[u].store = Nothing THEN 0 ELSE moving[u].store
    <3>1. rows' = rows \/ rows' = [rows EXCEPT ![w][u] = store]
      BY Zenon DEF PullLands
    <3>2. store \in Stores
      BY <1>2
    <3> HIDE DEF store, w
    <3>3. rows \in [Workers -> [Users -> Stores \cup {Nothing}]]
      BY DEF Typed, ProcessesTyped
    <3>4. CASE rows' = rows
      BY <3>3, <3>4
    <3>5. CASE rows' = [rows EXCEPT ![w][u] = store]
      BY <3>2, <3>3, <3>5, <1>1
    <3> QED
      BY <3>1, <3>4, <3>5
  <2>2. moving' \in [Users -> Movement \cup {Nothing}]
    BY DEF PullLands, Typed, ProcessesTyped
  <2>3. calling' \in [Users -> Workers \cup {Nowhere}]
    <3>1. calling' = calling \/ calling' = [calling EXCEPT ![u] = Nowhere]
      BY Zenon DEF PullLands
    <3> QED
      BY <3>1 DEF Typed, ProcessesTyped
  <2>4. flags' \in [Workers -> SUBSET Users]
    <3>1. flags' = flags \/ flags' = [flags EXCEPT ![w] = flags[w] \ {u}]
      BY Zenon DEF PullLands
    <3> QED
      BY <3>1, <1>1 DEF Typed, ProcessesTyped
  <2> QED
    BY <2>1, <2>2, <2>3, <2>4 DEF PullLands, Typed, ProcessesTyped
<1>4. disk' \in [Places -> Directory]
  BY <1>1, UnlocksTyped DEF PullLands, Typed, DiskTyped
<1> QED
  BY <1>3, <1>4 DEF PullLands, Typed, CourseTyped, VertexTyped, HistoryTyped, DiskTyped, course

LEMMA AnswerTyped == ASSUME Typed, NEW u \in Users, Answer(u) PROVE Typed'
<1> DEFINE w == calling[u]
<1>1. w \in Workers
  BY DEF Answer, Typed, ProcessesTyped
<1>2. life \in Stores
  BY Constants DEF Typed, CourseTyped, Stores
<1>3. Move("transfer", w, "locked", life) \in Movement
  BY <1>1, <1>2, MoveTyped
<1>4. ProcessesTyped'
  BY <1>1, <1>2, <1>3 DEF Answer, Typed, ProcessesTyped
<1>5. DiskTyped'
  BY <1>1, LocksTyped DEF Answer, Typed, DiskTyped
<1>6. HistoryTyped'
  BY <1>2 DEF Answer, Typed, HistoryTyped
<1>7. VertexTyped'
  BY <1>2 DEF Answer, Typed, VertexTyped
<1> QED
  BY <1>4, <1>5, <1>6, <1>7 DEF Answer, Typed, CourseTyped, course

LEMMA OrderFreezeTyped ==
    ASSUME Typed, NEW w \in Workers, NEW u \in Users, OrderFreeze(w, u) PROVE Typed'
<1>1. Move("order", w, "waiting", Nothing) \in Movement
  BY MoveTyped
<1> QED
  BY <1>1 DEF OrderFreeze, Typed, CourseTyped, VertexTyped, ProcessesTyped, HistoryTyped, DiskTyped,
              course, history

LEMMA DepartsTyped ==
    ASSUME Typed, NEW w \in Workers, NEW u \in Users, DepartsOrdered(w, u) \/ DepartsFlagged(w, u)
    PROVE  Typed'
<1>1. PICK kind \in {"order", "transfer"} :
        Claims(kind, w, u)
        /\ UNCHANGED <<course, vertex, proc, deposit, rows, flags, calling, history>>
  BY DEF DepartsOrdered, DepartsFlagged
<1>2. rows[w][u] \in Stores \cup {Nothing}
  BY DEF Typed, ProcessesTyped
<1>3. Move(kind, w, "locked", rows[w][u]) \in Movement
  BY <1>2, MoveTyped
<1>4. ProcessesTyped'
  BY <1>1, <1>3 DEF Claims, Typed, ProcessesTyped
<1>5. DiskTyped'
  BY <1>1, LocksTyped DEF Claims
<1> QED
  BY <1>1, <1>4, <1>5 DEF Typed, CourseTyped, VertexTyped, HistoryTyped, course, vertex, history

LEMMA WritesTyped == ASSUME Typed, NEW u \in Users, Writes(u) PROVE Typed'
<1> DEFINE w == moving[u].worker
           d == deposit[w]
<1>1. moving[u] \in Movement /\ w \in Workers /\ moving[u].store \in Stores \cup {Nothing}
  BY MoverOf DEF Writes, Departing, InMove
<1>2. d \in Places
  BY <1>1, DirectoryOf
<1>3. [moving[u] EXCEPT !.stage = "done"] \in Movement
  BY <1>1 DEF Movement
<1>4. moving' = [moving EXCEPT ![u] = [moving[u] EXCEPT !.stage = "done"]]
  BY <1>1 DEF Writes, Typed, ProcessesTyped
<1>5. ProcessesTyped'
  BY <1>3, <1>4 DEF Writes, Typed, ProcessesTyped
<1>6. disk' \in [Places -> Directory]
  BY <1>1, <1>2, ParcelTyped DEF Writes
<1> QED
  BY <1>5, <1>6 DEF Writes, Typed, CourseTyped, VertexTyped, HistoryTyped, DiskTyped, course, vertex,
                    history

\* A refused write changes his folder in one directory, and nothing else there.
RefusalIn(u, d) ==
    \E left \in {disk[d].parcels[u], Torn, moving[u].store},
       ls \in {disk[d].locks, disk[d].locks \ {u}} :
         /\ left \in Parcels
         /\ disk' = [disk EXCEPT ![d] = [disk[d] EXCEPT
                      !.parcels = [disk[d].parcels EXCEPT ![u] = left], !.locks = ls]]

LEMMA RefusedWrites ==
    ASSUME Typed, NEW u \in Users, WriteRefused(u), NEW d, d = deposit[moving[u].worker]
    PROVE  /\ Departing(u, "locked") /\ Stays(u) /\ Trouble("refusal")
           /\ moving[u] # Nothing
           /\ d \in {"working", "temp"} /\ d \in Places /\ disk[d] \in Directory
           /\ RefusalIn(u, d)
<1>1. Departing(u, "locked") /\ Stays(u) /\ Trouble("refusal")
  BY DEF WriteRefused
<1>2. moving[u] # Nothing
  BY <1>1 DEF Departing, InMove
<1>3. d \in {"working", "temp"} /\ d \in Places /\ disk[d] \in Directory
      /\ moving[u].store \in Stores \cup {Nothing}
  BY <1>2, MoverOf, DirectoryOf, DepositOf
<1>4. PICK ls \in {disk[d].locks, disk[d].locks \ {u}} :
        \E left \in {disk[d].parcels[u], Torn, moving[u].store} :
          disk' = [disk EXCEPT ![d].parcels[u] = left, ![d].locks = ls]
  BY DEF WriteRefused
<1>5. PICK left \in {disk[d].parcels[u], Torn, moving[u].store} :
        disk' = [disk EXCEPT ![d].parcels[u] = left, ![d].locks = ls]
  BY <1>4
<1>6. left \in Parcels
  BY <1>3, <1>5 DEF Directory, Parcels
<1>7. disk' = [disk EXCEPT ![d] = [disk[d] EXCEPT
                 !.parcels = [disk[d].parcels EXCEPT ![u] = left], !.locks = ls]]
  BY <1>3, <1>5 DEF Typed, DiskTyped
<1>8. RefusalIn(u, d)
  BY <1>6, <1>7 DEF RefusalIn
<1> QED
  BY <1>1, <1>2, <1>3, <1>8

LEMMA StaysTyped ==
    ASSUME Typed, NEW u \in Users, WriteMisses(u) \/ WriteRefused(u) PROVE Typed'
<1>1. moving[u].worker \in Workers /\ moving[u].dir \in Places
  BY MoverOf DEF WriteMisses, WriteRefused, Departing, InMove
<1>2. Stays(u)
  BY DEF WriteMisses, WriteRefused
<1>3. ProcessesTyped'
  <2>1. flags' \in [Workers -> SUBSET Users]
    BY <1>1, <1>2 DEF Stays, Typed, ProcessesTyped
  <2>2. moving' \in [Users -> Movement \cup {Nothing}]
    BY <1>2 DEF Stays, Typed, ProcessesTyped
  <2> QED
    BY <1>2, <2>1, <2>2 DEF Stays, Typed, ProcessesTyped
<1>4. CourseTyped' /\ VertexTyped'
  BY <1>2 DEF Stays, Typed, CourseTyped, VertexTyped, course
<1>5. HistoryTyped'
  <2>1. UNCHANGED troubles \/ Trouble("refusal")
    BY Zenon DEF WriteMisses, WriteRefused
  <2>2. troubles' \in 0..MaxTroubles
    BY <2>1, Constants DEF Trouble, Typed, HistoryTyped
  <2> QED
    BY <1>2, <2>2 DEF Stays, Typed, HistoryTyped
<1>6. DiskTyped'
  <2>1. CASE WriteMisses(u)
    BY <2>1 DEF WriteMisses, Typed, DiskTyped
  <2>2. CASE WriteRefused(u)
    <3>1. PICK d \in Places : d = deposit[moving[u].worker] /\ disk[d] \in Directory
      BY <1>1, DirectoryOf
    <3>2. RefusalIn(u, d)
      BY <2>2, <3>1, RefusedWrites
    <3>3. PICK left \in {disk[d].parcels[u], Torn, moving[u].store},
               ls \in {disk[d].locks, disk[d].locks \ {u}} :
            /\ left \in Parcels
            /\ disk' = [disk EXCEPT ![d] = [disk[d] EXCEPT
                         !.parcels = [disk[d].parcels EXCEPT ![u] = left], !.locks = ls]]
      BY <3>2, Zenon DEF RefusalIn
    <3>4. [disk[d] EXCEPT !.parcels = [disk[d].parcels EXCEPT ![u] = left], !.locks = ls]
            \in Directory
      BY <3>1, <3>3 DEF Directory, Parcels
    <3> QED
      BY <3>1, <3>3, <3>4, DirectoryWritten DEF Typed, DiskTyped
  <2> QED
    BY <2>1, <2>2
<1> QED
  BY <1>3, <1>4, <1>5, <1>6 DEF Typed

LEMMA DepartedTyped == ASSUME Typed, NEW u \in Users, Departed(u) PROVE Typed'
<1>1. moving[u].worker \in Workers /\ moving[u].dir \in Places
  BY MoverOf DEF Departed, Departing, InMove
<1>2. ProcessesTyped'
  BY <1>1 DEF Departed, Typed, ProcessesTyped
<1>3. CourseTyped' /\ VertexTyped'
  BY DEF Departed, Typed, CourseTyped, VertexTyped, course
<1>4. HistoryTyped'
  BY DEF Departed, Uncarried, Typed, HistoryTyped
<1>5. DiskTyped'
  BY <1>1, UnlocksTyped DEF Departed, Typed, DiskTyped
<1> QED
  BY <1>2, <1>3, <1>4, <1>5 DEF Typed
-----------------------------------------------------------------------------
(* The quit, and what goes wrong.                                          *)

LEMMA FlagsTyped ==
    ASSUME Typed, NEW w \in Workers, FlagsEverybody(w) PROVE flags' \in [Workers -> SUBSET Users]
<1>1. {u \in Users : Awake(w, u)} \cup MovingAt(w) \in SUBSET Users
  BY DEF MovingAt
<1> QED
  BY <1>1 DEF FlagsEverybody, Typed, ProcessesTyped

LEMMA VertexQuitTyped ==
    ASSUME Typed, BeginQuit \/ QuitAllDone \/ WriteItem PROVE Typed'
<1>1. CASE BeginQuit
  <2>1. DiskTyped'
    BY <1>1, MadeThere DEF BeginQuit, Typed, DiskTyped, Places
  <2> QED
    BY <1>1, <2>1 DEF BeginQuit, Typed, CourseTyped, Courses, VertexTyped, ProcessesTyped, HistoryTyped,
                      processes
<1>2. CASE QuitAllDone
  BY <1>2 DEF QuitAllDone, Typed, CourseTyped, Courses, VertexTyped, ProcessesTyped, HistoryTyped,
              DiskTyped, vertex, processes, history
<1>3. CASE WriteItem
  <2>1. [state |-> "whole", users |-> known, register |-> register] \in Item
    BY DEF Typed, VertexTyped, Item
  <2>2. DiskTyped'
    BY <1>3, <2>1, ItemWritten DEF WriteItem, Typed, DiskTyped, Places
  <2> QED
    BY <1>3, <2>2 DEF WriteItem, Typed, CourseTyped, Courses, VertexTyped, ProcessesTyped, HistoryTyped,
                      vertex, processes, history
<1> QED
  BY <1>1, <1>2, <1>3

LEMMA CommitTyped == ASSUME Typed, Commit PROVE Typed'
<1>1. DiskTyped'
  BY EmptyDirectories DEF Commit, Rename, Typed, DiskTyped, Places
<1> QED
  BY <1>1, FallsTyped DEF Commit, Typed, HistoryTyped, history

LEMMA QuitRaisesTyped == ASSUME Typed, QuitRaises PROVE Typed'
<1> DEFINE i == [disk["temp"].item EXCEPT !.state = "torn"]
<1>1. disk["temp"].item \in Item
  BY DEF Typed, DiskTyped, Places, Directory
<1>2. i \in Item
  BY <1>1 DEF Item
<1>3. [disk EXCEPT !["temp"].item = i] \in [Places -> Directory]
  BY <1>2, ItemWritten DEF Typed, Places
<1>4. [disk EXCEPT !["temp"].item.state = "torn"] = [disk EXCEPT !["temp"].item = i]
  BY DEF Typed, DiskTyped
<1>5. DiskTyped'
  BY <1>3, <1>4 DEF QuitRaises, Typed, DiskTyped
<1>6. HistoryTyped'
  BY OwedTyped, Constants DEF QuitRaises, Trouble, Typed, HistoryTyped
<1> QED
  BY <1>5, <1>6, FallsTyped DEF QuitRaises, Typed

LEMMA WorkerQuitTyped ==
    ASSUME Typed, NEW w \in Workers,
           AskToLeave(w) \/ BeginLeaving(w) \/ Swap(w) \/ CutStragglers(w) \/ Leaves(w)
    PROVE  Typed'
<1>1. CASE AskToLeave(w)
  BY <1>1 DEF AskToLeave, Typed, CourseTyped, Courses, VertexTyped, ProcessesTyped, HistoryTyped,
              DiskTyped, processes, history
<1>2. CASE BeginLeaving(w)
  <2>1. flags' \in [Workers -> SUBSET Users]
    BY <1>2, FlagsTyped DEF BeginLeaving
  <2> QED
    BY <1>2, <2>1 DEF BeginLeaving, Typed, CourseTyped, VertexTyped, ProcessesTyped, HistoryTyped,
                      DiskTyped, course, vertex, history
<1>3. CASE Swap(w)
  <2>1. flags' \in [Workers -> SUBSET Users]
    BY <1>3, FlagsTyped DEF Swap
  <2> QED
    BY <1>3, <2>1 DEF Swap, MovingAt, Typed, CourseTyped, VertexTyped, ProcessesTyped, HistoryTyped,
                      DiskTyped, course, vertex
<1>4. CASE CutStragglers(w)
  BY <1>4 DEF CutStragglers, Typed, CourseTyped, VertexTyped, ProcessesTyped, HistoryTyped, DiskTyped,
              course, vertex, history
<1>5. CASE Leaves(w)
  <2>1. ProcessesTyped'
    BY <1>5, EndsTyped DEF Leaves, Typed
  <2> QED
    BY <1>5, <2>1 DEF Leaves, Typed, CourseTyped, VertexTyped, HistoryTyped, DiskTyped, vertex, history
<1> QED
  BY <1>1, <1>2, <1>3, <1>4, <1>5

\* The work of those who were in the memory that went is owed no more.
LEMMA LostTyped ==
    ASSUME Typed, NEW us
    PROVE  [u \in Users |-> IF u \in us THEN 0 ELSE owed[u]] \in [Users -> Stores]
BY Constants DEF Typed, HistoryTyped, Stores

LEMMA TroubleTyped ==
    ASSUME Typed, NEW kind, Trouble(kind) PROVE troubles' \in 0..MaxTroubles
BY Constants DEF Trouble, Typed, HistoryTyped

LEMMA DiesServingTyped == ASSUME Typed, NEW w \in Workers, DiesServing(w) PROVE Typed'
<1> DEFINE lost == {u \in known \ frozen : Awake(w, u) /\ home[u] = w}
<1>1. PICK left \in LeftByWriters({w}) :
        disk' = [left EXCEPT !["working"].parcels = [u \in Users |-> IF u \in lost THEN Nothing
                                                                      ELSE @[u]],
                             !["working"].locks = @ \ lost]
  BY DEF DiesServing
<1>2. left \in [Places -> Directory] /\ left["working"] \in Directory
  BY LeftTyped DEF Typed, Places
<1> DEFINE ps == [u \in Users |-> IF u \in lost THEN Nothing ELSE left["working"].parcels[u]]
           x == [left["working"] EXCEPT !.parcels = ps, !.locks = left["working"].locks \ lost]
<1> HIDE DEF lost
<1>3. ps \in [Users -> Stores \cup {Nothing, Torn}]
  BY <1>2 DEF Directory
<1>4. x \in Directory
  BY <1>2, <1>3 DEF Directory
<1>5. disk' = [left EXCEPT !["working"] = x]
  BY <1>1, <1>2 DEF Places
<1>6. DiskTyped'
  BY <1>2, <1>4, <1>5 DEF DiskTyped
<1>7. ProcessesTyped'
  BY EndsTyped DEF DiesServing, Typed
<1>8. HistoryTyped'
  BY LostTyped, TroubleTyped DEF DiesServing, Typed, HistoryTyped
<1> QED
  BY <1>6, <1>7, <1>8 DEF DiesServing, Typed, CourseTyped, VertexTyped, course

LEMMA EndsInQuitTyped ==
    ASSUME Typed, NEW w \in Workers, DiesLeaving(w) \/ Overdue(w) PROVE Typed'
<1>1. ProcessesTyped'
  BY EndsTyped DEF DiesLeaving, Overdue, Typed
<1>2. DiskTyped'
  BY LeftTyped DEF DiesLeaving, Overdue, Typed, DiskTyped
<1>3. troubles' \in 0..MaxTroubles
  BY TroubleTyped DEF DiesLeaving, Overdue, Typed, HistoryTyped
<1>4. HistoryTyped'
  BY <1>3, LostTyped DEF DiesLeaving, Overdue, Typed, HistoryTyped
<1> QED
  BY <1>1, <1>2, <1>4 DEF DiesLeaving, Overdue, Typed, CourseTyped, VertexTyped, vertex

LEMMA VertexEndsTyped ==
    ASSUME Typed, StopDry \/ Crash \/ \E w \in Workers : DiesUnderOrder(w) PROVE Typed'
<1>1. Falls /\ owed' = OwedBy(disk) /\ UNCHANGED <<excused, fresh>>
      /\ \E kind : Trouble(kind)
      /\ \E left \in LeftByWriters(Workers) :
           disk' = left \/ disk' = [left EXCEPT !["temp"].item.state = "torn"]
  BY DEF StopDry, Crash, DiesUnderOrder
<1>2. HistoryTyped'
  BY <1>1, OwedTyped, TroubleTyped DEF Typed, HistoryTyped
<1>3. PICK left \in LeftByWriters(Workers) :
        disk' = left \/ disk' = [left EXCEPT !["temp"].item.state = "torn"]
  BY <1>1
<1>4. left \in [Places -> Directory] /\ left["temp"] \in Directory
  BY LeftTyped DEF Typed, Places
<1> DEFINE i == [left["temp"].item EXCEPT !.state = "torn"]
           x == [left["temp"] EXCEPT !.item = i]
<1>5. i \in Item
  BY <1>4 DEF Directory, Item
<1>6. x \in Directory
  BY <1>4, <1>5 DEF Directory
<1>7. [left EXCEPT !["temp"].item.state = "torn"] = [left EXCEPT !["temp"] = x]
  BY <1>4 DEF Places
<1>8. DiskTyped'
  BY <1>3, <1>4, <1>6, <1>7 DEF DiskTyped
<1> QED
  BY <1>1, <1>2, <1>8, FallsTyped DEF Typed

LEMMA TypedInit == Init => Typed
<1> SUFFICES ASSUME Init PROVE Typed
  OBVIOUS
<1>1. CourseTyped /\ VertexTyped /\ HistoryTyped
  BY Constants, EmptyDirectories
  DEF Init, CourseTyped, Courses, VertexTyped, HistoryTyped, Stores
<1>2. ProcessesTyped
  BY DEF Init, ProcessesTyped
<1>3. DiskTyped
  BY EmptyDirectories DEF Init, DiskTyped
<1> QED
  BY <1>1, <1>2, <1>3 DEF Typed

LEMMA TypedStep == ASSUME Typed, [Next]_vars PROVE Typed'
<1>1. CASE Boot
  BY <1>1, BootTyped, UnlinksTyped, ExpireTyped DEF Boot
<1>2. CASE Service
  BY <1>2, StartWorkerTyped, ServiceTyped, PullReadsTyped, PullFailsTyped, PullLandsTyped,
     AnswerTyped
  DEF Service
<1>3. CASE Departure
  BY <1>3, OrderFreezeTyped, DepartsTyped, WritesTyped, StaysTyped, DepartedTyped DEF Departure
<1>4. CASE Quit
  BY <1>4, VertexQuitTyped, CommitTyped, QuitRaisesTyped, WorkerQuitTyped DEF Quit
<1>5. CASE GoesWrong
  BY <1>5, DiesServingTyped, EndsInQuitTyped, VertexEndsTyped DEF GoesWrong
<1>6. CASE UNCHANGED vars
  BY <1>6 DEF vars, course, vertex, processes, history, Typed, CourseTyped, VertexTyped, ProcessesTyped,
              HistoryTyped, DiskTyped
<1> QED
  BY <1>1, <1>2, <1>3, <1>4, <1>5, <1>6 DEF Next

\* The types of the soft reboot hold however often the machine goes down.
THEOREM TypeCorrect == Spec => []TypeOK
<1>1. Spec => []Typed
  BY TypedInit, TypedStep, PTL DEF Spec
<1>2. Typed => TypeOK
  BY TypeOKIsTyped
<1> QED
  BY <1>1, <1>2, PTL
-----------------------------------------------------------------------------
(* Where the vertex stands.  Why the renames land: between two starts no    *)
(* process is there to write, the photo is consumed before a machine runs,  *)
(* and a machine that runs writes in the other two directories only.        *)

Running == {"up", "quitting", "gathered", "written"}

\* Before and between machines, nothing moves.
Idle ==
    at \notin Running =>
        /\ proc = [w \in Workers |-> "off"]
        /\ calling = [u \in Users |-> Nowhere]
        /\ moving = [u \in Users |-> Nothing]
        /\ asked = Nowhere

\* Nobody is remembered until the photo is adopted.
Blank ==
    /\ at \in {"down", "wiped", "cleared", "missing"} => known = {} /\ register = 0
    /\ at \in {"wiped", "cleared", "missing"} => disk["working"] = Emptied

\* The directory of the photo, step by step.
PhotoStands ==
    /\ disk["data"].item.state # "torn"
    /\ disk["data"].item.state = "whole" => disk["data"].there
    /\ at = "found" => saved = disk["data"].item /\ saved.state = "whole"
    /\ at \in {"spent", "cleared_working"} => disk["data"].there /\ disk["data"].item = NoItem
    /\ at = "cleared_working" => disk["working"] = Gone
    /\ at \in {"renamed", "adopted", "judged"} \cup Running => disk["data"] = Gone

\* The directory of the quit.
TempStands ==
    /\ at \in {"quitting", "gathered", "written"} => disk["temp"].there
    /\ at = "written" => disk["temp"].item.state = "whole"

Standing == Idle /\ Blank /\ PhotoStands /\ TempStands
IInv == Typed /\ Standing

\* A step of a machine that runs, or of its quit: what the disk holds changes
\* inside the working and the provisional directory, and no item is written.
Quiet ==
    /\ at \in Running /\ at' = at
    /\ disk'["data"] = disk["data"]
    /\ \A d \in Places : disk'[d].there = disk[d].there /\ disk'[d].item = disk[d].item

LEMMA QuietKeeps == ASSUME Standing, Quiet PROVE Standing'
BY DEF Quiet, Standing, Idle, Blank, PhotoStands, TempStands, Running, Places

\* A step that writes parcels or locks of one directory but the photo's.
LEMMA SmallWrites ==
    ASSUME DiskTyped, at \in Running, at' = at, NEW d \in {"working", "temp"},
           \/ disk' = disk
           \/ \E us : disk' = [disk EXCEPT ![d].locks = us]
           \/ \E ps : disk' = [disk EXCEPT ![d].parcels = ps]
    PROVE  Quiet
<1>1. CASE disk' = disk
  BY <1>1 DEF Quiet
<1>2. CASE \E us : disk' = [disk EXCEPT ![d].locks = us]
  BY <1>2 DEF Quiet, DiskTyped, Directory, Places
<1>3. CASE \E ps : disk' = [disk EXCEPT ![d].parcels = ps]
  BY <1>3 DEF Quiet, DiskTyped, Directory, Places
<1> QED
  BY <1>1, <1>2, <1>3

LEMMA LocksQuiet ==
    ASSUME Typed, NEW w \in Workers, NEW u, Locks(w, u), at \in Running, at' = at
    PROVE  Quiet
BY DepositOf, SmallWrites DEF Locks, Typed

LEMMA ServiceQuiet ==
    ASSUME Typed, Standing, NEW w \in Workers, NEW u \in Users,
           \/ Born(w, u) \/ Call(w, u) \/ Return(w, u)
           \/ OrderFreeze(w, u) \/ DepartsOrdered(w, u) \/ DepartsFlagged(w, u)
    PROVE  Quiet
<1>1. CASE Born(w, u) \/ Call(w, u) \/ OrderFreeze(w, u)
  BY <1>1, SmallWrites DEF Born, Call, OrderFreeze, Serving, Running, Typed, course
<1>2. CASE Return(w, u)
  BY <1>2, LocksQuiet DEF Return, Serving, Running, course
<1>3. CASE DepartsOrdered(w, u)
  <2>1. at \in Running
    BY <1>3 DEF DepartsOrdered, InMove, Standing, Idle
  <2> QED
    BY <1>3, <2>1, LocksQuiet DEF DepartsOrdered, Claims, course
<1>4. CASE DepartsFlagged(w, u)
  <2>1. at \in Running
    BY <1>4 DEF DepartsFlagged, Standing, Idle
  <2> QED
    BY <1>4, <2>1, LocksQuiet DEF DepartsFlagged, Claims, course
<1> QED
  BY <1>1, <1>2, <1>3, <1>4

\* Whoever is on the move belongs to a machine that runs.
LEMMA MoverRuns ==
    ASSUME Standing, NEW u \in Users, moving[u] # Nothing \/ calling[u] # Nowhere
    PROVE  at \in Running
BY DEF Standing, Idle

LEMMA MovesQuiet ==
    ASSUME Typed, Standing, NEW u \in Users,
           \/ PullReads(u) \/ PullFails(u) \/ PullLands(u) \/ Answer(u)
           \/ Writes(u) \/ WriteMisses(u) \/ WriteRefused(u) \/ Departed(u)
    PROVE  Quiet
<1>1. at \in Running /\ at' = at
  <2>1. moving[u] # Nothing \/ calling[u] # Nowhere
    BY DEF PullReads, PullFails, PullLands, Answer, Writes, WriteMisses, WriteRefused, Departed,
           Departing, InMove
  <2>2. at' = at
    BY DEF PullReads, PullFails, PullLands, Answer, Writes, WriteMisses, WriteRefused, Departed, Stays,
           course
  <2> QED
    BY <2>1, <2>2, MoverRuns
<1>2. CASE Answer(u)
  <2>1. calling[u] \in Workers
    BY <1>2 DEF Answer, Typed, ProcessesTyped
  <2>2. disk' = disk \/ Locks(calling[u], u)
    BY <1>2 DEF Answer
  <2> QED
    BY <1>1, <2>1, <2>2, LocksQuiet, SmallWrites DEF Typed
<1>3. ASSUME moving[u] # Nothing
      PROVE  /\ moving[u].dir \in {"working", "temp"}
             /\ deposit[moving[u].worker] \in {"working", "temp"}
  BY <1>3, MoverOf, DepositOf
<1>4. CASE PullFails(u) \/ PullLands(u) \/ WriteMisses(u) \/ Departed(u)
  <2>1. moving[u] # Nothing
    BY <1>4 DEF PullFails, PullLands, WriteMisses, Departed, Departing, InMove
  <2>2. disk' = disk \/ \E us : disk' = [disk EXCEPT ![moving[u].dir].locks = us]
    BY <1>4 DEF PullFails, PullLands, WriteMisses, Departed
  <2> QED
    BY <1>1, <1>3, <2>1, <2>2, SmallWrites DEF Typed
<1>5. CASE PullReads(u) \/ Writes(u)
  <2> DEFINE d == deposit[moving[u].worker]
  <2>1. moving[u] # Nothing
    BY <1>5 DEF PullReads, Writes, Departing, InMove
  <2>2. \E ps : disk' = [disk EXCEPT ![d].parcels = ps]
    BY <1>5 DEF PullReads, Writes
  <2> QED
    BY <1>1, <1>3, <2>1, <2>2, SmallWrites DEF Typed
<1>6. CASE WriteRefused(u)
  <2>1. PICK d : d = deposit[moving[u].worker]
    OBVIOUS
  <2>2. d \in {"working", "temp"} /\ disk[d] \in Directory /\ RefusalIn(u, d)
    BY <1>6, <2>1, RefusedWrites
  <2>3. /\ disk'[d].there = disk[d].there /\ disk'[d].item = disk[d].item
        /\ \A e \in Places \ {d} : disk'[e] = disk[e]
    BY <2>2 DEF RefusalIn, Typed, DiskTyped, Directory, Places
  <2> QED
    BY <1>1, <2>2, <2>3 DEF Quiet, Places
<1> QED
  BY <1>2, <1>4, <1>5, <1>6

\* A process that dies leaves torn files at most, and never in the photo.
LEMMA DeathQuiet ==
    ASSUME Typed, Standing, NEW w \in Workers, DiesServing(w) \/ DiesLeaving(w) \/ Overdue(w)
    PROVE  Quiet
<1>1. at \in Running /\ at' = at
  <2>1. at' = at
    BY DEF DiesServing, DiesLeaving, Overdue, course
  <2>2. CASE Overdue(w)
    BY <2>1, <2>2, Constants DEF Overdue, Standing, Idle
  <2> QED
    BY <2>1, <2>2 DEF DiesServing, DiesLeaving, Running
<1>2. CASE DiesLeaving(w) \/ Overdue(w)
  <2>1. disk' \in LeftByWriters({w})
    BY <1>2 DEF DiesLeaving, Overdue
  <2> QED
    BY <1>1, <2>1, LeftTyped DEF Typed, Quiet
<1>3. CASE DiesServing(w)
  <2>1. PICK left \in LeftByWriters({w}) :
          \E ps, ls : disk' = [left EXCEPT !["working"].parcels = ps, !["working"].locks = ls]
    BY <1>3 DEF DiesServing
  <2>2. /\ left \in [Places -> Directory]
        /\ \A d \in Places : left[d].there = disk[d].there /\ left[d].item = disk[d].item
        /\ left["data"] = disk["data"]
    BY LeftTyped DEF Typed
  <2>3. /\ disk'["data"] = left["data"]
        /\ \A d \in Places : disk'[d].there = left[d].there /\ disk'[d].item = left[d].item
    BY <2>1, <2>2 DEF Directory, Places
  <2> QED
    BY <1>1, <2>2, <2>3 DEF Quiet
<1> QED
  BY <1>2, <1>3

\* The steps of a quit that the vertex survives.
LEMMA VertexQuitKeeps ==
    ASSUME Typed, Standing, BeginQuit \/ QuitAllDone \/ WriteItem
    PROVE  Standing' /\ at \in Running /\ at' \in Running /\ disk'["data"] = disk["data"]
<1>1. /\ at \in Running /\ at' \in Running
      /\ disk'["data"] = disk["data"]
      /\ disk'["temp"].there = TRUE
      /\ at' = "written" => disk'["temp"].item.state = "whole"
  <2>1. CASE BeginQuit
    BY <2>1 DEF BeginQuit, Running, Typed, DiskTyped, Places, Directory
  <2>2. CASE QuitAllDone
    BY <2>2 DEF QuitAllDone, Running, Standing, TempStands, Typed, DiskTyped, Places, Directory
  <2>3. CASE WriteItem
    BY <2>3 DEF WriteItem, Running, Standing, TempStands, Typed, DiskTyped, Places, Directory
  <2> QED
    BY <2>1, <2>2, <2>3
<1> QED
  BY <1>1 DEF Standing, Idle, Blank, PhotoStands, TempStands, Running

LEMMA WorkerQuitKeeps ==
    ASSUME Typed, Standing, NEW w \in Workers,
           AskToLeave(w) \/ BeginLeaving(w) \/ Swap(w) \/ CutStragglers(w) \/ Leaves(w)
    PROVE  Standing' /\ at \in Running /\ at' \in Running /\ disk'["data"] = disk["data"]
<1>1. CASE AskToLeave(w)
  BY <1>1 DEF AskToLeave, Standing, Idle, Blank, PhotoStands, TempStands, Running
<1>2. CASE BeginLeaving(w)
  BY <1>2, Constants DEF BeginLeaving, course, Standing, Idle, Blank, PhotoStands, TempStands, Running
<1>3. CASE Swap(w) \/ CutStragglers(w) \/ Leaves(w)
  <2>1. at \in Running
    BY <1>3 DEF Swap, CutStragglers, Leaves, Standing, Idle
  <2> QED
    BY <1>3, <2>1
    DEF Swap, CutStragglers, Leaves, course, Standing, Idle, Blank, PhotoStands, TempStands, Running
<1> QED
  BY <1>1, <1>2, <1>3

\* The vertex ends, wherever it is.
LEMMA FallsKeeps ==
    ASSUME Typed, Falls,
           disk'["data"].item.state # "torn",
           disk'["data"].item.state = "whole" => disk'["data"].there
    PROVE  Standing'
<1>1. Idle'
  <2>1. calling' = [u \in Users |-> Nowhere]
    BY DEF Falls, Ends, Typed, ProcessesTyped
  <2>2. moving' = [u \in Users |-> Nothing]
    <3>1. ASSUME NEW u \in Users, moving[u] # Nothing PROVE moving[u].worker \in Workers
      BY <3>1, MoverOf
    <3> QED
      BY <3>1 DEF Falls, Ends
  <2>3. proc' = [w \in Workers |-> "off"] /\ asked' = Nowhere
    BY DEF Falls, Ends
  <2> QED
    BY <2>1, <2>2, <2>3 DEF Idle
<1> QED
  BY <1>1 DEF Standing, Falls, Blank, PhotoStands, TempStands, Running

\* ... and leaves the photo as it was, unless it had just committed one.
LEMMA EndsKeep ==
    ASSUME Typed, Standing,
           QuitRaises \/ StopDry \/ Crash \/ \E w \in Workers : DiesUnderOrder(w)
    PROVE  Standing' /\ Falls /\ disk'["data"] = disk["data"]
<1>1. Falls
  BY DEF QuitRaises, StopDry, Crash, DiesUnderOrder
<1>2. disk'["data"] = disk["data"]
  <2>1. CASE QuitRaises
    BY <2>1 DEF QuitRaises, Typed, DiskTyped, Places
  <2>2. CASE StopDry \/ Crash \/ \E w \in Workers : DiesUnderOrder(w)
    <3>1. PICK left \in LeftByWriters(Workers) :
            disk' = left \/ disk' = [left EXCEPT !["temp"].item.state = "torn"]
      BY <2>2 DEF StopDry, Crash, DiesUnderOrder
    <3>2. left \in [Places -> Directory] /\ left["data"] = disk["data"]
      BY LeftTyped DEF Typed
    <3> QED
      BY <3>1, <3>2 DEF Places
  <2> QED
    BY <2>1, <2>2
<1> QED
  BY <1>1, <1>2, FallsKeeps DEF Standing, PhotoStands

LEMMA CommitKeeps ==
    ASSUME Typed, Standing, Commit
    PROVE  Standing' /\ disk'["data"] = disk["temp"] /\ disk["temp"].item.state = "whole"
<1>1. disk'["data"] = disk["temp"]
  BY DEF Commit, Rename, Typed, DiskTyped, Places
<1>2. disk["temp"].item.state = "whole" /\ disk["temp"].there
  BY DEF Commit, Standing, TempStands
<1> QED
  BY <1>1, <1>2, FallsKeeps DEF Commit

\* A start, step by step.
LEMMA BootKeeps ==
    ASSUME Typed, Standing,
           WipeWorking \/ DropTemp \/ ReadItem \/ ReadNothing \/ ReadFails \/ Unlinks
             \/ StartClean \/ DropItem \/ DropWorking \/ RenameIn \/ Adopt
             \/ (\E old \in SUBSET Users : Expire(old)) \/ (\E w \in Workers : StartWorker(w))
    PROVE  Standing'
<1> USE DEF Standing, Idle, Blank, PhotoStands, TempStands, Running
<1>0. /\ disk["data"] \in Directory /\ disk["working"] \in Directory /\ disk["temp"] \in Directory
      /\ disk \in [Places -> Directory]
  BY DEF Typed, DiskTyped, Places
<1>1. CASE WipeWorking
  BY <1>0, <1>1 DEF WipeWorking, processes, vertex, Places
<1>2. CASE DropTemp
  BY <1>0, <1>2 DEF DropTemp, processes, vertex, Places
<1>3. CASE ReadItem
  BY <1>0, <1>3 DEF ReadItem, processes, vertex, Places
<1>4. CASE ReadNothing
  <2>1. disk'["data"].item = disk["data"].item /\ disk'["working"] = disk["working"]
    BY <1>0, <1>4 DEF ReadNothing, Places, Directory
  <2> QED
    BY <1>4, <2>1 DEF ReadNothing, processes, vertex
<1>5. CASE ReadFails
  BY <1>0, <1>5 DEF ReadFails, processes, vertex, Places
<1>6. CASE StartClean
  BY <1>0, <1>6 DEF StartClean, processes, vertex, Places, Gone, Bare, NoItem
<1>7. CASE DropItem
  <2>1. disk'["data"].item = NoItem /\ disk'["data"].there = disk["data"].there
    BY <1>0, <1>7 DEF DropItem, Places, Directory
  <2> QED
    BY <1>7, <2>1 DEF DropItem, processes, vertex, NoItem
<1>8. CASE DropWorking
  BY <1>0, <1>8 DEF DropWorking, processes, vertex, Places, NoItem
<1>9. CASE RenameIn
  <2>1. disk'["data"] = Gone
    BY <1>0, <1>9 DEF RenameIn, Rename, Places
  <2> QED
    BY <1>9, <2>1 DEF RenameIn, processes, vertex, Gone, Bare, NoItem
<1>10. CASE Adopt
  BY <1>0, <1>10 DEF Adopt, processes
<1>11. CASE \E old \in SUBSET Users : Expire(old)
  <2>1. disk'["data"] = disk["data"]
    BY <1>0, <1>11 DEF Expire, Places
  <2> QED
    BY <1>11, <2>1 DEF Expire, processes
<1>12. CASE \E w \in Workers : StartWorker(w)
  BY <1>12 DEF StartWorker
<1>13. CASE Unlinks
  <2>1. /\ disk'["working"] = disk["working"]
        /\ disk'["data"].there = disk["data"].there
        /\ disk'["data"].item \in {disk["data"].item, NoItem}
    BY <1>0, <1>13 DEF Unlinks, Places, Directory
  <2> QED
    BY <1>13, <2>1 DEF Unlinks, course, processes, vertex, NoItem
<1> QED
  BY <1>1, <1>2, <1>3, <1>4, <1>5, <1>6, <1>7, <1>8, <1>9, <1>10, <1>11, <1>12, <1>13

LEMMA StandingInit == Init => Standing
BY DEF Init, Standing, Idle, Blank, PhotoStands, TempStands, Running, Places, Gone, Bare, NoItem

LEMMA StandingStep == ASSUME Typed, Standing, [Next]_vars PROVE Standing'
<1>1. CASE Boot
  BY <1>1, BootKeeps DEF Boot
<1>2. CASE Service
  BY <1>2, BootKeeps, ServiceQuiet, MovesQuiet, QuietKeeps DEF Service
<1>3. CASE Departure
  BY <1>3, ServiceQuiet, MovesQuiet, QuietKeeps DEF Departure
<1>4. CASE Quit
  BY <1>4, VertexQuitKeeps, WorkerQuitKeeps, CommitKeeps, EndsKeep DEF Quit
<1>5. CASE GoesWrong
  BY <1>5, DeathQuiet, QuietKeeps, EndsKeep DEF GoesWrong
<1>6. CASE UNCHANGED vars
  BY <1>6 DEF vars, course, vertex, processes, Standing, Idle, Blank, PhotoStands, TempStands
<1> QED
  BY <1>1, <1>2, <1>3, <1>4, <1>5, <1>6 DEF Next

LEMMA Invariance == Spec => []IInv
<1>1. Init => IInv
  BY TypedInit, StandingInit DEF IInv
<1>2. IInv /\ [Next]_vars => IInv'
  BY TypedStep, StandingStep DEF IInv
<1> QED
  BY <1>1, <1>2, PTL DEF Spec

\* freeze_handler.rename_root: both renames find their source there and their
\* destination free, and a photo under its final name is never half written.
THEOREM RenamesAlwaysLand == Spec => []RenamesLand
<1>1. IInv => RenamesLand
  <2> SUFFICES ASSUME IInv PROVE RenamesLand
    OBVIOUS
  <2>1. at = "written" => Lands("temp", "data")
    BY DEF IInv, Standing, PhotoStands, TempStands, Running, Lands
  <2>2. at = "cleared_working" => Lands("data", "working")
    BY DEF IInv, Standing, PhotoStands, Lands
  <2> QED
    BY <2>1, <2>2 DEF RenamesLand, IInv, Standing, PhotoStands
<1> QED
  BY <1>1, Invariance, PTL
-----------------------------------------------------------------------------
(* The soft reboot keeps its promise: AtomicPhoto, step for step.          *)

LEMMA PhotoIsSomething == \A users, reg, parcels : PhotoOf(users, reg, parcels) # NoPhoto
<1> SUFFICES ASSUME NEW users, NEW reg, NEW parcels, PhotoOf(users, reg, parcels) = NoPhoto
             PROVE  FALSE
  OBVIOUS
<1>1. "users" \in DOMAIN PhotoOf(users, reg, parcels)
  BY DEF PhotoOf
<1>2. "users" \notin DOMAIN NoPhoto
  BY DEF NoPhoto
<1> QED
  BY <1>1, <1>2

Mapped == <<Photo, Started, Given>>

\* Away from the start, the photo is what is in its directory, and it is kept.
Away == at \notin {"missing", "spent", "cleared_working", "renamed", "adopted"}

LEMMA PhotoSame ==
    ASSUME Away, Away', disk'["data"] = disk["data"] PROVE UNCHANGED Mapped
BY DEF Mapped, Away, Photo, Started, Given

LEMMA RunningIsAway ==
    /\ at \in Running => Away
    /\ at' \in Running => Away'
BY DEF Running, Away

\* Between two machines nobody has been started but by the adoption.
LEMMA StartedOnlyThen ==
    /\ at # "adopted" => Started = NoPhoto
    /\ at = "adopted" => Started # NoPhoto
    /\ at' # "adopted" => Started' = NoPhoto
BY PhotoIsSomething DEF Started

LEMMA GivenOnlyThen ==
    /\ at # "missing" => Given = FALSE
    /\ at' # "missing" => Given' = FALSE
    /\ Photo' = NoPhoto => Given' = FALSE
BY DEF Given

LEMMA QuietRefines == ASSUME Quiet PROVE UNCHANGED Mapped
BY PhotoSame, RunningIsAway DEF Quiet

\* A vertex that ends loses the photo its start was consuming, and no other.
LEMMA EndsRefine ==
    ASSUME Standing, Falls, disk'["data"] = disk["data"]
    PROVE  Promise!Lose \/ Promise!Run \/ Promise!Forget \/ UNCHANGED Mapped
<1>1. at' = "down" /\ Away'
  BY DEF Falls, Away
<1>2. CASE Away
  BY <1>1, <1>2, PhotoSame
<1>3. CASE at = "adopted"
  <2>1. Photo' = Photo
    BY <1>1, <1>3 DEF Photo, Standing, PhotoStands, Running, Gone, Bare, NoItem
  <2> QED
    BY <1>1, <1>3, <2>1, StartedOnlyThen, GivenOnlyThen DEF Promise!Run
<1>4. CASE at \in {"spent", "cleared_working", "renamed"}
  <2>1. disk["data"].item.state = "none"
    BY <1>4 DEF Standing, PhotoStands, Running, Gone, Bare, NoItem
  <2>2. Photo' = NoPhoto
    BY <1>1, <2>1 DEF Photo
  <2>3. Started = NoPhoto /\ Started' = NoPhoto
    BY <1>1, <1>4, StartedOnlyThen
  <2> QED
    BY <2>2, <2>3, GivenOnlyThen DEF Promise!Lose
<1>5. CASE at = "missing"
  <2>1. Photo' = Photo
    BY <1>1, <1>5 DEF Photo
  <2>2. Started = NoPhoto /\ Started' = NoPhoto /\ Given' = FALSE
    BY <1>1, <1>5, StartedOnlyThen, GivenOnlyThen
  <2> QED
    BY <2>1, <2>2 DEF Promise!Forget
<1> QED
  BY <1>2, <1>3, <1>4, <1>5 DEF Away

LEMMA CommitRefines == ASSUME Typed, Standing, Commit PROVE Promise!Commit
<1>1. disk'["data"] = disk["temp"] /\ disk["temp"].item.state = "whole" /\ at = "written" /\ at' = "down"
  BY CommitKeeps DEF Commit, Falls
<1>2. Photo = NoPhoto
  BY <1>1 DEF Photo, Standing, PhotoStands, Running, Gone, Bare, NoItem
<1>3. Photo' = PhotoOf(disk["temp"].item.users, disk["temp"].item.register, disk["temp"].parcels)
  BY <1>1 DEF Photo
<1>4. disk["temp"] \in Directory
  BY DEF Typed, DiskTyped, Places
<1>5. Photo' \in Photos
  BY <1>3, <1>4 DEF PhotoOf, Photos, Directory, Item
<1> QED
  BY <1>1, <1>2, <1>5, StartedOnlyThen, GivenOnlyThen DEF Promise!Commit

\* One file of a photo that was given up: its item, and there is no photo; a
\* parcel, and the photo is the rest; a lock, and it is what it was.
LEMMA UnlinksRefines ==
    ASSUME Typed, Unlinks
    PROVE  Promise!Lose \/ Promise!Erode \/ UNCHANGED Mapped
<1>0. disk["data"] \in Directory /\ disk \in [Places -> Directory] /\ "data" \in Places
  BY DEF Typed, DiskTyped, Places
<1>1. at = "missing" /\ at' = "missing"
  BY DEF Unlinks, course
<1>2. Started = NoPhoto /\ Started' = NoPhoto
  BY <1>1, StartedOnlyThen
<1>3. CASE disk' = [disk EXCEPT !["data"].item = NoItem]
  <2>1. Photo' = NoPhoto
    BY <1>0, <1>1, <1>3 DEF Photo, NoItem, Directory
  <2> QED
    BY <1>2, <2>1, GivenOnlyThen DEF Promise!Lose
<1>4. CASE disk["data"].item.state # "whole" /\ disk'["data"].item = disk["data"].item
  <2>1. Photo = NoPhoto /\ Photo' = NoPhoto
    BY <1>1, <1>4 DEF Photo
  <2> QED
    BY <1>2, <2>1 DEF Mapped, Given
<1>5. ASSUME disk["data"].item.state = "whole", NEW u \in Users,
             disk' = [disk EXCEPT !["data"].parcels[u] = Nothing]
      PROVE  Promise!Erode
  <2>1. /\ disk'["data"].item = disk["data"].item
        /\ disk'["data"].parcels = [disk["data"].parcels EXCEPT ![u] = Nothing]
    BY <1>0, <1>5 DEF Directory
  <2>2. /\ Photo = PhotoOf(disk["data"].item.users, disk["data"].item.register,
                           disk["data"].parcels)
        /\ Photo' = PhotoOf(disk["data"].item.users, disk["data"].item.register,
                            disk'["data"].parcels)
    BY <1>1, <1>5, <2>1 DEF Photo
  <2>3. Photo' = [Photo EXCEPT !.parcels[u] = Nothing]
    BY <2>1, <2>2 DEF PhotoOf
  <2>4. Given = TRUE /\ Given' = TRUE
    BY <1>1, <2>2, PhotoIsSomething DEF Given
  <2> QED
    BY <1>2, <2>3, <2>4 DEF Promise!Erode, RemainsOf
<1>6. ASSUME disk["data"].item.state = "whole", NEW u \in Users,
             disk' = [disk EXCEPT !["data"].locks = @ \ {u}]
      PROVE  UNCHANGED Mapped
  <2>1. /\ disk'["data"].item = disk["data"].item
        /\ disk'["data"].parcels = disk["data"].parcels
    BY <1>0, <1>6 DEF Directory
  <2>2. Photo' = Photo
    BY <1>1, <1>6, <2>1 DEF Photo
  <2> QED
    BY <1>1, <1>2, <2>2 DEF Mapped, Given
<1>7. CASE \E u \in Users : \/ disk' = [disk EXCEPT !["data"].parcels[u] = Nothing]
                           \/ disk' = [disk EXCEPT !["data"].locks = @ \ {u}]
  <2>1. disk'["data"].item = disk["data"].item
    BY <1>0, <1>7 DEF Directory
  <2> QED
    BY <1>4, <1>5, <1>6, <1>7, <2>1
<1> QED
  BY <1>3, <1>7 DEF Unlinks

LEMMA BootRefines ==
    ASSUME Typed, Standing,
           WipeWorking \/ DropTemp \/ ReadItem \/ ReadNothing \/ ReadFails \/ Unlinks
             \/ StartClean \/ DropItem \/ DropWorking \/ RenameIn \/ Adopt
             \/ (\E old \in SUBSET Users : Expire(old)) \/ (\E w \in Workers : StartWorker(w))
    PROVE  Promise!Next \/ UNCHANGED Mapped
<1>0. /\ disk["data"] \in Directory /\ disk["working"] \in Directory
      /\ disk \in [Places -> Directory]
  BY DEF Typed, DiskTyped, Places
<1>1. CASE WipeWorking \/ DropTemp \/ ReadItem \/ \E w \in Workers : StartWorker(w)
  <2>1. disk'["data"] = disk["data"]
    BY <1>0, <1>1 DEF WipeWorking, DropTemp, ReadItem, StartWorker, Places
  <2>2. Away /\ Away'
    BY <1>1 DEF Away, WipeWorking, DropTemp, ReadItem, StartWorker
  <2> QED
    BY <2>1, <2>2, PhotoSame
<1>2. CASE ReadNothing
  <2>1. disk'["data"].item = disk["data"].item
    BY <1>0, <1>2 DEF ReadNothing, Places, Directory
  <2>2. Photo = NoPhoto /\ Photo' = NoPhoto
    BY <1>2, <2>1 DEF Photo, ReadNothing
  <2>3. Started = NoPhoto /\ Started' = NoPhoto
    BY <1>2, StartedOnlyThen DEF ReadNothing
  <2> QED
    BY <2>2, <2>3 DEF Mapped, Given
<1>3. CASE StartClean
  <2>1. disk'["working"] = disk["working"] /\ disk'["data"] = Gone /\ at' = "adopted"
    BY <1>0, <1>3 DEF StartClean, Places
  <2>2. known' = {} /\ register' = 0 /\ disk["working"] = Emptied
    BY <1>3 DEF StartClean, vertex, Standing, Blank
  <2>3. Started' = Clean
    BY <2>1, <2>2 DEF Started, Clean, Emptied, Gone, Bare
  <2>4. Photo' = NoPhoto
    BY <2>1 DEF Photo, Gone, Bare, NoItem
  <2>5. Started = NoPhoto
    BY <1>3, StartedOnlyThen DEF StartClean
  <2> QED
    BY <2>3, <2>4, <2>5, GivenOnlyThen DEF Promise!Next, Promise!StartClean
<1>4. CASE DropItem
  <2>1. disk'["data"].parcels = disk["data"].parcels
    BY <1>0, <1>4 DEF DropItem, Places, Directory
  <2>2. at = "found" /\ at' = "spent" /\ saved' = saved
        /\ saved = disk["data"].item /\ saved.state = "whole"
    BY <1>4 DEF DropItem, Standing, PhotoStands
  <2>3. Photo' = Photo
    BY <2>1, <2>2 DEF Photo
  <2> QED
    BY <2>2, <2>3, StartedOnlyThen, GivenOnlyThen DEF Mapped
<1>5. CASE DropWorking
  <2>1. disk'["data"] = disk["data"] /\ at = "spent" /\ at' = "cleared_working" /\ saved' = saved
    BY <1>0, <1>5 DEF DropWorking, Places
  <2>2. Photo' = Photo
    BY <2>1 DEF Photo
  <2> QED
    BY <2>1, <2>2, StartedOnlyThen, GivenOnlyThen DEF Mapped
<1>6. CASE RenameIn
  <2>1. /\ disk'["working"] = disk["data"] /\ at = "cleared_working" /\ at' = "renamed"
        /\ saved' = saved
    BY <1>0, <1>6 DEF RenameIn, Rename, Places
  <2>2. Photo' = Photo
    BY <2>1 DEF Photo
  <2> QED
    BY <2>1, <2>2, StartedOnlyThen, GivenOnlyThen DEF Mapped
<1>7. CASE Adopt
  <2>1. Photo = PhotoOf(saved.users, saved.register, disk["working"].parcels)
    BY <1>7 DEF Adopt, Photo
  <2>2. Started' = PhotoOf(saved.users, saved.register, disk["working"].parcels)
    BY <1>7 DEF Adopt, Started
  <2>3. Photo' = NoPhoto
    BY <1>7 DEF Adopt, Photo, Standing, PhotoStands, Gone, Bare, NoItem
  <2>4. Started = NoPhoto
    BY <1>7, StartedOnlyThen DEF Adopt
  <2> QED
    BY <1>7, <2>1, <2>2, <2>3, <2>4, PhotoIsSomething, GivenOnlyThen
    DEF Adopt, Promise!Next, Promise!Adopt
<1>8. CASE \E old \in SUBSET Users : Expire(old)
  <2>1. disk'["data"] = disk["data"] /\ at = "adopted" /\ at' = "judged"
    BY <1>0, <1>8 DEF Expire, Places
  <2>2. Photo' = NoPhoto /\ Photo = NoPhoto
    BY <2>1 DEF Photo, Standing, PhotoStands, Gone, Bare, NoItem
  <2> QED
    BY <2>1, <2>2, StartedOnlyThen, GivenOnlyThen DEF Promise!Next, Promise!Run
<1>9. CASE ReadFails
  <2>1. /\ disk' = disk /\ disk["data"].item.state = "whole"
        /\ at = "cleared" /\ at' = "missing"
    BY <1>9 DEF ReadFails
  <2>2. Photo' = Photo /\ Photo # NoPhoto
    BY <2>1, PhotoIsSomething DEF Photo
  <2>3. Given' = TRUE
    BY <2>1, <2>2 DEF Given
  <2> QED
    BY <2>1, <2>2, <2>3, StartedOnlyThen DEF Promise!Next, Promise!GiveUp
<1>10. CASE Unlinks
  BY <1>10, UnlinksRefines DEF Promise!Next
<1> QED
  BY <1>1, <1>2, <1>3, <1>4, <1>5, <1>6, <1>7, <1>8, <1>9, <1>10

LEMMA StepRefines ==
    ASSUME Typed, Standing, [Next]_vars
    PROVE  Promise!Next \/ UNCHANGED Mapped
<1>1. CASE Boot
  BY <1>1, BootRefines DEF Boot
<1>2. CASE Service
  BY <1>2, BootRefines, ServiceQuiet, MovesQuiet, QuietRefines DEF Service
<1>3. CASE Departure
  BY <1>3, ServiceQuiet, MovesQuiet, QuietRefines DEF Departure
<1>4. CASE Quit
  BY <1>4, VertexQuitKeeps, WorkerQuitKeeps, RunningIsAway, PhotoSame, CommitRefines, EndsKeep,
     EndsRefine
  DEF Quit, Promise!Next
<1>5. CASE GoesWrong
  BY <1>5, DeathQuiet, QuietRefines, EndsKeep, EndsRefine DEF GoesWrong, Promise!Next
<1>6. CASE UNCHANGED vars
  BY <1>6 DEF vars, course, vertex, Mapped, Photo, Started, Given
<1> QED
  BY <1>1, <1>2, <1>3, <1>4, <1>5, <1>6 DEF Next

\* rename_root, adopt_frozen_registers: whatever goes wrong, a photo appears
\* whole with the rename, and a start becomes the whole of what is there or
\* nothing of it.  A photo loses a file in one way only: a start that could not
\* read it is removing it.
THEOREM RebootIsAtomic == Spec => PhotoIsAtomic
<1>1. Init => Promise!Init
  BY DEF Init, Promise!Init, Photo, Started, Given, Places, Gone, Bare, NoItem
<1>2. IInv /\ [Next]_vars => [Promise!Next]_Mapped
  BY StepRefines DEF IInv
<1> QED
  BY <1>1, <1>2, Invariance, PTL DEF Spec, PhotoIsAtomic, Promise!Spec, Mapped
==============================================================================
