------------------------- MODULE UserMobility_proofs -------------------------
(***************************************************************************)
(* Theorems about UserMobility: type correctness under every disturbance,  *)
(* and, for a group whose workers only serve, are ordered to let the user  *)
(* go, die or find the deposit unwilling, that he has one home, that       *)
(* nothing of his is lost short of a death, that the vertex knows where he *)
(* is, and that nothing runs while his parcels are written.                *)
(***************************************************************************)
EXTENDS UserMobility, FiniteSetTheorems, TLAPS

-----------------------------------------------------------------------------
(* Types, and what the lanes down carry.                                   *)

VertexT == [known : BOOLEAN, frozen : BOOLEAN, hold : BOOLEAN, placement : Workers \cup {None}]
PlacingT == [queue : Seq(Requests), launching : Workers \cup {None}, owner : Requests \cup {None}]
HandlerT ==
    [state : {"unborn", "starting", "running", "quitting", "quitted", "aborted", "dropped"},
     hosted : BOOLEAN, photo : Photos, freezing : OrderIds, expected : BOOLEAN]
RqT == [phase : Phases, on : Workers \cup {None}, events : SUBSET Events,
        good : BOOLEAN, base : SUBSET Requests]
DepositT == [parcel : SUBSET Stores, conn : BOOLEAN, torn : SUBSET {"store", "conn"},
             lock : Workers \cup {None}]
SpentT == [orders : OrderIds, crashes : 0 .. MaxCrashes]
Mail == {m \in Orders : /\ m.kind = "request" => m.who \in Requests
                        /\ m.kind = "freeze" => m.who \in OrderIds}

Types ==
    /\ vertex \in VertexT /\ placing \in PlacingT /\ handler \in [Workers -> HandlerT]
    /\ rq \in [Requests -> RqT] /\ down \in [Workers -> Seq(Mail)]
    /\ up \in [Workers -> Seq(Envelopes)] /\ proc \in [Workers -> Processes]
    /\ deposit \in DepositT /\ purged \in BOOLEAN /\ spent \in SpentT

-----------------------------------------------------------------------------
(* The inductive invariant of a calm group.                                *)

\* A group that launches no worker and tells none to quit, with the order of a departure
\* given to whoever is idle: what the theorems about his home assume.
Calm == Happens \subseteq {"crash", "failure"}

\* The requests a process works on, and those its worker still has to answer for.
Inside == {"pulling", "awaiting", "fetching", "serving", "failing"}
Live == Inside \cup {"sent", "replied"}
Here(w) == {r \in Requests : rq[r].on = w /\ rq[r].phase \in Inside}

Verdicts == {"frozen", "refused"}
Replies == {"reply", "error"}
Ripe(w) == \E m \in Range(down[w]) : m.kind = "freeze"
Judged(w) == \E m \in Range(up[w]) : m.kind \in Verdicts
SaysFrozen(w) == \E m \in Range(up[w]) : "user_frozen" \in m.events
SaysAdopted(w) == \E m \in Range(up[w]) : "user_adopted" \in m.events
HoldsAdopted(w) == \E r \in Here(w) : "user_adopted" \in rq[r].events
SeenIdle(w) == handler[w].photo = "idle" \/ \E m \in Range(up[w]) : m.photo = "idle"

\* What a lane may hold, and the order of what it holds: nothing follows an order or its
\* answer, nobody is in it twice, and no adoption is told after a photo that shows him idle.
Before(m, n) == m.kind = "request" /\ (n.kind = "request" => m.who # n.who)
OrderedDown(s) == \A i, j \in 1 .. Len(s) : i < j => Before(s[i], s[j])
Above(m, n) ==
    /\ m.kind \in Replies
    /\ n.kind \in Replies => m.who # n.who
    /\ m.photo = "idle" => "user_adopted" \notin n.events
OrderedUp(s) == \A i, j \in 1 .. Len(s) : i < j => Above(s[i], s[j])

Carried(w) ==
    /\ \A m \in Range(down[w]) :
         /\ m.kind \in {"request", "freeze"}
         /\ m.kind = "request" => rq[m.who].phase = "sent" /\ rq[m.who].on = w
    /\ OrderedDown(down[w])
    /\ \A r \in Requests : rq[r].on = w /\ rq[r].phase = "sent" =>
         \E m \in Range(down[w]) : m.kind = "request" /\ m.who = r
Honest(m, w) ==
    /\ m.photo # "ceded"
    /\ \/ /\ m.kind \in Replies /\ m.who \in Requests
          /\ rq[m.who].phase = "replied" /\ rq[m.who].on = w
          /\ m.events \subseteq {"user_adopted", "new_connection"}
       \/ /\ m.kind \in Verdicts
          /\ m.events \subseteq {"user_frozen"}
    /\ "user_frozen" \in m.events => m.photo = "away"
Told(w) ==
    /\ \A m \in Range(up[w]) : Honest(m, w)
    /\ OrderedUp(up[w])
    /\ proc[w].alive \/ Judged(w) =>
         \A r \in Requests : rq[r].on = w /\ rq[r].phase = "replied" =>
            \E m \in Range(up[w]) : m.kind \in Replies /\ m.who = r

\* Nothing of his is at a worker or on its lanes.
Bare(w) ==
    /\ down[w] = <<>> /\ up[w] = <<>> /\ handler[w].freezing = 0
    /\ \A r \in Requests : rq[r].on = w => rq[r].phase \notin Live
    /\ proc[w].row = "absent" /\ proc[w].pend = {} /\ proc[w].orders = {}
    /\ proc[w].dep = NoDeparture

\* Nobody is launched, nobody quits; who died is gone, and once his wire is read, quiet.
SteadyWorker(w) ==
    /\ handler[w].state \in {"running", "aborted", "dropped"}
    /\ ~handler[w].expected /\ handler[w].photo # "ceded"
    /\ ~proc[w].quitting /\ ~proc[w].flag
    /\ \/ proc[w].dep = NoDeparture
       \/ proc[w].dep.by = "order" /\ proc[w].dep.step \in {"locking", "writing"}
    /\ ~proc[w].alive => proc[w] = Gone
    /\ handler[w].state # "running" => ~proc[w].alive /\ Bare(w)
SteadyRequest(r) ==
    /\ rq[r].phase \in Live \cup Ended \cup {"new"}
    /\ rq[r].phase \in Live => rq[r].on \in Workers
    /\ rq[r].phase \in {"new", "sent"} => rq[r].events = {}
    /\ rq[r].events \subseteq {"user_adopted", "new_connection"}
Steady ==
    /\ placing = [queue |-> <<>>, launching |-> None, owner |-> None]
    /\ \A w \in Workers : SteadyWorker(w)
    /\ \A r \in Requests : SteadyRequest(r)

\* Everything about him happens where he is placed.
Elsewhere(w) ==
    Bare(w) /\ (handler[w].state = "running" => ~handler[w].hosted /\ handler[w].photo # "idle")
OnlyHome == \A w \in Workers : w # vertex.placement => Elsewhere(w)

\* An order is in one place at a time, and as long as it is out he is blocked and no
\* adoption is still to be told.
Order(w) ==
    /\ handler[w].freezing = 0 =>
         ~Ripe(w) /\ proc[w].orders = {} /\ proc[w].dep = NoDeparture /\ ~Judged(w)
    /\ handler[w].freezing # 0 =>
         /\ vertex.hold /\ ~SaysAdopted(w) /\ ~HoldsAdopted(w)
         /\ \A m \in Range(down[w]) : m.kind = "freeze" => m.who = handler[w].freezing
         /\ proc[w].orders \subseteq {handler[w].freezing}
         /\ proc[w].dep # NoDeparture => proc[w].dep.order = handler[w].freezing
         /\ \A m \in Range(up[w]) : m.kind \in Verdicts => m.who = handler[w].freezing
         /\ proc[w].alive => proc[w].row = "active" \/ SaysFrozen(w)
    /\ Ripe(w) => proc[w].orders = {} /\ proc[w].dep = NoDeparture /\ ~Judged(w)
    /\ proc[w].orders # {} => proc[w].dep = NoDeparture /\ ~Judged(w) /\ down[w] = <<>>
    /\ proc[w].dep # NoDeparture => ~Judged(w) /\ down[w] = <<>> /\ Here(w) = {}
    /\ Judged(w) => down[w] = <<>> /\ Here(w) = {}

\* The row of a living process follows the requests inside it, and the vertex's mark the row.
Cold(w) ==
    /\ vertex.frozen /\ ~SeenIdle(w) /\ ~SaysAdopted(w) /\ ~HoldsAdopted(w)
    /\ \A m \in Range(down[w]) : m.kind = "request" => m.frozen
Rows(w) ==
    /\ proc[w].alive => proc[w].pend = Here(w)
    /\ \A r \in Here(w) : proc[w].alive =>
         /\ rq[r].phase \in {"pulling", "awaiting"} => proc[w].row = "unfreezing"
         /\ rq[r].phase \in {"fetching", "serving"} => proc[w].row = "active"
    /\ \A r, s \in Here(w) : proc[w].alive /\ rq[r].phase = "pulling" /\ rq[s].phase = "pulling" => r = s
    /\ proc[w].dep # NoDeparture => proc[w].row = "active"
    /\ SaysFrozen(w) => proc[w].row = "absent"
    /\ proc[w].alive /\ proc[w].row # "active" /\ ~SaysFrozen(w) => Cold(w)
    /\ vertex.frozen /\ proc[w].row = "active" => SaysAdopted(w) \/ HoldsAdopted(w)
    /\ SeenIdle(w) => ~HoldsAdopted(w)
    /\ handler[w].photo = "idle" => ~SaysAdopted(w)
Settled(w) == Carried(w) /\ Told(w) /\ Order(w) /\ Rows(w)

\* What the vertex knows.
Knows ==
    /\ ~vertex.known => vertex.placement = None
    /\ vertex.known /\ vertex.placement = None => vertex.frozen
    /\ vertex.placement # None =>
         /\ handler[vertex.placement].hosted <=> ~vertex.frozen
         /\ handler[vertex.placement].state # "dropped"

\* One parcel at most, and beside an active row nothing that is not in the row; short of a
\* death what was answered is in the row, or else in the parcel.
Kept == Answered \cup {r \in Requests : \E w \in Workers : \E m \in Range(up[w]) :
                          m.kind = "reply" /\ m.who = r}
Parcels ==
    /\ deposit.parcel = {} \/ \E s \in Stores : deposit.parcel = {s}
    /\ \A w \in Workers :
         /\ proc[w].row = "active" => \A s \in deposit.parcel : s \subseteq proc[w].store
         /\ proc[w].dep.step = "writing" => proc[w].copy \subseteq proc[w].store
Guarded(w) ==
    /\ proc[w].alive /\ handler[w].state = "running"
    /\ deposit.lock = w <=> proc[w].dep.step = "writing"
    /\ proc[w].dep.step = "writing" => proc[w].copy = proc[w].store
    /\ proc[w].row # "active" => proc[w].store = {}
    /\ proc[w].row = "active" => Kept \subseteq proc[w].store
Based == \A r \in Requests : rq[r].base \subseteq Answered
Parked == (\A w \in Workers : proc[w].row # "active") =>
              \E s \in Stores : deposit.parcel = {s} /\ Kept \subseteq s
Whole == Based /\ (NoDeath => (\A w \in Workers : Guarded(w)) /\ Parked)

IInv ==
    /\ Types /\ Steady /\ OnlyHome /\ Knows /\ Parcels /\ Whole
    /\ \A w \in Workers : w = vertex.placement => Settled(w)

-----------------------------------------------------------------------------
(* Sequences.                                                              *)

LEMMA SeqWidens ==
    ASSUME NEW S, NEW T, S \subseteq T, NEW s \in Seq(S) PROVE s \in Seq(T)
<1>1. \A i \in 1 .. Len(s) : s[i] \in T
  OBVIOUS
<1>2. s = [i \in 1 .. Len(s) |-> s[i]] /\ Len(s) \in Nat
  OBVIOUS
<1> QED
  BY <1>1, <1>2

LEMMA Appended ==
    ASSUME NEW S, NEW s \in Seq(S), NEW m \in S
    PROVE  Append(s, m) \in Seq(S) /\ Range(Append(s, m)) = Range(s) \cup {m}
<1>1. Append(s, m) \in Seq(S) /\ Len(Append(s, m)) = Len(s) + 1 /\ Len(s) \in Nat
  OBVIOUS
<1>2. \A i \in 1 .. Len(s) : Append(s, m)[i] = s[i]
  OBVIOUS
<1>3. Append(s, m)[Len(s) + 1] = m
  OBVIOUS
<1>4. DOMAIN s = 1 .. Len(s) /\ DOMAIN Append(s, m) = 1 .. Len(s) + 1
  BY <1>1
<1>5. Range(Append(s, m)) = {Append(s, m)[i] : i \in 1 .. Len(s) + 1}
  BY <1>4 DEF Range
<1>6. Range(s) = {s[i] : i \in 1 .. Len(s)}
  BY <1>4 DEF Range
<1>7. \A i : i \in 1 .. Len(s) + 1 <=> i \in 1 .. Len(s) \/ i = Len(s) + 1
  BY <1>1
<1> QED
  BY <1>1, <1>2, <1>3, <1>5, <1>6, <1>7

LEMMA Tailed ==
    ASSUME NEW S, NEW s \in Seq(S), s # <<>>
    PROVE  /\ Tail(s) \in Seq(S) /\ Head(s) \in S
           /\ Range(s) = {Head(s)} \cup Range(Tail(s))
<1>1. /\ Tail(s) \in Seq(S) /\ Len(Tail(s)) = Len(s) - 1 /\ Len(s) \in Nat /\ Len(s) > 0
      /\ Head(s) = s[1] /\ Head(s) \in S
  OBVIOUS
<1>2. \A i \in 1 .. Len(s) - 1 : Tail(s)[i] = s[i + 1]
  OBVIOUS
<1>3. DOMAIN s = 1 .. Len(s) /\ DOMAIN Tail(s) = 1 .. Len(s) - 1
  BY <1>1
<1>4. Range(s) = {s[i] : i \in 1 .. Len(s)} /\ Range(Tail(s)) = {Tail(s)[i] : i \in 1 .. Len(s) - 1}
  BY <1>3 DEF Range
<1>5. \A i \in 1 .. Len(s) : i = 1 \/ i - 1 \in 1 .. Len(s) - 1
  BY <1>1
<1>6. \A i \in 1 .. Len(s) - 1 : i + 1 \in 1 .. Len(s)
  BY <1>1
<1>7. \A i \in 1 .. Len(s) : i # 1 => s[i] = Tail(s)[i - 1]
  BY <1>1, <1>2, <1>5
<1>8. Head(s) \in Range(s)
  BY <1>1, <1>4
<1>9. ASSUME NEW m \in Range(s), m # Head(s) PROVE m \in Range(Tail(s))
  <2>1. PICK i \in 1 .. Len(s) : m = s[i]
    BY <1>4
  <2>2. i # 1
    BY <2>1, <1>1, <1>9
  <2>3. m = Tail(s)[i - 1] /\ i - 1 \in 1 .. Len(s) - 1
    BY <2>1, <2>2, <1>5, <1>7
  <2> QED
    BY <2>3, <1>4
<1>10. ASSUME NEW m \in Range(Tail(s)) PROVE m \in Range(s)
  BY <1>2, <1>4, <1>6, <1>10
<1> QED
  BY <1>1, <1>8, <1>9, <1>10

LEMMA Cut ==
    ASSUME NEW S, NEW s \in Seq(S), NEW n \in 0 .. Len(s)
    PROVE  /\ SubSeq(s, 1, n) \in Seq(S) /\ Len(SubSeq(s, 1, n)) = n
           /\ \A i \in 1 .. n : SubSeq(s, 1, n)[i] = s[i]
           /\ Range(SubSeq(s, 1, n)) \subseteq Range(s)
<1>1. /\ SubSeq(s, 1, n) \in Seq(S) /\ Len(SubSeq(s, 1, n)) = n /\ Len(s) \in Nat
      /\ \A i \in 1 .. n : SubSeq(s, 1, n)[i] = s[i]
  OBVIOUS
<1>2. DOMAIN s = 1 .. Len(s) /\ DOMAIN SubSeq(s, 1, n) = 1 .. n
  BY <1>1
<1> QED
  BY <1>1, <1>2 DEF Range

LEMMA InRange ==
    ASSUME NEW S, NEW s \in Seq(S)
    PROVE  /\ \A i \in 1 .. Len(s) : s[i] \in Range(s)
           /\ \A m \in Range(s) : m \in S /\ \E i \in 1 .. Len(s) : s[i] = m
           /\ s = <<>> <=> Range(s) = {}
<1>1. DOMAIN s = 1 .. Len(s) /\ Len(s) \in Nat /\ \A i \in 1 .. Len(s) : s[i] \in S
  OBVIOUS
<1>2. s = <<>> <=> Len(s) = 0
  OBVIOUS
<1>3. Range(s) = {s[i] : i \in 1 .. Len(s)}
  BY <1>1 DEF Range
<1>4. Len(s) = 0 <=> 1 .. Len(s) = {}
  BY <1>1
<1>5. Range(s) = {} <=> 1 .. Len(s) = {}
  BY <1>3, Zenon
<1> QED
  BY <1>1, <1>2, <1>3, <1>4, <1>5

LEMMA Indexes ==
    ASSUME NEW S, NEW s \in Seq(S), NEW m \in S
    PROVE  /\ Len(s) \in Nat /\ Len(Append(s, m)) = Len(s) + 1
           /\ Append(s, m)[Len(s) + 1] = m
           /\ \A i \in 1 .. Len(s) : Append(s, m)[i] = s[i]
           /\ s # <<>> => /\ Len(Tail(s)) = Len(s) - 1 /\ Head(s) = s[1] /\ 1 \in 1 .. Len(s)
                          /\ \A i \in 1 .. Len(s) - 1 : Tail(s)[i] = s[i + 1]
OBVIOUS

LEMMA DownAppends ==
    ASSUME NEW S, NEW s \in Seq(S), NEW m \in S, OrderedDown(s), \A n \in Range(s) : Before(n, m)
    PROVE  OrderedDown(Append(s, m))
<1> SUFFICES ASSUME NEW i \in 1 .. Len(s) + 1, NEW j \in 1 .. Len(s) + 1, i < j
             PROVE  Before(Append(s, m)[i], Append(s, m)[j])
  BY Indexes DEF OrderedDown
<1>1. i \in 1 .. Len(s) /\ (j \in 1 .. Len(s) \/ j = Len(s) + 1)
  BY Indexes
<1> QED
  BY <1>1, Indexes, InRange DEF OrderedDown

LEMMA DownTail ==
    ASSUME NEW S, NEW s \in Seq(S), s # <<>>, OrderedDown(s)
    PROVE  OrderedDown(Tail(s)) /\ \A n \in Range(Tail(s)) : Before(Head(s), n)
<1>1. /\ Len(s) \in Nat /\ Len(Tail(s)) = Len(s) - 1 /\ Head(s) = s[1] /\ 1 \in 1 .. Len(s)
      /\ \A i \in 1 .. Len(s) - 1 : Tail(s)[i] = s[i + 1]
      /\ Tail(s) \in Seq(S)
  OBVIOUS
<1>2. OrderedDown(Tail(s))
  <2> SUFFICES ASSUME NEW i \in 1 .. Len(s) - 1, NEW j \in 1 .. Len(s) - 1, i < j
               PROVE  Before(s[i + 1], s[j + 1])
    BY <1>1 DEF OrderedDown
  <2> QED
    BY <1>1 DEF OrderedDown
<1>3. ASSUME NEW n \in Range(Tail(s)) PROVE Before(Head(s), n)
  <2>1. PICK i \in 1 .. Len(s) - 1 : Tail(s)[i] = n
    <3>1. \E i \in 1 .. Len(Tail(s)) : Tail(s)[i] = n
      BY <1>1, <1>3, InRange
    <3> QED
      BY <1>1, <3>1
  <2>2. i + 1 \in 1 .. Len(s) /\ 1 < i + 1 /\ n = s[i + 1]
    BY <1>1, <2>1
  <2> QED
    BY <1>1, <2>2 DEF OrderedDown
<1> QED
  BY <1>2, <1>3

LEMMA UpAppends ==
    ASSUME NEW S, NEW s \in Seq(S), NEW m \in S, OrderedUp(s), \A n \in Range(s) : Above(n, m)
    PROVE  OrderedUp(Append(s, m))
<1> SUFFICES ASSUME NEW i \in 1 .. Len(s) + 1, NEW j \in 1 .. Len(s) + 1, i < j
             PROVE  Above(Append(s, m)[i], Append(s, m)[j])
  BY Indexes DEF OrderedUp
<1>1. i \in 1 .. Len(s) /\ (j \in 1 .. Len(s) \/ j = Len(s) + 1)
  BY Indexes
<1> QED
  BY <1>1, Indexes, InRange DEF OrderedUp

LEMMA UpTail ==
    ASSUME NEW S, NEW s \in Seq(S), s # <<>>, OrderedUp(s)
    PROVE  OrderedUp(Tail(s)) /\ \A n \in Range(Tail(s)) : Above(Head(s), n)
<1>1. /\ Len(s) \in Nat /\ Len(Tail(s)) = Len(s) - 1 /\ Head(s) = s[1] /\ 1 \in 1 .. Len(s)
      /\ \A i \in 1 .. Len(s) - 1 : Tail(s)[i] = s[i + 1]
      /\ Tail(s) \in Seq(S)
  OBVIOUS
<1>2. OrderedUp(Tail(s))
  <2> SUFFICES ASSUME NEW i \in 1 .. Len(s) - 1, NEW j \in 1 .. Len(s) - 1, i < j
               PROVE  Above(s[i + 1], s[j + 1])
    BY <1>1 DEF OrderedUp
  <2> QED
    BY <1>1 DEF OrderedUp
<1>3. ASSUME NEW n \in Range(Tail(s)) PROVE Above(Head(s), n)
  <2>1. PICK i \in 1 .. Len(s) - 1 : Tail(s)[i] = n
    <3>1. \E i \in 1 .. Len(Tail(s)) : Tail(s)[i] = n
      BY <1>1, <1>3, InRange
    <3> QED
      BY <1>1, <3>1
  <2>2. i + 1 \in 1 .. Len(s) /\ 1 < i + 1 /\ n = s[i + 1]
    BY <1>1, <2>1
  <2> QED
    BY <1>1, <2>2 DEF OrderedUp
<1> QED
  BY <1>2, <1>3

\* What a death leaves of a lane is in order, and if it still ends in an answer nothing of it
\* was lost.
LEMMA UpCut ==
    ASSUME NEW S, NEW s \in Seq(S), NEW n \in 0 .. Len(s), OrderedUp(s)
    PROVE  /\ OrderedUp(SubSeq(s, 1, n))
           /\ (\E m \in Range(SubSeq(s, 1, n)) : m.kind \in Verdicts) => SubSeq(s, 1, n) = s
<1>1. /\ SubSeq(s, 1, n) \in Seq(S) /\ Len(SubSeq(s, 1, n)) = n /\ Len(s) \in Nat
      /\ \A i \in 1 .. n : SubSeq(s, 1, n)[i] = s[i] /\ i \in 1 .. Len(s)
  OBVIOUS
<1>2. OrderedUp(SubSeq(s, 1, n))
  BY <1>1 DEF OrderedUp
<1>3. ASSUME NEW m \in Range(SubSeq(s, 1, n)), m.kind \in Verdicts PROVE SubSeq(s, 1, n) = s
  <2>1. PICK i \in 1 .. n : s[i] = m
    <3> DEFINE t == SubSeq(s, 1, n)
    <3> HIDE DEF t
    <3>2. t \in Seq(S) /\ m \in Range(t)
      BY <1>1, <1>3 DEF t
    <3>1. \E i \in 1 .. Len(t) : t[i] = m
      BY <3>2, InRange
    <3>3. \E i \in 1 .. Len(SubSeq(s, 1, n)) : SubSeq(s, 1, n)[i] = m
      BY <3>1 DEF t
    <3> QED
      BY <1>1, <3>3
  <2>2. n = Len(s)
    <3>1. CASE n < Len(s)
      <4>1. i \in 1 .. Len(s) /\ n + 1 \in 1 .. Len(s) /\ i < n + 1
        BY <1>1, <3>1
      <4> QED
        BY <4>1, <2>1, <1>3 DEF OrderedUp, Above, Verdicts, Replies
    <3> QED
      BY <1>1, <3>1
  <2> QED
    BY <2>2, <1>1
<1> QED
  BY <1>2, <1>3

-----------------------------------------------------------------------------
(* Types.                                                                  *)

LEMMA TypesImplyTypeOK == Types => TypeOK
<1> SUFFICES ASSUME Types PROVE TypeOK
  OBVIOUS
<1>1. down \in [Workers -> Seq(Orders)]
  <2>1. \A w \in Workers : down[w] \in Seq(Orders)
    BY SeqWidens DEF Types, Mail
  <2> QED
    BY <2>1 DEF Types
<1> QED
  BY <1>1 DEF Types, TypeOK, VertexT, PlacingT, HandlerT, RqT, DepositT, SpentT

LEMMA SendersAre ==
    /\ MaxOrders \in Nat /\ 0 \in OrderIds /\ OrderIds \subseteq Nat
    /\ Requests \subseteq Senders /\ OrderIds \subseteq Senders
    /\ None \notin Workers /\ None \notin Requests /\ MaxCrashes \in Nat
BY MobilityAssumption DEF MobilityAssumption, OrderIds, Senders

LEMMA BlankProcesses == Gone \in Processes /\ Empty \in Processes /\ NoDeparture \in Departures
BY SendersAre DEF Gone, Empty, NoDeparture, Processes, Departures, Stores

LEMMA DoorTyped ==
    ASSUME NEW p \in Processes, NEW dep \in Departures PROVE Door(p, dep) \in Processes
<1>1. \A step \in {"none", "waiting", "locking", "writing"} : [dep EXCEPT !.step = step] \in Departures
  BY DEF Departures
<1>2. \A d \in Departures, copy \in Stores, carries \in BOOLEAN, flag \in BOOLEAN :
        /\ [p EXCEPT !.dep = d] \in Processes
        /\ [p EXCEPT !.dep = d, !.flag = flag] \in Processes
        /\ [p EXCEPT !.dep = d, !.copy = copy, !.carries = carries] \in Processes
  BY DEF Processes
<1>3. p.store \in Stores /\ p.conn \in BOOLEAN
  BY DEF Processes
<1> QED
  BY <1>1, <1>2, <1>3, BlankProcesses DEF Door

LEMMA LockTyped ==
    ASSUME Types, NEW w \in Workers \cup {None}, NEW p PROVE LockedBy(w, p) \in DepositT
BY DEF Types, DepositT, LockedBy

LEMMA ConnectionTyped ==
    ASSUME NEW p \in Processes
    PROVE  WithConnection(p) \in Processes /\ Birth(p) \subseteq Events /\ Released(p) \in Processes
BY DEF WithConnection, Birth, Released, Processes, Events, Stores

LEMMA OutboundTyped ==
    ASSUME Types, NEW w, NEW p, w \in Workers => p \in Processes,
           NEW kind \in {"reply", "error", "announce", "frozen", "refused", "quitting"},
           NEW who \in Senders, NEW events \in SUBSET Events,
           Outbound(w, p, kind, who, events)
    PROVE  proc' \in [Workers -> Processes] /\ up' \in [Workers -> Seq(Envelopes)]
<1>1. PICK fresh \in BOOLEAN :
        /\ proc' = [proc EXCEPT ![w] = [p EXCEPT !.dirty = @ /\ ~fresh]]
        /\ up' = [up EXCEPT ![w] = Append(@, [kind |-> kind, who |-> who, events |-> events,
                    photo |-> IF fresh THEN PhotoOf(p) ELSE "none"])]
  BY DEF Outbound
<1> DEFINE m == [kind |-> kind, who |-> who, events |-> events,
                 photo |-> IF fresh THEN PhotoOf(p) ELSE "none"]
<1>2. m \in Envelopes
  BY DEF PhotoOf, Photos, Envelopes
<1> HIDE DEF m
<1>3. w \in Workers => [p EXCEPT !.dirty = @ /\ ~fresh] \in Processes
  BY DEF Processes
<1>4. proc' \in [Workers -> Processes]
  BY <1>1, <1>3 DEF Types
<1>5. \A s \in Seq(Envelopes) : Append(s, m) \in Seq(Envelopes)
  BY <1>2
<1>6. up' = [up EXCEPT ![w] = Append(@, m)]
  BY <1>1 DEF m
<1> QED
  BY <1>4, <1>5, <1>6 DEF Types

LEMMA RequestTyped ==
    ASSUME NEW x \in RqT, NEW phase \in Phases, NEW w \in Workers \cup {None},
           NEW events \in SUBSET Events, NEW good \in BOOLEAN, NEW base \in SUBSET Requests
    PROVE  /\ [x EXCEPT !.phase = phase] \in RqT
           /\ [x EXCEPT !.phase = phase, !.events = events] \in RqT
           /\ [x EXCEPT !.phase = phase, !.good = good] \in RqT
           /\ [x EXCEPT !.phase = phase, !.on = w, !.base = base] \in RqT
BY DEF RqT

LEMMA PhasesAre ==
    /\ Ended \subseteq Phases
    /\ {"new", "queued", "sent", "pulling", "awaiting", "fetching", "serving",
        "failing", "leaving", "closing", "replied"} \subseteq Phases
BY DEF Phases

LEMMA AwakenedTyped ==
    ASSUME Types, NEW w, NEW phase \in Phases PROVE Awakened(w, phase) \in [Requests -> RqT]
<1>1. \A r \in Requests, good \in BOOLEAN : [rq[r] EXCEPT !.phase = phase, !.good = good] \in RqT
  <2>1. \A r \in Requests : rq[r] \in RqT
    BY DEF Types
  <2>2. {} \in SUBSET Events /\ {} \in SUBSET Requests
    OBVIOUS
  <2> QED
    BY <2>1, <2>2, RequestTyped, SendersAre
<1> QED
  BY <1>1 DEF Types, Awakened

LEMMA EndTyped ==
    ASSUME Types, NEW r, NEW phase \in Ended, End(r, phase) PROVE rq' \in [Requests -> RqT]
<1>1. \A x \in RqT : [x EXCEPT !.phase = phase] \in RqT
  BY PhasesAre DEF RqT
<1> QED
  BY <1>1 DEF Types, End

LEMMA SendTyped ==
    ASSUME Types, NEW r \in Requests, NEW w \in Workers, SendTo(r, w)
    PROVE  rq' \in [Requests -> RqT] /\ down' \in [Workers -> Seq(Mail)]
<1>1. CASE handler[w].state \in {"quitted", "aborted"}
  BY <1>1, EndTyped DEF SendTo, Types, Ended
<1>2. CASE handler[w].state \notin {"quitted", "aborted"}
  <2> DEFINE m == [kind |-> "request", who |-> r, frozen |-> vertex.frozen]
  <2>1. m \in Mail
    BY SendersAre DEF Types, VertexT, Mail, Orders
  <2> HIDE DEF m
  <2>2. \A s \in Seq(Mail) : Append(s, m) \in Seq(Mail)
    BY <2>1
  <2>3. down' = [down EXCEPT ![w] = Append(@, m)]
    BY <1>2 DEF SendTo, m
  <2>4. down' \in [Workers -> Seq(Mail)]
    BY <2>2, <2>3 DEF Types
  <2>5. rq' = [rq EXCEPT ![r] = [@ EXCEPT !.phase = "sent", !.on = w, !.base = Answered]]
    BY <1>2 DEF SendTo
  <2>6. Answered \subseteq Requests
    BY DEF Answered
  <2>7. [rq[r] EXCEPT !.phase = "sent", !.on = w, !.base = Answered] \in RqT
    <3>1. rq[r] \in RqT /\ w \in Workers \cup {None} /\ "sent" \in Phases
      BY PhasesAre DEF Types
    <3> QED
      BY <3>1, <2>6 DEF RqT
  <2>8. rq' \in [Requests -> RqT]
    BY <2>5, <2>7 DEF Types
  <2> QED
    BY <2>4, <2>8
<1> QED
  BY <1>1, <1>2

LEMMA PlaceTyped ==
    ASSUME Types, NEW r \in Requests, NEW w \in Workers, Place(r, w)
    PROVE  vertex' \in VertexT /\ rq' \in [Requests -> RqT] /\ down' \in [Workers -> Seq(Mail)]
<1>1. vertex' \in VertexT
  BY DEF Types, Place, VertexT
<1>2. rq' \in [Requests -> RqT] /\ down' \in [Workers -> Seq(Mail)]
  BY SendTyped, EndTyped DEF Types, Place, Ended
<1> QED
  BY <1>1, <1>2

LEMMA AssignTyped ==
    ASSUME Types, NEW r \in Requests, NEW waiting \in Seq(Requests), AssignUser(r, waiting)
    PROVE  /\ vertex' \in VertexT /\ placing' \in PlacingT /\ handler' \in [Workers -> HandlerT]
           /\ rq' \in [Requests -> RqT] /\ down' \in [Workers -> Seq(Mail)]
<1>1. ASSUME NEW w \in Open, Place(r, w), placing' = [placing EXCEPT !.queue = waiting],
             UNCHANGED handler
      PROVE  /\ vertex' \in VertexT /\ placing' \in PlacingT /\ handler' \in [Workers -> HandlerT]
             /\ rq' \in [Requests -> RqT] /\ down' \in [Workers -> Seq(Mail)]
  <2>1. w \in Workers
    BY DEF Open
  <2>2. placing' \in PlacingT
    BY <1>1 DEF Types, PlacingT
  <2> QED
    BY <1>1, <2>1, <2>2, PlaceTyped DEF Types
<1>2. ASSUME NEW w \in Unborn, placing' = [queue |-> waiting, launching |-> w, owner |-> r],
             handler' = [handler EXCEPT ![w].state = "starting"],
             rq' = [rq EXCEPT ![r].phase = "queued"], UNCHANGED <<vertex, down>>
      PROVE  /\ vertex' \in VertexT /\ placing' \in PlacingT /\ handler' \in [Workers -> HandlerT]
             /\ rq' \in [Requests -> RqT] /\ down' \in [Workers -> Seq(Mail)]
  <2>1. placing' \in PlacingT
    BY <1>2 DEF PlacingT, Unborn
  <2>2. handler' \in [Workers -> HandlerT]
    BY <1>2 DEF Types, HandlerT
  <2>3. rq' \in [Requests -> RqT]
    <3>1. \A x \in RqT : [x EXCEPT !.phase = "queued"] \in RqT
      BY PhasesAre DEF RqT
    <3> QED
      BY <1>2, <3>1 DEF Types
  <2> QED
    BY <1>2, <2>1, <2>2, <2>3 DEF Types
<1>3. ASSUME End(r, "refused"), placing' = [placing EXCEPT !.queue = waiting],
             UNCHANGED <<vertex, handler, down>>
      PROVE  /\ vertex' \in VertexT /\ placing' \in PlacingT /\ handler' \in [Workers -> HandlerT]
             /\ rq' \in [Requests -> RqT] /\ down' \in [Workers -> Seq(Mail)]
  <2>1. placing' \in PlacingT
    BY <1>3 DEF Types, PlacingT
  <2> QED
    BY <1>3, <2>1, EndTyped DEF Types, Ended
<1> QED
  BY <1>1, <1>2, <1>3 DEF AssignUser

LEMMA OrderTyped ==
    ASSUME Types, NEW w \in Workers, NEW kind \in {"freeze", "quit"}, NEW order \in OrderIds,
           GiveOrder(w, kind, order)
    PROVE  down' \in [Workers -> Seq(Mail)] /\ spent' \in SpentT
<1> DEFINE m == [kind |-> kind, who |-> order, frozen |-> FALSE]
<1>1. m \in Mail
  BY SendersAre DEF Mail, Orders
<1> HIDE DEF m
<1>2. down' = [down EXCEPT ![w] = Append(@, m)]
  BY DEF GiveOrder, m
<1>3. \A s \in Seq(Mail) : Append(s, m) \in Seq(Mail)
  BY <1>1
<1>4. spent' \in SpentT
  BY DEF Types, SpentT, GiveOrder
<1> QED
  BY <1>2, <1>3, <1>4 DEF Types

\* What a write cut short leaves: his older parcel, none, or the one being written.
LEMMA HalfTyped ==
    ASSUME Types, NEW w \in Workers, NEW left \in HalfWritten(proc[w])
    PROVE  /\ left \in DepositT /\ left.lock = deposit.lock
           /\ left.parcel \in {deposit.parcel, {}, {proc[w].copy}}
<1>1. proc[w].copy \in Stores /\ deposit \in DepositT
  BY DEF Types, Processes
<1>2. /\ deposit.torn \ {"store"} \in SUBSET {"store", "conn"}
      /\ deposit.torn \cup {"store"} \in SUBSET {"store", "conn"}
      /\ {proc[w].copy} \in SUBSET Stores /\ {} \in SUBSET Stores
  BY <1>1 DEF DepositT
<1>3. \A parcel \in SUBSET Stores, torn \in SUBSET {"store", "conn"}, conn \in BOOLEAN :
        /\ [deposit EXCEPT !.parcel = parcel, !.torn = torn] \in DepositT
        /\ [[deposit EXCEPT !.parcel = parcel, !.torn = deposit.torn \ {"store"}] EXCEPT
               !.conn = conn, !.torn = torn] \in DepositT
  BY <1>1, <1>2 DEF DepositT
<1>4. \/ left = deposit
      \/ left = [deposit EXCEPT !.parcel = {}, !.torn = deposit.torn \cup {"store"}]
      \/ left = [deposit EXCEPT !.parcel = {proc[w].copy}, !.torn = deposit.torn \ {"store"}]
      \/ \E conn \in BOOLEAN, torn \in {{"conn"}, {}} :
            left = [[deposit EXCEPT !.parcel = {proc[w].copy}, !.torn = deposit.torn \ {"store"}]
                       EXCEPT !.conn = conn, !.torn = torn]
  BY <1>1 DEF HalfWritten, DepositT
<1>5. \A torn \in {{"conn"}, {}} : torn \in SUBSET {"store", "conn"}
  OBVIOUS
<1>6. left \in DepositT
  <2>1. CASE left = deposit
    BY <1>1, <2>1
  <2>2. CASE left = [deposit EXCEPT !.parcel = {}, !.torn = deposit.torn \cup {"store"}]
    BY <1>2, <1>3, <2>2
  <2>3. CASE left = [deposit EXCEPT !.parcel = {proc[w].copy}, !.torn = deposit.torn \ {"store"}]
    BY <1>2, <1>3, <2>3
  <2>4. ASSUME NEW conn \in BOOLEAN, NEW torn \in {{"conn"}, {}},
               left = [[deposit EXCEPT !.parcel = {proc[w].copy}, !.torn = deposit.torn \ {"store"}]
                          EXCEPT !.conn = conn, !.torn = torn]
        PROVE  left \in DepositT
    BY <1>2, <1>3, <1>5, <2>4
  <2> QED
    BY <1>4, <2>1, <2>2, <2>3, <2>4
<1>7. left.lock = deposit.lock /\ left.parcel \in {deposit.parcel, {}, {proc[w].copy}}
  BY <1>1, <1>4 DEF DepositT
<1> QED
  BY <1>6, <1>7

LEMMA DieTyped ==
    ASSUME Types, NEW w \in Workers, Die(w)
    PROVE  /\ proc' \in [Workers -> Processes] /\ up' \in [Workers -> Seq(Envelopes)]
           /\ deposit' \in DepositT
<1>1. proc' \in [Workers -> Processes]
  BY BlankProcesses DEF Types, Die
<1>2. up' \in [Workers -> Seq(Envelopes)]
  <2>1. PICK sent \in 0 .. Len(up[w]) : up' = [up EXCEPT ![w] = SubSeq(@, 1, sent)]
    BY DEF Die
  <2>2. up[w] \in Seq(Envelopes)
    BY DEF Types
  <2>3. SubSeq(up[w], 1, sent) \in Seq(Envelopes)
    BY <2>2, Cut
  <2> QED
    BY <2>1, <2>3 DEF Types
<1>3. deposit' \in DepositT
  <2>1. proc[w].copy \in Stores /\ deposit \in DepositT
    BY DEF Types, Processes
  <2>2. deposit.parcel \in SUBSET Stores
    BY <2>1 DEF DepositT
  <2>3. \A parcel \in SUBSET Stores, lock \in Workers :
          [deposit EXCEPT !.parcel = parcel, !.lock = lock] \in DepositT
    BY <2>1 DEF DepositT
  <2>5. CASE deposit' = deposit
    BY <2>1, <2>5
  <2>6. CASE deposit' \in HalfWritten(proc[w])
    BY <2>6, HalfTyped
  <2>7. CASE \E left \in {{}, deposit.parcel} :
                deposit' = [deposit EXCEPT !.parcel = left, !.lock = w]
    <3>1. PICK left \in {{}, deposit.parcel} :
                deposit' = [deposit EXCEPT !.parcel = left, !.lock = w]
      BY <2>7
    <3>2. left \in SUBSET Stores
      BY <2>2, <3>1
    <3>3. [deposit EXCEPT !.parcel = left, !.lock = w] \in DepositT
      BY <2>3, <3>2
    <3> QED
      BY <3>1, <3>3
  <2> QED
    BY <2>5, <2>6, <2>7 DEF Die
<1> QED
  BY <1>1, <1>2, <1>3

LEMMA EndsTyped ==
    ASSUME Types, NEW w \in Workers, NEW p \in Processes, NEW answer \in {"frozen", "refused"},
           NEW events \in SUBSET Events, DepartureEnds(w, p, answer, events)
    PROVE  /\ proc' \in [Workers -> Processes] /\ up' \in [Workers -> Seq(Envelopes)]
           /\ rq' \in [Requests -> RqT]
<1>1. proc[w].dep.order \in Senders /\ 0 \in Senders
  BY SendersAre DEF Types, Processes, Departures
<1>2. CASE UNCHANGED rq /\ \E who \in Senders, kind \in {answer, "announce"} : Outbound(w, p, kind, who, events)
  BY <1>2, OutboundTyped DEF Types
<1>3. CASE /\ proc' = [proc EXCEPT ![w] = p]
           /\ UNCHANGED up
           /\ rq' = [r \in Requests |->
                IF proc[w].dep.by = "inline" /\ r \in {q \in Requests : rq[q].on = w /\ rq[q].phase = "leaving"}
                THEN [rq[r] EXCEPT !.phase = "closing"] ELSE rq[r]]
  <2>1. \A x \in RqT : [x EXCEPT !.phase = "closing"] \in RqT
    BY PhasesAre DEF RqT
  <2> QED
    BY <1>3, <2>1 DEF Types
<1> QED
  <2>1. {r \in Requests : rq[r].on = w /\ rq[r].phase = "leaving"} \subseteq Senders
    BY SendersAre
  <2> QED
    BY <1>1, <1>2, <1>3, <2>1 DEF DepartureEnds

LEMMA RoutingTypes ==
    ASSUME Types
    PROVE  /\ \A r \in Requests : ResolveWorker(r) \/ HoldTimeout(r) => Types'
           /\ NextPlacement => Types'
<1>1. ASSUME NEW r \in Requests, ResolveWorker(r) PROVE Types'
  <2>1. CASE End(r, "stranger") /\ UNCHANGED <<vertex, placing, handler, down>>
    BY <1>1, <2>1, EndTyped DEF ResolveWorker, Types, Ended
  <2>2. CASE /\ vertex.placement # None /\ SendTo(r, vertex.placement)
             /\ UNCHANGED <<vertex, placing, handler>>
    <3>1. vertex.placement \in Workers
      BY <2>2 DEF Types, VertexT
    <3> QED
      BY <1>1, <2>2, <3>1, SendTyped DEF ResolveWorker, Types
  <2>3. CASE AssignUser(r, <<>>)
    <3>1. <<>> \in Seq(Requests)
      OBVIOUS
    <3> QED
      BY <1>1, <2>3, <3>1, AssignTyped DEF ResolveWorker, Types
  <2>4. CASE /\ placing' = [placing EXCEPT !.queue = Append(@, r)]
             /\ rq' = [rq EXCEPT ![r].phase = "queued"]
             /\ UNCHANGED <<vertex, handler, down>>
    <3>1. \A x \in RqT : [x EXCEPT !.phase = "queued"] \in RqT
      BY PhasesAre DEF RqT
    <3>2. rq' \in [Requests -> RqT]
      BY <2>4, <3>1 DEF Types
    <3>3. placing' \in PlacingT
      <4>1. Append(placing.queue, r) \in Seq(Requests)
        <5>1. placing.queue \in Seq(Requests)
          BY DEF Types, PlacingT
        <5> QED
          BY <5>1
      <4> QED
        BY <2>4, <4>1 DEF Types, PlacingT
    <3> QED
      BY <1>1, <2>4, <3>2, <3>3 DEF ResolveWorker, Types
  <2> QED
    BY <1>1, <2>1, <2>2, <2>3, <2>4 DEF ResolveWorker
<1>2. ASSUME NEW r \in Requests, HoldTimeout(r) PROVE Types'
  BY <1>2, EndTyped DEF HoldTimeout, Types, Ended
<1>3. ASSUME NextPlacement PROVE Types'
  <2>1. Head(placing.queue) \in Requests /\ Tail(placing.queue) \in Seq(Requests)
    BY <1>3 DEF Types, PlacingT, NextPlacement
  <2> QED
    BY <1>3, <2>1, AssignTyped DEF NextPlacement, Types
<1> QED
  BY <1>1, <1>2, <1>3

LEMMA GroupTypes ==
    ASSUME Types, NEW w \in Workers
    PROVE  /\ LaunchForAnother(w) \/ Present(w) \/ LaunchFails(w) => Types'
           /\ FreezeHostedUser(w) \/ FreezeOrderExpires(w) \/ OrderQuit(w) => Types'
<1>0. /\ \A state \in {"unborn", "starting", "running", "quitting", "quitted", "aborted", "dropped"} :
           [handler EXCEPT ![w].state = state] \in [Workers -> HandlerT]
      /\ \A order \in OrderIds : [handler EXCEPT ![w].freezing = order] \in [Workers -> HandlerT]
      /\ [handler EXCEPT ![w].state = "quitting", ![w].expected = TRUE] \in [Workers -> HandlerT]
  BY DEF Types, HandlerT
<1>1. ASSUME LaunchForAnother(w) PROVE Types'
  <2>1. placing' \in PlacingT
    BY <1>1 DEF LaunchForAnother, Types, PlacingT
  <2> QED
    BY <1>0, <1>1, <2>1 DEF LaunchForAnother, Types
<1>2. placing.owner \in Requests \cup {None}
  BY DEF Types, PlacingT
<1>3. [placing EXCEPT !.launching = None, !.owner = None] \in PlacingT
  BY DEF Types, PlacingT
<1>4. ASSUME Present(w) PROVE Types'
  <2>1. proc' \in [Workers -> Processes]
    BY <1>4, BlankProcesses DEF Present, Types
  <2>2. /\ placing' \in PlacingT /\ vertex' \in VertexT /\ rq' \in [Requests -> RqT]
        /\ down' \in [Workers -> Seq(Mail)]
    BY <1>2, <1>3, <1>4, PlaceTyped DEF Present, Types
  <2> QED
    BY <1>0, <1>4, <2>1, <2>2 DEF Present, Types
<1>5. ASSUME LaunchFails(w) PROVE Types'
  <2>1. /\ placing' \in PlacingT /\ vertex' \in VertexT /\ rq' \in [Requests -> RqT]
        /\ down' \in [Workers -> Seq(Mail)]
    <3>1. CASE UNCHANGED <<vertex, rq, down>>
      BY <1>3, <1>5, <3>1 DEF LaunchFails, Types
    <3>2. CASE placing.owner # None /\ \E v \in Open : Place(placing.owner, v)
      BY <1>2, <1>3, <1>5, <3>2, PlaceTyped DEF LaunchFails, Types, Open
    <3>3. CASE placing.owner # None /\ End(placing.owner, "refused") /\ UNCHANGED <<vertex, down>>
      BY <1>2, <1>3, <1>5, <3>3, EndTyped DEF LaunchFails, Types, Ended
    <3> QED
      BY <1>5, <3>1, <3>2, <3>3 DEF LaunchFails
  <2> QED
    BY <1>0, <1>5, <2>1 DEF LaunchFails, Types
<1>6. \A hold \in BOOLEAN : [vertex EXCEPT !.hold = hold] \in VertexT
  BY DEF Types, VertexT
<1>7. ASSUME FreezeHostedUser(w) PROVE Types'
  <2>1. spent.orders + 1 \in OrderIds
    BY <1>7, SendersAre DEF FreezeHostedUser, Types, SpentT, OrderIds
  <2>2. down' \in [Workers -> Seq(Mail)] /\ spent' \in SpentT
    BY <1>7, <2>1, OrderTyped DEF FreezeHostedUser
  <2> QED
    BY <1>0, <1>6, <1>7, <2>1, <2>2 DEF FreezeHostedUser, Types
<1>8. ASSUME FreezeOrderExpires(w) PROVE Types'
  BY <1>0, <1>6, <1>8, SendersAre DEF FreezeOrderExpires, Types
<1>9. ASSUME OrderQuit(w) PROVE Types'
  <2>1. spent.orders + 1 \in OrderIds
    BY <1>9, SendersAre DEF OrderQuit, Types, SpentT, OrderIds
  <2>2. down' \in [Workers -> Seq(Mail)] /\ spent' \in SpentT
    BY <1>9, <2>1, OrderTyped DEF OrderQuit
  <2> QED
    BY <1>0, <1>9, <2>2 DEF OrderQuit, Types
<1> QED
  BY <1>1, <1>4, <1>5, <1>7, <1>8, <1>9

LEMMA NewsTypes ==
    ASSUME Types, NEW w \in Workers, Fold(w) \/ Lose(w) \/ ReportDeath(w)
    PROVE  Types'
<1>1. CASE Fold(w)
  <2> DEFINE m == Head(up[w])
  <2>1. m \in Envelopes /\ Tail(up[w]) \in Seq(Envelopes)
    <3>1. up[w] \in Seq(Envelopes) /\ up[w] # <<>>
      BY <1>1 DEF Types, Fold
    <3> QED
      BY <3>1, Tailed
  <2>2. up' \in [Workers -> Seq(Envelopes)]
    BY <1>1, <2>1 DEF Types, Fold
  <2>3. m.photo \in Photos /\ m.events \in SUBSET Events
    BY <2>1 DEF Envelopes
  <2> HIDE DEF m
  <2>4. vertex' \in VertexT
    <3>1. vertex.placement \in Workers \cup {None} /\ vertex.known \in BOOLEAN
      BY DEF Types, VertexT
    <3>2. vertex' =
             [known |-> vertex.known \/ ("new_connection" \in m.events
                          /\ ~(~vertex.known /\ (m.photo = "ceded" \/ Marks(m) # {}))),
              frozen |-> vertex.known /\ FrozenAfter(m),
              hold |-> vertex.known /\ HoldAfter(m) /\ ~(Answers(w, m) /\ m.kind = "refused"),
              placement |-> IF "user_frozen" \in m.events THEN None
                            ELSE IF "new_connection" \in m.events THEN w ELSE vertex.placement]
      BY <1>1 DEF Fold, m
    <3>3. \A a, b, c \in BOOLEAN, d \in Workers \cup {None} :
             [known |-> a, frozen |-> b, hold |-> c, placement |-> d] \in VertexT
      BY DEF VertexT
    <3>4. /\ (vertex.known /\ FrozenAfter(m)) \in BOOLEAN
          /\ (vertex.known /\ HoldAfter(m) /\ ~(Answers(w, m) /\ m.kind = "refused")) \in BOOLEAN
      OBVIOUS
    <3> QED
      BY <3>1, <3>2, <3>3, <3>4
  <2>5. handler' \in [Workers -> HandlerT]
    <3>1. handler[w] \in HandlerT
      BY DEF Types
    <3>2. \A photo \in Photos, hosted \in BOOLEAN, freezing \in OrderIds :
             [handler[w] EXCEPT !.photo = photo, !.hosted = hosted, !.freezing = freezing] \in HandlerT
      BY <3>1 DEF HandlerT
    <3>3. handler[w].photo \in Photos /\ handler[w].freezing \in OrderIds /\ 0 \in OrderIds
      BY <3>1, SendersAre DEF HandlerT
    <3>4. handler' = [handler EXCEPT
             ![w].photo = IF m.photo = "none" THEN @ ELSE m.photo,
             ![w].hosted = "user_frozen" \notin m.events
                             /\ (@ \/ m.events \cap {"new_user", "user_adopted"} # {}),
             ![w].freezing = IF Answers(w, m) THEN 0 ELSE @]
      BY <1>1 DEF Fold, m
    <3>5. handler' = [handler EXCEPT ![w] = [handler[w] EXCEPT
             !.photo = IF m.photo = "none" THEN @ ELSE m.photo,
             !.hosted = "user_frozen" \notin m.events
                             /\ (@ \/ m.events \cap {"new_user", "user_adopted"} # {}),
             !.freezing = IF Answers(w, m) THEN 0 ELSE @]]
      BY <3>1, <3>4 DEF Types, HandlerT
    <3> QED
      BY <2>3, <3>2, <3>3, <3>5 DEF Types
  <2>6. rq' \in [Requests -> RqT]
    <3>1. \A x \in RqT : /\ [x EXCEPT !.phase = "done", !.events = {}] \in RqT
                         /\ [x EXCEPT !.phase = "failed", !.events = {}] \in RqT
                         /\ [x EXCEPT !.phase = "closing"] \in RqT
      BY PhasesAre DEF RqT, Ended
    <3>2. \/ rq' = rq
          \/ rq' = [rq EXCEPT ![m.who] = [@ EXCEPT !.phase = "done", !.events = {}]]
          \/ rq' = [rq EXCEPT ![m.who] = [@ EXCEPT !.phase = "failed", !.events = {}]]
          \/ rq' = [rq EXCEPT ![m.who].phase = "closing"]
      BY <1>1 DEF Fold, m
    <3>3. CASE rq' = rq
      BY <3>3 DEF Types
    <3>4. CASE rq' = [rq EXCEPT ![m.who] = [@ EXCEPT !.phase = "done", !.events = {}]]
      BY <3>1, <3>4 DEF Types
    <3>5. CASE rq' = [rq EXCEPT ![m.who] = [@ EXCEPT !.phase = "failed", !.events = {}]]
      BY <3>1, <3>5 DEF Types
    <3>6. CASE rq' = [rq EXCEPT ![m.who].phase = "closing"]
      BY <3>1, <3>6 DEF Types
    <3> QED
      BY <3>2, <3>3, <3>4, <3>5, <3>6
  <2> QED
    BY <1>1, <2>2, <2>4, <2>5, <2>6 DEF Types, Fold
<1>2. CASE Lose(w)
  <2>1. handler' \in [Workers -> HandlerT]
    <3>1. \A x \in HandlerT : /\ [x EXCEPT !.state = "quitted", !.freezing = 0] \in HandlerT
                              /\ [x EXCEPT !.state = "aborted", !.freezing = 0] \in HandlerT
      BY SendersAre DEF HandlerT
    <3>2. handler' = [handler EXCEPT ![w] = [handler[w] EXCEPT
             !.state = IF handler[w].expected THEN "quitted" ELSE "aborted", !.freezing = 0]]
      BY <1>2 DEF Lose, Types, HandlerT
    <3> QED
      BY <3>1, <3>2 DEF Types
  <2>2. vertex' \in VertexT
    BY <1>2 DEF Types, Lose, VertexT
  <2>3. rq' \in [Requests -> RqT]
    <3>1. \A x \in RqT : [x EXCEPT !.phase = "failed", !.events = {}] \in RqT
      BY PhasesAre DEF RqT, Ended
    <3> QED
      BY <1>2, <3>1 DEF Types, Lose
  <2>4. down' \in [Workers -> Seq(Mail)]
    <3>1. <<>> \in Seq(Mail)
      OBVIOUS
    <3> QED
      BY <1>2, <3>1 DEF Types, Lose
  <2> QED
    BY <1>2, <2>1, <2>2, <2>3, <2>4 DEF Types, Lose
<1>3. CASE ReportDeath(w)
  <2>1. handler' \in [Workers -> HandlerT]
    <3>1. \A x \in HandlerT : /\ [x EXCEPT !.state = "starting"] \in HandlerT
                              /\ [x EXCEPT !.state = "dropped"] \in HandlerT
      BY DEF HandlerT
    <3>2. PICK fresh \in Workers :
             handler' = [handler EXCEPT ![fresh].state = "starting", ![w].state = "dropped"]
      BY <1>3 DEF ReportDeath, Unborn
    <3> DEFINE h == [handler EXCEPT ![fresh].state = "starting"]
    <3>3. h \in [Workers -> HandlerT]
      BY <3>1 DEF Types
    <3>4. handler' = [h EXCEPT ![w].state = "dropped"]
      BY <3>2
    <3> HIDE DEF h
    <3> QED
      BY <3>1, <3>3, <3>4
  <2>2. vertex' \in VertexT
    BY <1>3 DEF Types, ReportDeath, VertexT
  <2>3. deposit' \in DepositT
    BY <1>3 DEF Types, ReportDeath, DepositT
  <2>4. purged' \in BOOLEAN
    BY <1>3 DEF Types, ReportDeath
  <2> QED
    BY <1>3, <2>1, <2>2, <2>3, <2>4 DEF Types, ReportDeath
<1> QED
  BY <1>1, <1>2, <1>3
LEMMA ServiceTypes ==
    ASSUME Types, NEW r \in Requests
    PROVE  /\ TakeStore(r) \/ AdoptionFails(r) \/ TakeConnection(r) \/ FetchFails(r) => Types'
           /\ SendReply(r) => Types'
           /\ \A opens \in BOOLEAN : CloseRequest(r, opens) => Types'
<1> DEFINE w == rq[r].on
<1>0. /\ w \in Workers \cup {None} /\ rq[r] \in RqT /\ rq[r].events \in SUBSET Events
      /\ r \in Senders
  BY SendersAre DEF Types, RqT
<1>1. \A x \in RqT, phase \in Phases, good \in BOOLEAN, events \in SUBSET Events :
        /\ [x EXCEPT !.phase = phase, !.events = events] \in RqT
        /\ [x EXCEPT !.phase = phase, !.good = good] \in RqT
        /\ [x EXCEPT !.phase = phase] \in RqT
  BY DEF RqT
<1>2. w \in Workers => proc[w] \in Processes
  BY DEF Types
<1>3. \A p \in Processes : Stage(p) \in Phases
  BY PhasesAre DEF Stage
<1> HIDE DEF w
<1>4. ASSUME TakeStore(r) PROVE Types'
  <2> DEFINE p == [proc[w] EXCEPT !.row = "active", !.dirty = TRUE,
                     !.store = IF deposit.parcel = {} THEN @ ELSE UNION deposit.parcel]
  <2>1. deposit.parcel \in SUBSET Stores
    BY DEF Types, DepositT
  <2>2. w \in Workers => p \in Processes
    BY <1>2, <2>1 DEF Processes, Stores
  <2>3. Stage(p) \in Phases
    BY PhasesAre DEF Stage
  <2>4. /\ proc' = [proc EXCEPT ![w] = p] /\ deposit' = [deposit EXCEPT !.parcel = {}]
        /\ rq' = [Awakened(w, Stage(p)) EXCEPT
              ![r] = [@ EXCEPT !.phase = Stage(p), !.events = rq[r].events \cup {"user_adopted"}]]
        /\ UNCHANGED <<vertex, placing, handler, down, up, purged, spent>>
    BY <1>4 DEF TakeStore, w
  <2> HIDE DEF p
  <2>5. Awakened(w, Stage(p)) \in [Requests -> RqT]
    BY <2>3, AwakenedTyped
  <2>6. \A x \in RqT : [x EXCEPT !.phase = Stage(p), !.events = rq[r].events \cup {"user_adopted"}] \in RqT
    BY <1>0, <2>3 DEF RqT, Events
  <2>7. rq' \in [Requests -> RqT]
    <3> DEFINE a == Awakened(w, Stage(p))
    <3>1. a \in [Requests -> RqT]
               /\ rq' = [a EXCEPT ![r] = [@ EXCEPT !.phase = Stage(p), !.events = rq[r].events \cup {"user_adopted"}]]
      BY <2>4, <2>5
    <3> HIDE DEF a
    <3>2. a[r] \in RqT
      BY <3>1
    <3> DEFINE x == [a[r] EXCEPT !.phase = Stage(p), !.events = rq[r].events \cup {"user_adopted"}]
    <3>3. x \in RqT
      BY <2>6, <3>2
    <3>4. rq' = [a EXCEPT ![r] = x]
      BY <3>1
    <3> HIDE DEF x
    <3> QED
      BY <3>1, <3>3, <3>4
  <2>8. proc' \in [Workers -> Processes]
    BY <2>2, <2>4 DEF Types
  <2>9. deposit' \in DepositT
    BY <2>4 DEF Types, DepositT
  <2> QED
    BY <2>4, <2>7, <2>8, <2>9 DEF Types
<1>5. ASSUME AdoptionFails(r) PROVE Types'
  <2>1. /\ proc' = [proc EXCEPT ![w] = Released(@)]
        /\ rq' = [Awakened(w, "failing") EXCEPT
              ![r] = [@ EXCEPT !.phase = "failing", !.good = FALSE]]
        /\ UNCHANGED <<vertex, placing, handler, down, up, deposit, purged, spent>>
    BY <1>5 DEF AdoptionFails, w
  <2>2. Awakened(w, "failing") \in [Requests -> RqT]
    BY AwakenedTyped, PhasesAre
  <2>3. rq' \in [Requests -> RqT]
    BY <1>1, <2>1, <2>2, PhasesAre
  <2>4. proc' \in [Workers -> Processes]
    BY <2>1, ConnectionTyped DEF Types
  <2> QED
    BY <2>1, <2>3, <2>4 DEF Types
<1>6. ASSUME TakeConnection(r) PROVE Types'
  <2> DEFINE found == deposit.conn /\ ~proc[w].conn
  <2>1. /\ proc' = IF found THEN [proc EXCEPT ![w] = WithConnection(proc[w])] ELSE proc
        /\ deposit' = IF found THEN [deposit EXCEPT !.conn = FALSE] ELSE deposit
        /\ rq' = [rq EXCEPT ![r] = [@ EXCEPT !.phase = "serving",
                     !.events = IF found THEN rq[r].events \cup Birth(proc[w]) ELSE rq[r].events]]
        /\ UNCHANGED <<vertex, placing, handler, down, up, purged, spent>>
    BY <1>6 DEF TakeConnection, w
  <2>2. Birth(proc[w]) \subseteq Events
    BY DEF Birth, Events
  <2>3. [rq[r] EXCEPT !.phase = "serving", !.events = IF found THEN rq[r].events \cup Birth(proc[w]) ELSE rq[r].events] \in RqT
    <3> HIDE DEF found
    <3> QED
      BY <1>0, <2>2, PhasesAre DEF RqT
  <2>5. rq' \in [Requests -> RqT]
    <3> DEFINE x == [rq[r] EXCEPT !.phase = "serving",
                       !.events = IF found THEN rq[r].events \cup Birth(proc[w]) ELSE rq[r].events]
    <3>1. rq' = [rq EXCEPT ![r] = x]
      BY <2>1
    <3>2. x \in RqT
      BY <2>3
    <3> HIDE DEF x
    <3> QED
      BY <3>1, <3>2 DEF Types
  <2>6. proc' \in [Workers -> Processes]
    BY <1>2, <2>1, ConnectionTyped DEF Types
  <2>7. deposit' \in DepositT
    BY <2>1 DEF Types, DepositT
  <2> QED
    BY <2>1, <2>5, <2>6, <2>7 DEF Types
<1>7. ASSUME FetchFails(r) PROVE Types'
  <2>1. rq' \in [Requests -> RqT]
    BY <1>1, <1>7, PhasesAre DEF FetchFails, Types
  <2> QED
    BY <1>7, <2>1 DEF FetchFails, Types
<1>8. ASSUME SendReply(r) PROVE Types'
  <2>1. PICK kind \in {"reply", "error"} : Outbound(w, proc[w], kind, r, rq[r].events)
    BY <1>8 DEF SendReply, w
  <2>2. proc' \in [Workers -> Processes] /\ up' \in [Workers -> Seq(Envelopes)]
    <3>1. kind \in {"reply", "error", "announce", "frozen", "refused", "quitting"}
      BY <2>1
    <3> QED
      BY <1>0, <1>2, <2>1, <3>1, OutboundTyped
  <2>3. rq' \in [Requests -> RqT]
    BY <1>1, <1>8, PhasesAre DEF SendReply, Types
  <2> QED
    BY <1>8, <2>2, <2>3 DEF SendReply, Types
<1>9. ASSUME NEW opens \in BOOLEAN, CloseRequest(r, opens) PROVE Types'
  <2> DEFINE good == rq[r].phase = "serving"
             writes == good /\ (opens \/ proc[w].conn)
             born == IF writes THEN Birth(proc[w]) ELSE {}
             served == IF writes THEN [WithConnection(proc[w]) EXCEPT !.store = @ \cup {r}] ELSE proc[w]
             p == [served EXCEPT !.pend = @ \ {r}]
             last == r \in proc[w].pend /\ p.pend = {}
             leaves == Door(p, [by |-> "inline", order |-> 0, step |-> "none"])
             events == rq[r].events \cup born
  <2>1. CASE /\ proc' = [proc EXCEPT ![w] = leaves]
             /\ deposit' = LockedBy(w, leaves)
             /\ rq' = [rq EXCEPT ![r] = [@ EXCEPT !.events = events,
                       !.phase = IF leaves.dep = NoDeparture THEN "closing" ELSE "leaving"]]
             /\ UNCHANGED up
    <3>1. UNCHANGED <<vertex, placing, handler, down, purged, spent>>
      BY <1>9 DEF CloseRequest
    <3>2. w \in Workers => p \in Processes
      <4>1. w \in Workers => served \in Processes
        BY <1>2, ConnectionTyped DEF Processes, Stores
      <4> HIDE DEF served
      <4> QED
        BY <4>1 DEF Processes
    <3>3. [by |-> "inline", order |-> 0, step |-> "none"] \in Departures
      BY SendersAre DEF Departures
    <3> HIDE DEF p
    <3>4. w \in Workers => leaves \in Processes
      BY <3>2, <3>3, DoorTyped
    <3>5. events \in SUBSET Events
      BY <1>0 DEF Birth, Events
    <3> HIDE DEF leaves, events
    <3>6. proc' \in [Workers -> Processes]
      BY <2>1, <3>4 DEF Types
    <3>7. deposit' \in DepositT
      BY <1>0, <2>1, LockTyped
    <3>8. rq' \in [Requests -> RqT]
      <4>1. \A phase \in Phases : [rq[r] EXCEPT !.events = events, !.phase = phase] \in RqT
        BY <1>0, <3>5 DEF RqT
      <4> QED
        BY <2>1, <4>1, PhasesAre DEF Types
    <3> QED
      BY <2>1, <3>1, <3>6, <3>7, <3>8 DEF Types
  <2>2. CASE /\ Outbound(w, p, IF good THEN "reply" ELSE "error", r, events)
             /\ rq' = [rq EXCEPT ![r] = [@ EXCEPT !.phase = "replied", !.events = events]]
             /\ UNCHANGED deposit
    <3>1. UNCHANGED <<vertex, placing, handler, down, purged, spent>>
      BY <1>9 DEF CloseRequest
    <3>2. w \in Workers => p \in Processes
      <4>1. w \in Workers => served \in Processes
        BY <1>2, ConnectionTyped DEF Processes, Stores
      <4> HIDE DEF served
      <4> QED
        BY <4>1 DEF Processes
    <3>3. events \in SUBSET Events
      BY <1>0 DEF Birth, Events
    <3>4. (IF good THEN "reply" ELSE "error") \in {"reply", "error"}
      OBVIOUS
    <3> HIDE DEF p, events, good
    <3>5. proc' \in [Workers -> Processes] /\ up' \in [Workers -> Seq(Envelopes)]
      <4>1. PICK kind \in {"reply", "error"} : Outbound(w, p, kind, r, events)
        BY <2>2, <3>4
      <4> QED
        <5>1. kind \in {"reply", "error", "announce", "frozen", "refused", "quitting"}
          BY <4>1
        <5> QED
          BY <1>0, <3>2, <3>3, <4>1, <5>1, OutboundTyped
    <3>6. rq' \in [Requests -> RqT]
      BY <1>1, <2>2, <3>3, PhasesAre DEF Types
    <3> QED
      BY <2>2, <3>1, <3>5, <3>6 DEF Types
  <2> QED
    BY <1>9, <2>1, <2>2 DEF CloseRequest, w
<1> QED
  BY <1>4, <1>5, <1>6, <1>7, <1>8, <1>9

LEMMA LaneTyped ==
    ASSUME Types, NEW w \in Workers, down[w] # <<>>
    PROVE  Head(down[w]) \in Mail /\ [down EXCEPT ![w] = Tail(@)] \in [Workers -> Seq(Mail)]
<1>1. down[w] \in Seq(Mail)
  BY DEF Types
<1>2. Head(down[w]) \in Mail /\ Tail(down[w]) \in Seq(Mail)
  BY <1>1, Tailed
<1> QED
  BY <1>2 DEF Types

LEMMA ProcessTypes ==
    ASSUME Types, NEW w \in Workers
    PROVE  /\ ReceiveRequest(w) \/ ReceiveOrder(w) \/ ActOnOrder(w) \/ Transfer(w) => Types'
           /\ DepartureGoesOn(w) \/ ParcelsWritten(w) \/ DepartureFails(w) => Types'
           /\ CutStragglers(w) \/ ExitProcess(w) \/ Crash(w) \/ QuitOverdue(w) => Types'
<1>0. proc[w] \in Processes /\ w \in Workers \cup {None}
  BY DEF Types
<1>1. ASSUME ReceiveRequest(w) PROVE Types'
  <2> DEFINE m == Head(down[w])
             p == [proc[w] EXCEPT !.pend = @ \cup {m.who}]
             wakes == m.frozen /\ p.row = "absent"
             phase == IF wakes THEN "pulling"
                      ELSE IF m.frozen /\ p.row = "unfreezing" THEN "awaiting" ELSE Stage(p)
  <2>1. m \in Mail /\ m.kind = "request" /\ down' \in [Workers -> Seq(Mail)]
    BY <1>1, LaneTyped DEF ReceiveRequest
  <2>2. m.who \in Requests
    BY <2>1 DEF Mail
  <2>3. p \in Processes /\ [p EXCEPT !.row = "unfreezing"] \in Processes
    BY <1>0, <2>2 DEF Processes
  <2>4. phase \in Phases
    BY PhasesAre DEF Stage
  <2>5. /\ proc' = [proc EXCEPT ![w] = IF wakes THEN [p EXCEPT !.row = "unfreezing"] ELSE p]
        /\ rq' = [rq EXCEPT ![m.who].phase = phase]
    BY <1>1 DEF ReceiveRequest
  <2> HIDE DEF m, p, wakes, phase
  <2>6. proc' \in [Workers -> Processes]
    BY <2>3, <2>5 DEF Types
  <2>7. \A x \in RqT : [x EXCEPT !.phase = phase] \in RqT
    BY <2>4 DEF RqT
  <2>8. rq' \in [Requests -> RqT]
    BY <2>5, <2>7 DEF Types
  <2> QED
    BY <1>1, <2>1, <2>6, <2>8 DEF ReceiveRequest, Types
<1>2. ASSUME ReceiveOrder(w) PROVE Types'
  <2> DEFINE m == Head(down[w])
  <2>1. m \in Mail /\ down' \in [Workers -> Seq(Mail)]
    BY <1>2, LaneTyped DEF ReceiveOrder
  <2>2. UNCHANGED <<vertex, placing, handler, rq, deposit, purged, spent>>
    BY <1>2 DEF ReceiveOrder
  <2>3. CASE m.kind = "freeze" /\ proc' = [proc EXCEPT ![w].orders = @ \cup {m.who}] /\ UNCHANGED up
    <3>1. m.who \in OrderIds
      BY <2>1, <2>3 DEF Mail
    <3>2. [proc[w] EXCEPT !.orders = @ \cup {m.who}] \in Processes
      BY <1>0, <3>1 DEF Processes
    <3>3. proc' \in [Workers -> Processes]
      <4> DEFINE x == [proc[w] EXCEPT !.orders = @ \cup {m.who}]
      <4>1. proc' = [proc EXCEPT ![w] = x] /\ x \in Processes
        BY <2>3, <3>2
      <4> HIDE DEF x
      <4> QED
        BY <4>1 DEF Types
    <3> QED
      BY <2>1, <2>2, <2>3, <3>3 DEF Types
  <2>4. ASSUME NEW ceded \in BOOLEAN,
               Outbound(w, [proc[w] EXCEPT !.quitting = TRUE, !.flag = ceded, !.dirty = @ \/ ceded],
                        "quitting", m.who, {})
        PROVE Types'
    <3> DEFINE x == [proc[w] EXCEPT !.quitting = TRUE, !.flag = ceded, !.dirty = @ \/ ceded]
    <3>1. x \in Processes
      BY <1>0 DEF Processes
    <3>2. m.who \in Senders
      BY <2>1 DEF Mail, Orders
    <3>3. Outbound(w, x, "quitting", m.who, {})
      BY <2>4
    <3>4. "quitting" \in {"reply", "error", "announce", "frozen", "refused", "quitting"} /\ {} \in SUBSET Events
      OBVIOUS
    <3> HIDE DEF x, m
    <3>5. proc' \in [Workers -> Processes] /\ up' \in [Workers -> Seq(Envelopes)]
      BY <3>1, <3>2, <3>3, <3>4, OutboundTyped
    <3> QED
      BY <2>1, <2>2, <3>5 DEF Types
  <2> QED
    <3>1. (proc[w].row # "absent") \in BOOLEAN
      OBVIOUS
    <3> QED
      BY <1>2, <2>3, <2>4, <3>1 DEF ReceiveOrder
<1>3. ASSUME ActOnOrder(w) PROVE Types'
  <2>1. PICK order \in proc[w].orders :
          LET q == [proc[w] EXCEPT !.orders = @ \ {order}]
              leaves == Door(q, [by |-> "order", order |-> order, step |-> "none"])
          IN  /\ \/ Outbound(w, q, "refused", order, {}) /\ UNCHANGED deposit
                 \/ proc' = [proc EXCEPT ![w] = leaves] /\ deposit' = LockedBy(w, leaves) /\ UNCHANGED up
              /\ UNCHANGED <<vertex, placing, handler, rq, down, purged, spent>>
    BY <1>3 DEF ActOnOrder
  <2> DEFINE q == [proc[w] EXCEPT !.orders = @ \ {order}]
             leaves == Door(q, [by |-> "order", order |-> order, step |-> "none"])
  <2>2. order \in OrderIds /\ order \in Senders
    BY <1>0, SendersAre DEF Processes
  <2>3. q \in Processes
    BY <1>0 DEF Processes
  <2>4. [by |-> "order", order |-> order, step |-> "none"] \in Departures
    BY <2>2 DEF Departures
  <2> HIDE DEF q
  <2>5. leaves \in Processes
    BY <2>3, <2>4, DoorTyped
  <2> HIDE DEF leaves
  <2>6. CASE Outbound(w, q, "refused", order, {}) /\ UNCHANGED deposit
    <3>1. "refused" \in {"reply", "error", "announce", "frozen", "refused", "quitting"} /\ {} \in SUBSET Events
      OBVIOUS
    <3>2. proc' \in [Workers -> Processes] /\ up' \in [Workers -> Seq(Envelopes)]
      BY <2>2, <2>3, <2>6, <3>1, OutboundTyped
    <3> QED
      BY <2>1, <2>6, <3>2 DEF Types
  <2>7. CASE proc' = [proc EXCEPT ![w] = leaves] /\ deposit' = LockedBy(w, leaves) /\ UNCHANGED up
    <3>1. deposit' \in DepositT
      BY <1>0, <2>7, LockTyped
    <3> QED
      BY <2>1, <2>5, <2>7, <3>1 DEF Types
  <2> QED
    BY <2>1, <2>6, <2>7 DEF q, leaves
<1>4. ASSUME Transfer(w) PROVE Types'
  <2> DEFINE leaves == Door(proc[w], [by |-> "cycle", order |-> 0, step |-> "none"])
  <2>1. [by |-> "cycle", order |-> 0, step |-> "none"] \in Departures
    BY SendersAre DEF Departures
  <2>2. leaves \in Processes
    BY <1>0, <2>1, DoorTyped
  <2>3. /\ proc' = [proc EXCEPT ![w] = leaves] /\ deposit' = LockedBy(w, leaves)
        /\ UNCHANGED <<vertex, placing, handler, rq, down, up, purged, spent>>
    BY <1>4 DEF Transfer
  <2> HIDE DEF leaves
  <2>4. deposit' \in DepositT
    BY <1>0, <2>3, LockTyped
  <2> QED
    BY <2>2, <2>3, <2>4 DEF Types
<1>5. ASSUME DepartureGoesOn(w) PROVE Types'
  <2> DEFINE leaves == Door(proc[w], proc[w].dep)
             held == [proc[w] EXCEPT !.dep.step = "writing", !.copy = proc[w].store, !.carries = proc[w].conn]
  <2>1. leaves \in Processes
    <3>1. proc[w].dep \in Departures
      BY <1>0 DEF Processes
    <3> QED
      BY <1>0, <3>1, DoorTyped
  <2>2. held \in Processes
    <3>1. proc[w].dep \in Departures /\ proc[w].store \in Stores /\ proc[w].conn \in BOOLEAN
      BY <1>0 DEF Processes
    <3>2. [proc[w].dep EXCEPT !.step = "writing"] \in Departures
      BY <3>1 DEF Departures
    <3>3. held = [proc[w] EXCEPT !.dep = [proc[w].dep EXCEPT !.step = "writing"],
                         !.copy = proc[w].store, !.carries = proc[w].conn]
      BY <1>0
    <3> QED
      BY <1>0, <3>1, <3>2, <3>3 DEF Processes
  <2>3. PICK x \in {leaves, held} :
          /\ proc' = [proc EXCEPT ![w] = x] /\ deposit' = LockedBy(w, x)
          /\ UNCHANGED <<vertex, placing, handler, down, up, purged, spent>>
    BY <1>5 DEF DepartureGoesOn
  <2>4. rq' \in [Requests -> RqT]
    <3>1. \A q \in RqT : [q EXCEPT !.phase = "closing"] \in RqT
      BY PhasesAre DEF RqT
    <3> QED
      BY <1>5, <3>1 DEF Types, DepartureGoesOn
  <2> HIDE DEF leaves, held
  <2>5. x \in Processes
    BY <2>1, <2>2, <2>3
  <2>6. deposit' \in DepositT
    BY <1>0, <2>3, LockTyped
  <2> QED
    BY <2>3, <2>4, <2>5, <2>6 DEF Types
<1>6. \A parcel \in SUBSET Stores, conn \in BOOLEAN, torn \in SUBSET {"store", "conn"},
         lock \in Workers \cup {None} :
        [parcel |-> parcel, conn |-> conn, torn |-> torn, lock |-> lock] \in DepositT
  BY DEF DepositT
<1>7. /\ deposit.parcel \in SUBSET Stores /\ deposit.conn \in BOOLEAN
      /\ deposit.torn \in SUBSET {"store", "conn"} /\ deposit.lock \in Workers \cup {None}
  BY DEF Types, DepositT
<1>8. ASSUME ParcelsWritten(w) PROVE Types'
  <2> DEFINE p == proc[w]
             after == [Released(p) EXCEPT !.dep = NoDeparture, !.copy = {}, !.carries = FALSE,
                     !.dirty = TRUE, !.flag = @ /\ p.dep.by = "order"]
  <2>1. after \in Processes
    <3>1. Released(p) \in Processes
      BY <1>0, ConnectionTyped
    <3>2. {} \in Stores
      BY DEF Stores
    <3> QED
      <4>1. \A x \in Processes, flag \in BOOLEAN :
              [x EXCEPT !.dep = NoDeparture, !.copy = {}, !.carries = FALSE, !.dirty = TRUE,
                        !.flag = flag] \in Processes
        BY <3>2, BlankProcesses DEF Processes
      <4> QED
        BY <3>1, <4>1
  <2>2. DepartureEnds(w, after, IF deposit.lock = w THEN "frozen" ELSE "refused", {"user_frozen"})
    BY <1>8 DEF ParcelsWritten
  <2>3. deposit' \in DepositT
    <3>1. p.copy \in Stores /\ p.carries \in BOOLEAN
      BY <1>0 DEF Processes
    <3>2. {p.copy} \in SUBSET Stores /\ (deposit.conn \/ p.carries) \in BOOLEAN
            /\ (IF deposit.lock = w THEN None ELSE deposit.lock) \in Workers \cup {None}
            /\ deposit.torn \ (IF p.carries THEN {"store", "conn"} ELSE {"store"})
                 \in SUBSET {"store", "conn"}
      BY <1>7, <3>1
    <3>3. \/ deposit' = [parcel |-> {p.copy}, conn |-> deposit.conn \/ p.carries,
                    torn |-> deposit.torn \ (IF p.carries THEN {"store", "conn"} ELSE {"store"}),
                    lock |-> IF deposit.lock = w THEN None ELSE deposit.lock]
          \/ deposit' = deposit
      BY <1>8 DEF ParcelsWritten
    <3>4. \A torn \in SUBSET {"store", "conn"}, lock \in Workers \cup {None}, conn \in BOOLEAN :
            [parcel |-> {p.copy}, conn |-> conn, torn |-> torn, lock |-> lock] \in DepositT
      BY <1>6, <3>2, Zenon
    <3> DEFINE torn == deposit.torn \ (IF p.carries THEN {"store", "conn"} ELSE {"store"})
               lock == IF deposit.lock = w THEN None ELSE deposit.lock
               conn == deposit.conn \/ p.carries
    <3>5. torn \in SUBSET {"store", "conn"} /\ lock \in Workers \cup {None} /\ conn \in BOOLEAN
      BY <3>2
    <3>6. deposit' = [parcel |-> {p.copy}, conn |-> conn, torn |-> torn, lock |-> lock]
          \/ deposit' = deposit
      BY <3>3
    <3> HIDE DEF torn, lock, conn
    <3> QED
      BY <3>4, <3>5, <3>6 DEF Types
  <2> HIDE DEF after
  <2>4. {"user_frozen"} \in SUBSET Events
    BY DEF Events
  <2>5. PICK answer \in {"frozen", "refused"} : DepartureEnds(w, after, answer, {"user_frozen"})
    BY <2>2
  <2>6. proc' \in [Workers -> Processes] /\ up' \in [Workers -> Seq(Envelopes)] /\ rq' \in [Requests -> RqT]
    BY <2>1, <2>4, <2>5, EndsTyped
  <2> QED
    BY <1>8, <2>3, <2>6 DEF ParcelsWritten, Types
<1>9. ASSUME DepartureFails(w) PROVE Types'
  <2> DEFINE p == proc[w]
             after == [p EXCEPT !.dep = NoDeparture, !.copy = {}, !.carries = FALSE,
                     !.flag = @ /\ p.dep.by = "order"]
  <2>1. after \in Processes
    <3>1. {} \in Stores
      BY DEF Stores
    <3> QED
      <4>1. \A flag \in BOOLEAN :
              [p EXCEPT !.dep = NoDeparture, !.copy = {}, !.carries = FALSE, !.flag = flag] \in Processes
        BY <1>0, <3>1, BlankProcesses DEF Processes
      <4> QED
        BY <4>1
  <2>2. DepartureEnds(w, after, "refused", {})
    BY <1>9 DEF DepartureFails
  <2>3. deposit' \in DepositT
    <3>1. PICK left \in HalfWritten(p) \cup {deposit} :
            deposit' = [left EXCEPT !.lock = IF @ = w THEN None ELSE @]
      BY <1>9 DEF DepartureFails
    <3>2. left \in DepositT
      BY <3>1, HalfTyped DEF Types
    <3> QED
      BY <3>1, <3>2 DEF DepositT
  <2> HIDE DEF after
  <2>4. proc' \in [Workers -> Processes] /\ up' \in [Workers -> Seq(Envelopes)] /\ rq' \in [Requests -> RqT]
    <3>1. "refused" \in {"frozen", "refused"} /\ {} \in SUBSET Events
      OBVIOUS
    <3> QED
      BY <2>1, <2>2, <3>1, EndsTyped
  <2> QED
    BY <1>9, <2>3, <2>4 DEF DepartureFails, Types
<1>10. ASSUME CutStragglers(w) PROVE Types'
  <2>1. [proc[w] EXCEPT !.pend = {}] \in Processes
    BY <1>0 DEF Processes
  <2> QED
    BY <1>10, <2>1 DEF CutStragglers, Types
<1>11. ASSUME ExitProcess(w) PROVE Types'
  BY <1>11, BlankProcesses DEF ExitProcess, Types
<1>12. ASSUME Crash(w) PROVE Types'
  <2>1. spent' \in SpentT
    <3>1. spent \in SpentT /\ spent.crashes < MaxCrashes /\ spent' = [spent EXCEPT !.crashes = @ + 1]
      BY <1>12 DEF Crash, Types
    <3>2. spent.crashes + 1 \in 0 .. MaxCrashes
      BY <3>1, SendersAre DEF SpentT
    <3> QED
      BY <3>1, <3>2 DEF SpentT
  <2> QED
    BY <1>12, <2>1, DieTyped DEF Crash, Types
<1>13. ASSUME QuitOverdue(w) PROVE Types'
  <2>1. handler' \in [Workers -> HandlerT]
    BY <1>13 DEF QuitOverdue, Types, HandlerT
  <2> QED
    BY <1>13, <2>1, DieTyped DEF QuitOverdue, Types
<1> QED
  BY <1>1, <1>2, <1>3, <1>4, <1>5, <1>8, <1>9, <1>10, <1>11, <1>12, <1>13

LEMMA TypesInit == Init => Types
<1> SUFFICES ASSUME Init PROVE Types
  OBVIOUS
<1>1. PICK home \in Workers \cup {None}, running \in SUBSET Workers :
         /\ vertex = [known |-> TRUE, frozen |-> home = None, hold |-> FALSE, placement |-> home]
         /\ deposit = [parcel |-> IF home = None THEN {{}} ELSE {},
                       conn |-> home = None, torn |-> {}, lock |-> None]
         /\ handler = [w \in Workers |->
                [state |-> IF w \in running THEN "running" ELSE "unborn",
                 hosted |-> w = home, photo |-> IF w = home THEN "idle" ELSE "away",
                 freezing |-> 0, expected |-> FALSE]]
         /\ proc = [w \in Workers |->
                IF w = home THEN [Empty EXCEPT !.row = "active", !.conn = TRUE]
                ELSE IF w \in running THEN Empty ELSE Gone]
  BY DEF Init
<1>2. vertex \in VertexT
  BY <1>1 DEF VertexT
<1>3. deposit \in DepositT
  BY <1>1 DEF DepositT, Stores
<1>4. handler \in [Workers -> HandlerT]
  BY <1>1, SendersAre DEF HandlerT, Photos
<1>5. proc \in [Workers -> Processes]
  <2>1. [Empty EXCEPT !.row = "active", !.conn = TRUE] \in Processes
    BY BlankProcesses DEF Processes
  <2> QED
    BY <1>1, <2>1, BlankProcesses
<1>6. placing \in PlacingT
  BY DEF Init, PlacingT
<1>7. rq \in [Requests -> RqT]
  BY PhasesAre DEF Init, RqT
<1>8. down \in [Workers -> Seq(Mail)] /\ up \in [Workers -> Seq(Envelopes)]
  BY DEF Init
<1>9. purged \in BOOLEAN /\ spent \in SpentT
  <2>1. purged = FALSE /\ spent = [orders |-> 0, crashes |-> 0]
    BY DEF Init
  <2>2. 0 \in 0 .. MaxCrashes
    BY SendersAre
  <2> QED
    BY <2>1, <2>2, SendersAre DEF SpentT
<1> QED
  BY <1>2, <1>3, <1>4, <1>5, <1>6, <1>7, <1>8, <1>9 DEF Types

LEMMA TypesKept == Types /\ [Next]_vars => Types'
<1> SUFFICES ASSUME Types, [Next]_vars PROVE Types'
  OBVIOUS
<1>1. CASE UNCHANGED vars
  BY <1>1 DEF vars, Types
<1>2. ASSUME NEW w \in Workers, WorkerNext(w) PROVE Types'
  BY <1>2, GroupTypes, NewsTypes, ProcessTypes DEF WorkerNext
<1>3. ASSUME NEW r \in Requests, RequestNext(r) PROVE Types'
  BY <1>3, RoutingTypes, ServiceTypes DEF RequestNext
<1> QED
  BY <1>1, <1>2, <1>3, RoutingTypes DEF Next, AtRest

\* Whatever disturbs the group, every variable keeps its shape; the lanes, the parcel and the
\* marks of a request are fed by all the parties at once.
THEOREM TypeCorrect == Spec => []TypeOK
<1>1. Spec => []Types
  BY TypesInit, TypesKept, PTL DEF Spec
<1> QED
  BY <1>1, TypesImplyTypeOK, PTL

-----------------------------------------------------------------------------
(* A calm group: what stays, and how the parts of the invariant move.      *)

Parts(w) == Bare(w) /\ (proc[w].alive => vertex.frozen /\ handler[w].photo # "idle")

LEMMA EmptyLane == Range(<<>>) = {} /\ OrderedDown(<<>>) /\ OrderedUp(<<>>)
<1>1. DOMAIN <<>> = {}
  OBVIOUS
<1>2. 1 .. Len(<<>>) = {}
  OBVIOUS
<1> QED
  BY <1>1, <1>2 DEF Range, OrderedDown, OrderedUp

\* A worker with nothing of his is settled, whoever he is.
LEMMA BareSettles == \A w \in Workers : Parts(w) => Settled(w)
<1> SUFFICES ASSUME NEW w \in Workers, Parts(w) PROVE Settled(w)
  OBVIOUS
<1>1. /\ Range(down[w]) = {} /\ Range(up[w]) = {}
      /\ OrderedDown(down[w]) /\ OrderedUp(up[w])
  BY EmptyLane DEF Parts, Bare
<1>2. /\ ~Ripe(w) /\ ~Judged(w) /\ ~SaysFrozen(w) /\ ~SaysAdopted(w)
      /\ SeenIdle(w) <=> handler[w].photo = "idle"
  BY <1>1 DEF Ripe, Judged, SaysFrozen, SaysAdopted, SeenIdle
<1>3. /\ \A r \in Requests : rq[r].on = w => rq[r].phase \notin Live
      /\ Here(w) = {}
  BY DEF Parts, Bare, Here, Live
<1>4. ~HoldsAdopted(w)
  BY <1>3 DEF HoldsAdopted
<1>5. Carried(w)
  BY <1>1, <1>3 DEF Carried, Live
<1>6. Told(w)
  BY <1>1, <1>3 DEF Told, Live
<1>7. Order(w)
  BY <1>1, <1>2, <1>3 DEF Order, Parts, Bare
<1>8. Rows(w)
  BY <1>1, <1>2, <1>3, <1>4 DEF Rows, Cold, Parts, Bare
<1> QED
  BY <1>5, <1>6, <1>7, <1>8 DEF Settled

LEMMA BareSettlesNext == \A w \in Workers : Parts(w)' => Settled(w)'
<1>1. (\A w \in Workers : Parts(w) => Settled(w))'
  BY BareSettles, PTL
<1> QED
  BY <1>1

\* Where there is something of his, he is placed.
LEMMA AtHome ==
    ASSUME IInv, NEW w \in Workers, ~Bare(w)
    PROVE  /\ w = vertex.placement /\ Settled(w) /\ vertex.known
           /\ handler[w].state = "running"
<1>1. w = vertex.placement
  BY DEF IInv, OnlyHome, Elsewhere
<1>2. w # None
  BY SendersAre
<1> QED
  BY <1>1, <1>2 DEF IInv, Steady, SteadyWorker, SteadyRequest, Knows

\* A step at w leaves the other workers as they are.
LEMMA OthersStay ==
    ASSUME IInv, NEW w, w = vertex.placement,
           vertex'.placement = w \/ Elsewhere(w)',
           \A v \in Workers : v # w => /\ down'[v] = down[v] /\ up'[v] = up[v]
                                       /\ handler'[v] = handler[v] /\ proc'[v] = proc[v],
           \A r \in Requests : rq'[r] = rq[r] \/ rq'[r].on = w \/ rq'[r].phase \notin Live
    PROVE  OnlyHome' /\ \A v \in Workers : v # w => SteadyWorker(v)'
<1>1. ASSUME NEW v \in Workers, v # w PROVE Elsewhere(v)' /\ (Bare(v) => Bare(v)')
  <2>1. Elsewhere(v)
    BY <1>1 DEF IInv, OnlyHome
  <2> QED
    BY <1>1, <2>1 DEF Elsewhere, Bare
<1>2. OnlyHome'
  BY <1>1 DEF OnlyHome
<1>3. ASSUME NEW v \in Workers, v # w PROVE SteadyWorker(v)'
  <2>1. SteadyWorker(v)
    BY DEF IInv, Steady
  <2> QED
    BY <1>1, <1>3, <2>1 DEF SteadyWorker
<1> QED
  BY <1>2, <1>3

\* What was answered stays where it is as long as no store moves.
LEMMA WholeStays ==
    ASSUME IInv, deposit'.parcel = deposit.parcel, deposit'.lock = deposit.lock, spent'.crashes = spent.crashes,
           Kept' \subseteq Kept, Answered \subseteq Answered',
           \A r \in Requests : rq'[r].base \in {rq[r].base, Answered},
           \A w \in Workers :
              /\ handler'[w].state = handler[w].state
              /\ proc'[w].alive = proc[w].alive /\ proc'[w].store = proc[w].store
              /\ proc'[w].dep.step = "writing" <=> proc[w].dep.step = "writing"
              /\ proc'[w].copy = proc[w].copy
              /\ proc'[w].row = "active" <=> proc[w].row = "active"
    PROVE  Whole' /\ Parcels'
<1>1. Based'
  BY DEF IInv, Whole, Based
<1>2. ASSUME NoDeath' PROVE (\A w \in Workers : Guarded(w)') /\ Parked'
  <2>1. (\A w \in Workers : Guarded(w)) /\ Parked
    BY <1>2 DEF IInv, Whole, NoDeath
  <2>2. \A w \in Workers : Guarded(w)'
    BY <2>1 DEF Guarded
  <2>3. Parked'
    BY <2>1 DEF Parked
  <2> QED
    BY <2>2, <2>3
<1>3. Parcels'
  BY DEF IInv, Parcels
<1> QED
  BY <1>1, <1>2, <1>3 DEF Whole

\* After a death nothing is said of the stores.
LEMMA WholeDies ==
    ASSUME IInv, ~NoDeath', Answered \subseteq Answered',
           \A r \in Requests : rq'[r].base \in {rq[r].base, Answered}
    PROVE  Whole'
BY DEF IInv, Whole, Based

LEMMA CalmInit == Calm /\ Init => IInv
<1> SUFFICES ASSUME Calm, Init PROVE IInv
  OBVIOUS
<1>1. PICK home \in Workers \cup {None} :
        /\ vertex = [known |-> TRUE, frozen |-> home = None, hold |-> FALSE, placement |-> home]
        /\ deposit = [parcel |-> IF home = None THEN {{}} ELSE {}, conn |-> home = None,
                      torn |-> {}, lock |-> None]
        /\ handler = [w \in Workers |->
              [state |-> "running", hosted |-> w = home,
               photo |-> IF w = home THEN "idle" ELSE "away", freezing |-> 0, expected |-> FALSE]]
        /\ proc = [w \in Workers |->
              IF w = home THEN [Empty EXCEPT !.row = "active", !.conn = TRUE] ELSE Empty]
  <2>1. "birth" \notin Happens
    BY DEF Calm
  <2>2. PICK home \in Workers \cup {None}, running \in SUBSET Workers :
          /\ running = Workers
          /\ vertex = [known |-> TRUE, frozen |-> home = None, hold |-> FALSE, placement |-> home]
          /\ deposit = [parcel |-> IF home = None THEN {{}} ELSE {}, conn |-> home = None,
                      torn |-> {}, lock |-> None]
          /\ handler = [w \in Workers |->
                [state |-> IF w \in running THEN "running" ELSE "unborn",
                 hosted |-> w = home, photo |-> IF w = home THEN "idle" ELSE "away",
                 freezing |-> 0, expected |-> FALSE]]
          /\ proc = [w \in Workers |->
                IF w = home THEN [Empty EXCEPT !.row = "active", !.conn = TRUE]
                ELSE IF w \in running THEN Empty ELSE Gone]
    BY <2>1, Zenon DEF Init
  <2>3. handler = [w \in Workers |->
              [state |-> "running", hosted |-> w = home,
               photo |-> IF w = home THEN "idle" ELSE "away", freezing |-> 0, expected |-> FALSE]]
    BY <2>2
  <2>4. proc = [w \in Workers |->
              IF w = home THEN [Empty EXCEPT !.row = "active", !.conn = TRUE] ELSE Empty]
    BY <2>2
  <2> QED
    BY <2>2, <2>3, <2>4
<1>2. /\ placing = [queue |-> <<>>, launching |-> None, owner |-> None]
      /\ rq = [r \in Requests |->
            [phase |-> "new", on |-> None, events |-> {}, good |-> TRUE, base |-> {}]]
      /\ down = [w \in Workers |-> <<>>] /\ up = [w \in Workers |-> <<>>]
      /\ spent = [orders |-> 0, crashes |-> 0]
  BY DEF Init
<1>3. \A w \in Workers :
        /\ handler[w].state = "running" /\ (handler[w].hosted <=> w = home) /\ ~handler[w].expected
        /\ handler[w].photo = (IF w = home THEN "idle" ELSE "away") /\ handler[w].freezing = 0
  BY <1>1
<1>4. \A w \in Workers :
        /\ proc[w].alive /\ ~proc[w].quitting /\ ~proc[w].flag
        /\ proc[w].row = (IF w = home THEN "active" ELSE "absent") /\ proc[w].pend = {}
        /\ proc[w].orders = {} /\ proc[w].dep = NoDeparture /\ proc[w].store = {} /\ proc[w].copy = {}
  BY <1>1 DEF Empty, Gone
<1>5. \A r \in Requests : /\ rq[r].phase = "new" /\ rq[r].on = None /\ rq[r].events = {} /\ rq[r].base = {}
  BY <1>2
<1>6. /\ \A w \in Workers : down[w] = <<>> /\ up[w] = <<>> /\ Range(down[w]) = {} /\ Range(up[w]) = {}
      /\ \A w \in Workers : OrderedDown(down[w]) /\ OrderedUp(up[w])
  BY <1>2, EmptyLane
<1>7. Types
  BY TypesInit
<1>8. Steady
  BY <1>2, <1>3, <1>4, <1>5 DEF Steady, SteadyWorker, SteadyRequest, Live, Inside, Ended
<1>9. \A w \in Workers : Here(w) = {}
  BY <1>5 DEF Here, Inside
<1>10. \A w \in Workers : w # home => Elsewhere(w)
  BY <1>3, <1>4, <1>5, <1>6 DEF Elsewhere, Bare, Live, Inside
<1>11. OnlyHome
  BY <1>1, <1>10 DEF OnlyHome
<1>12. Knows
  BY <1>1, <1>3, SendersAre DEF Knows
<1>13. Answered = {} /\ Kept = {}
  BY <1>5, <1>6 DEF Answered, Kept
<1>14. Parcels
  <2>1. {} \in Stores
    BY DEF Stores
  <2>2. home # None => deposit.parcel = {}
    BY <1>1
  <2>3. home = None => deposit.parcel = {{}} /\ \A w \in Workers : proc[w].row # "active"
    BY <1>1, <1>4, SendersAre
  <2> QED
    BY <2>1, <2>2, <2>3, <1>1, <1>4 DEF Parcels, NoDeparture
<1>15. Whole
  <2>1. Based
    BY <1>5 DEF Based
  <2>2. \A w \in Workers : Guarded(w)
    BY <1>1, <1>3, <1>4, <1>13, SendersAre DEF Guarded, NoDeparture
  <2>3. Parked
    BY <1>1, <1>4, <1>13, SendersAre DEF Parked, Stores
  <2> QED
    BY <2>1, <2>2, <2>3 DEF Whole
<1>16. ASSUME home # None PROVE Settled(home)
  <2>1. home \in Workers /\ ~vertex.frozen
    BY <1>1, <1>16
  <2>2. ~Ripe(home) /\ ~Judged(home) /\ ~SaysFrozen(home) /\ ~SaysAdopted(home) /\ ~HoldsAdopted(home)
    BY <1>6, <1>9, <2>1 DEF Ripe, Judged, SaysFrozen, SaysAdopted, HoldsAdopted
  <2>3. Carried(home) /\ Told(home)
    BY <1>5, <1>6, <2>1 DEF Carried, Told
  <2>4. Order(home)
    BY <1>3, <1>4, <2>1, <2>2 DEF Order
  <2>5. Rows(home)
    BY <1>3, <1>4, <1>9, <2>1, <2>2 DEF Rows
  <2> QED
    BY <2>3, <2>4, <2>5 DEF Settled
<1> QED
  BY <1>1, <1>7, <1>8, <1>11, <1>12, <1>14, <1>15, <1>16, SendersAre DEF IInv

LEMMA Letters ==
    ASSUME Types, NEW w \in Workers
    PROVE  /\ \A m \in Range(down[w]) : m \in Mail
           /\ \A m \in Range(up[w]) : m \in Envelopes
<1>1. down[w] \in Seq(Mail) /\ up[w] \in Seq(Envelopes)
  BY DEF Types
<1> QED
  BY <1>1, InRange

\* A request that is at no worker before the step or after it disturbs nobody.
LEMMA Unseen ==
    ASSUME NEW w \in Workers, Settled(w), Types,
           down'[w] = down[w], up'[w] = up[w], handler'[w] = handler[w], proc'[w] = proc[w],
           vertex'.hold = vertex.hold, vertex'.frozen = vertex.frozen,
           \A r \in Requests : \/ rq'[r] = rq[r]
                               \/ rq[r].phase \notin Live /\ rq'[r].phase \notin Live
    PROVE  Settled(w)'
<1>1. Here(w)' = Here(w) /\ (HoldsAdopted(w)' <=> HoldsAdopted(w))
  BY DEF Here, HoldsAdopted, Live
<1>2. /\ Ripe(w)' <=> Ripe(w)
      /\ Judged(w)' <=> Judged(w)
      /\ SaysFrozen(w)' <=> SaysFrozen(w)
      /\ SaysAdopted(w)' <=> SaysAdopted(w)
      /\ SeenIdle(w)' <=> SeenIdle(w)
  BY DEF Ripe, Judged, SaysFrozen, SaysAdopted, SeenIdle
<1>3. \A r \in Requests : rq[r].phase \in {"sent", "replied"} \/ rq'[r].phase \in {"sent", "replied"}
                            => rq'[r] = rq[r]
  BY DEF Live
<1>4. \A m \in Range(down[w]) : m.kind = "request" => m.who \in Requests
  BY Letters DEF Mail
<1>5. Carried(w)'
  BY <1>3, <1>4 DEF Settled, Carried
<1>6. Told(w)'
  <2>1. \A m \in Range(up'[w]) : Honest(m, w)'
    BY <1>3 DEF Settled, Told, Honest
  <2> QED
    BY <2>1, <1>2, <1>3 DEF Settled, Told
<1>7. Order(w)'
  BY <1>1, <1>2 DEF Settled, Order
<1>8. Rows(w)'
  <2>1. \A r \in Here(w) : rq'[r] = rq[r]
    BY <1>1 DEF Here, Live
  <2> QED
    BY <2>1, <1>1, <1>2 DEF Settled, Rows, Cold
<1> QED
  BY <1>5, <1>6, <1>7, <1>8 DEF Settled

\* What the lane up of a worker says of the requests answered.
LEMMA SameKept ==
    ASSUME up' = up, Answered' = Answered PROVE Kept' = Kept
BY DEF Kept

\* A request turned away at the vertex.
LEMMA TurnedAway ==
    ASSUME IInv, Types', NEW r \in Requests, rq[r].phase = "new",
           NEW phase \in {"failed", "refused", "stranger"},
           rq' = [rq EXCEPT ![r].phase = phase],
           UNCHANGED <<vertex, placing, handler, down, up, proc, deposit, spent>>
    PROVE  IInv'
<1>1. /\ \A q \in Requests : q # r => rq'[q] = rq[q]
      /\ rq'[r].phase = phase /\ rq'[r].on = rq[r].on /\ rq'[r].events = rq[r].events
      /\ rq'[r].base = rq[r].base
  BY DEF IInv, Types, RqT
<1>2. rq[r].phase \notin Live /\ rq'[r].phase \notin Live /\ rq'[r].phase \in Ended \ {"done"}
  BY <1>1 DEF Live, Inside, Ended
<1>3. Steady'
  <2>1. \A w \in Workers : Bare(w) => Bare(w)'
    BY <1>1, <1>2 DEF Bare
  <2>2. \A q \in Requests : /\ rq'[q].phase \in Live \cup Ended \cup {"new"}
                            /\ rq'[q].phase \in Live => rq'[q].on \in Workers
                            /\ rq'[q].phase \in {"new", "sent"} => rq'[q].events = {}
                            /\ rq'[q].events \subseteq {"user_adopted", "new_connection"}
    BY <1>1, <1>2 DEF IInv, Steady, SteadyWorker, SteadyRequest
  <2> QED
    BY <2>1, <2>2 DEF IInv, Steady, SteadyWorker, SteadyRequest
<1>4. OnlyHome'
  BY <1>1, <1>2 DEF IInv, OnlyHome, Elsewhere, Bare
<1>5. Knows'
  BY DEF IInv, Knows
<1>6. Answered' = Answered
  BY <1>1, <1>2 DEF Answered
<1>7. Whole' /\ Parcels'
  BY <1>1, <1>6, SameKept, WholeStays
<1>8. ASSUME NEW w \in Workers, w = vertex'.placement PROVE Settled(w)'
  BY <1>1, <1>2, <1>8, Unseen DEF IInv
<1> QED
  BY <1>3, <1>4, <1>5, <1>7, <1>8 DEF IInv

LEMMA HoldTimeoutKeeps ==
    ASSUME IInv, Types', NEW r \in Requests, HoldTimeout(r) PROVE IInv'
BY TurnedAway DEF HoldTimeout, End

\* A request leaves for the worker the user is, or is now, placed on.
LEMMA RequestLeaves ==
    ASSUME IInv, Types', NEW r \in Requests, rq[r].phase = "new",
           NEW w \in Workers, Settled(w), handler[w].state = "running", ~vertex.hold,
           vertex.placement \in {None, w}, vertex.known,
           vertex' = [vertex EXCEPT !.placement = w],
           rq' = [rq EXCEPT ![r] = [@ EXCEPT !.phase = "sent", !.on = w, !.base = Answered]],
           down' = [down EXCEPT ![w] = Append(@,
              [kind |-> "request", who |-> r, frozen |-> vertex.frozen])],
           UNCHANGED <<placing, handler, up, proc, deposit, spent>>
    PROVE  IInv'
<1> DEFINE m == [kind |-> "request", who |-> r, frozen |-> vertex.frozen]
<1>1. /\ \A q \in Requests : q # r => rq'[q] = rq[q]
      /\ rq'[r].phase = "sent" /\ rq'[r].on = w /\ rq'[r].events = rq[r].events
      /\ rq'[r].base = Answered
  BY DEF IInv, Types, RqT
<1>2. /\ vertex'.known /\ vertex'.placement = w /\ vertex'.frozen = vertex.frozen
      /\ vertex'.hold = vertex.hold
  BY DEF IInv, Types, VertexT
<1>3. \A v \in Workers : v # w => down'[v] = down[v]
  BY DEF IInv, Types
<1>4. m \in Mail /\ down[w] \in Seq(Mail)
  BY SendersAre DEF IInv, Types, VertexT, Mail, Orders
<1>5. /\ down'[w] = Append(down[w], m)
      /\ Range(down'[w]) = Range(down[w]) \cup {m}
  BY <1>4, Appended DEF IInv, Types
<1>6. rq[r].events = {} /\ rq[r].phase \notin Live
  BY DEF IInv, Steady, SteadyWorker, SteadyRequest, Live, Inside
<1>7. \A v \in Workers : Here(v)' = Here(v) /\ (HoldsAdopted(v)' <=> HoldsAdopted(v))
  BY <1>1, <1>6 DEF Here, HoldsAdopted, Inside
<1>8. handler[w].freezing = 0
  BY DEF Settled, Order
<1>9. ~Ripe(w) /\ proc[w].orders = {} /\ proc[w].dep = NoDeparture /\ ~Judged(w)
  BY <1>8 DEF Settled, Order
<1>10. /\ ~Ripe(w)' /\ ~Judged(w)'
       /\ SaysFrozen(w)' <=> SaysFrozen(w)
       /\ SaysAdopted(w)' <=> SaysAdopted(w)
       /\ SeenIdle(w)' <=> SeenIdle(w)
  BY <1>5, <1>9 DEF Ripe, Judged, SaysFrozen, SaysAdopted, SeenIdle
<1>11. Steady'
  <2>1. \A v \in Workers : v # w /\ Bare(v) => Bare(v)'
    BY <1>1, <1>3 DEF Bare
  <2>2. \A q \in Requests : /\ rq'[q].phase \in Live \cup Ended \cup {"new"}
                            /\ rq'[q].phase \in Live => rq'[q].on \in Workers
                            /\ rq'[q].phase \in {"new", "sent"} => rq'[q].events = {}
                            /\ rq'[q].events \subseteq {"user_adopted", "new_connection"}
    BY <1>1, <1>6 DEF IInv, Steady, SteadyWorker, SteadyRequest, Live
  <2> QED
    BY <2>1, <2>2 DEF IInv, Steady, SteadyWorker, SteadyRequest
<1>12. OnlyHome'
  BY <1>1, <1>2, <1>3, SendersAre DEF IInv, OnlyHome, Elsewhere, Bare
<1>13. Knows'
  <2>1. handler[w].hosted <=> ~vertex.frozen
    <3>1. CASE vertex.placement = w
      BY <3>1, SendersAre DEF IInv, Knows
    <3>2. CASE vertex.placement = None
      BY <3>2, SendersAre DEF IInv, Knows, OnlyHome, Elsewhere
    <3> QED
      BY <3>1, <3>2
  <2> QED
    BY <2>1, <1>2, SendersAre DEF Knows
<1>14. Answered' = Answered
  BY <1>1 DEF Answered
<1>15. Whole' /\ Parcels'
  BY <1>1, <1>14, SameKept, WholeStays
<1>16. Carried(w)'
  <2>1. \A n \in Range(down[w]) : n.kind = "request" /\ n.who \in Requests /\ n.who # r
    BY <1>9, Letters DEF IInv, Settled, Carried, Ripe, Mail
  <2>2. OrderedDown(down'[w])
    BY <2>1, <1>4, <1>5, DownAppends DEF Settled, Carried, Before
  <2>3. \A n \in Range(down'[w]) :
          /\ n.kind \in {"request", "freeze"}
          /\ n.kind = "request" => rq'[n.who].phase = "sent" /\ rq'[n.who].on = w
    BY <2>1, <1>1, <1>5 DEF Settled, Carried
  <2>4. ASSUME NEW q \in Requests, rq'[q].on = w, rq'[q].phase = "sent"
        PROVE  \E n \in Range(down'[w]) : n.kind = "request" /\ n.who = q
    BY <2>4, <1>1, <1>5 DEF Settled, Carried
  <2> QED
    BY <2>2, <2>3, <2>4 DEF Carried
<1>17. Told(w)'
  <2>1. \A n \in Range(up'[w]) : Honest(n, w)'
    BY <1>1 DEF Settled, Told, Honest
  <2> QED
    BY <2>1, <1>1, <1>10 DEF Settled, Told
<1>18. Order(w)'
  BY <1>8, <1>9, <1>10 DEF Order
<1>19. Rows(w)'
  <2>1. \A q \in Here(w) : rq'[q] = rq[q]
    BY <1>1, <1>6 DEF Here, Live
  <2>2. m.frozen = vertex.frozen
    OBVIOUS
  <2>3. Cold(w) => \A n \in Range(down'[w]) : n.kind = "request" => n.frozen
    BY <2>2, <1>5 DEF Cold
  <2>4. Cold(w) => Cold(w)'
    BY <2>3, <1>2, <1>7, <1>10 DEF Cold
  <2> QED
    BY <2>1, <2>4, <1>2, <1>7, <1>10 DEF Settled, Rows
<1> QED
  BY <1>2, <1>11, <1>12, <1>13, <1>15, <1>16, <1>17, <1>18, <1>19 DEF IInv, Settled

LEMMA ResolveWorkerKeeps ==
    ASSUME Calm, IInv, Types', NEW r \in Requests, ResolveWorker(r) PROVE IInv'
<1>1. /\ rq[r].phase = "new" /\ ~vertex.hold
      /\ placing.queue = <<>> /\ placing.launching = None
      /\ UNCHANGED <<up, proc, deposit, spent>>
  BY DEF ResolveWorker, IInv, Steady, SteadyWorker, SteadyRequest
<1>2. CASE ~vertex.known /\ End(r, "stranger") /\ UNCHANGED <<vertex, placing, handler, down>>
  BY <1>1, <1>2, TurnedAway DEF End
<1>3. CASE /\ vertex.known /\ vertex.placement # None /\ SendTo(r, vertex.placement)
           /\ UNCHANGED <<vertex, placing, handler>>
  <2>1. PICK w \in Workers : w = vertex.placement
    BY <1>3 DEF IInv, Types, VertexT
  <2>2. CASE handler[w].state \in {"quitted", "aborted"}
    BY <1>1, <1>3, <2>1, <2>2, TurnedAway DEF SendTo, End
  <2>3. CASE handler[w].state \notin {"quitted", "aborted"}
    <3>1. handler[w].state = "running" /\ Settled(w)
      BY <2>1, <2>3, <1>3 DEF IInv, Steady, SteadyWorker, SteadyRequest, Knows
    <3>2. vertex' = [vertex EXCEPT !.placement = w]
      BY <1>3, <2>1 DEF IInv, Types, VertexT
    <3> QED
      BY <1>1, <1>3, <2>1, <2>3, <3>1, <3>2, RequestLeaves DEF SendTo
  <2> QED
    BY <2>2, <2>3
<1>4. CASE vertex.known /\ vertex.placement = None /\ AssignUser(r, <<>>)
  <2>1. \A w \in Workers : Elsewhere(w)
    BY <1>4, SendersAre DEF IInv, OnlyHome
  <2>2. vertex.frozen
    BY <1>4 DEF IInv, Knows
  <2>3. "birth" \notin Happens
    BY DEF Calm
  <2>4. ASSUME NEW w \in Open, Place(r, w), placing' = [placing EXCEPT !.queue = <<>>],
               UNCHANGED handler
        PROVE  IInv'
    <3>1. w \in Workers /\ handler[w].state = "running"
      BY <2>4 DEF Open
    <3>2. Parts(w)
      BY <2>1, <2>2, <3>1 DEF Elsewhere, Parts
    <3>3. placing' = placing
      BY <2>4, <1>1 DEF IInv, Types, PlacingT
    <3>4. Settled(w)
      BY <3>1, <3>2, BareSettles
    <3>5. vertex' = [vertex EXCEPT !.placement = w] /\ SendTo(r, w)
      BY <2>4, <1>4 DEF Place
    <3>6. /\ rq' = [rq EXCEPT ![r] = [@ EXCEPT !.phase = "sent", !.on = w, !.base = Answered]]
          /\ down' = [down EXCEPT ![w] = Append(@,
                [kind |-> "request", who |-> r, frozen |-> vertex.frozen])]
      BY <3>1, <3>5 DEF SendTo
    <3> HIDE <1>4
    <3> QED
      BY <1>1, <1>4, <2>4, <3>1, <3>3, <3>4, <3>5, <3>6, RequestLeaves
  <2>5. ASSUME End(r, "refused"), placing' = [placing EXCEPT !.queue = <<>>],
               UNCHANGED <<vertex, handler, down>>
        PROVE  IInv'
    <3>1. placing' = placing
      BY <2>5, <1>1 DEF IInv, Types, PlacingT
    <3> QED
      BY <1>1, <2>5, <3>1, TurnedAway DEF End
  <2> QED
    BY <1>4, <2>3, <2>4, <2>5 DEF AssignUser
<1>5. vertex.known /\ vertex.placement = None =>
         ~(placing.launching # None \/ placing.queue # <<>>)
  BY <1>1
<1> QED
  BY <1>2, <1>3, <1>4, <1>5 DEF ResolveWorker

\* The wire of a dead process is read: who it had is nowhere, and nobody waits for it.
LEMMA LoseKeeps ==
    ASSUME IInv, Types', NEW w \in Workers, Lose(w) PROVE IInv'
<1>1. /\ handler[w].state = "running" /\ ~proc[w].alive /\ up[w] = <<>>
      /\ handler' = [handler EXCEPT ![w].state = "aborted", ![w].freezing = 0]
      /\ vertex' = [vertex EXCEPT !.hold = @ /\ handler[w].freezing = 0]
      /\ rq' = [r \in Requests |->
            IF rq[r].on = w /\ rq[r].phase \notin Ended
            THEN [rq[r] EXCEPT !.phase = "failed", !.events = {}] ELSE rq[r]]
      /\ down' = [down EXCEPT ![w] = <<>>]
      /\ UNCHANGED <<placing, up, proc, deposit, spent>>
  BY DEF Lose, IInv, Steady, SteadyWorker, SteadyRequest
<1>2. /\ handler'[w].state = "aborted" /\ handler'[w].freezing = 0
      /\ handler'[w].hosted = handler[w].hosted /\ handler'[w].photo = handler[w].photo
      /\ handler'[w].expected = handler[w].expected
      /\ \A v \in Workers : v # w => handler'[v] = handler[v]
  BY <1>1 DEF IInv, Types, HandlerT
<1>3. /\ vertex'.known = vertex.known /\ vertex'.frozen = vertex.frozen
      /\ vertex'.placement = vertex.placement
      /\ vertex'.hold = (vertex.hold /\ handler[w].freezing = 0)
  BY <1>1 DEF IInv, Types, VertexT
<1>4. \A r \in Requests :
        /\ rq[r].on = w /\ rq[r].phase \notin Ended =>
              rq'[r].on = w /\ rq'[r].phase = "failed" /\ rq'[r].events = {} /\ rq'[r].base = rq[r].base
        /\ ~(rq[r].on = w /\ rq[r].phase \notin Ended) => rq'[r] = rq[r]
  <2> TAKE r \in Requests
  <2>1. rq'[r] = IF rq[r].on = w /\ rq[r].phase \notin Ended
                 THEN [rq[r] EXCEPT !.phase = "failed", !.events = {}] ELSE rq[r]
    BY <1>1
  <2>2. rq[r] \in RqT
    BY DEF IInv, Types
  <2> QED
    BY <2>1, <2>2 DEF RqT
<1>5. down'[w] = <<>> /\ \A v \in Workers : v # w => down'[v] = down[v]
  BY <1>1 DEF IInv, Types
<1>6. proc[w] = Gone
  BY <1>1 DEF IInv, Steady, SteadyWorker, SteadyRequest
<1>7. Bare(w)'
  <2>1. \A r \in Requests : rq'[r].on = w => rq'[r].phase \notin Live
    BY <1>4 DEF Live, Inside, Ended
  <2>2. down'[w] = <<>> /\ up'[w] = <<>> /\ handler'[w].freezing = 0 /\ proc'[w] = Gone
    BY <1>1, <1>2, <1>5, <1>6
  <2> QED
    BY <2>1, <2>2 DEF Bare, Gone
<1>8. \A v \in Workers : v # w /\ Bare(v) => Bare(v)'
  BY <1>1, <1>2, <1>4, <1>5 DEF Bare, Live, Inside, Ended
<1>9. Steady'
  <2>1. \A q \in Requests : /\ rq'[q].phase \in Live \cup Ended \cup {"new"}
                            /\ rq'[q].phase \in Live => rq'[q].on \in Workers
                            /\ rq'[q].phase \in {"new", "sent"} => rq'[q].events = {}
                            /\ rq'[q].events \subseteq {"user_adopted", "new_connection"}
    BY <1>4 DEF IInv, Steady, SteadyWorker, SteadyRequest, Live, Inside, Ended
  <2>2. /\ handler'[w].state = "aborted" /\ ~handler'[w].expected /\ handler'[w].photo # "ceded"
        /\ ~proc'[w].alive /\ proc'[w] = proc[w]
    BY <1>1, <1>2 DEF IInv, Steady, SteadyWorker, SteadyRequest
  <2>3. placing' = placing /\ placing = [queue |-> <<>>, launching |-> None, owner |-> None]
    BY <1>1 DEF IInv, Steady, SteadyWorker, SteadyRequest
  <2>4. ~proc'[w].quitting /\ ~proc'[w].flag /\ proc'[w].dep = NoDeparture /\ proc'[w] = Gone
    <3>1. proc'[w] = Gone
      BY <1>1, <1>6
    <3>2. Gone.quitting = FALSE /\ Gone.flag = FALSE /\ Gone.dep = NoDeparture
      BY DEF Gone
    <3> QED
      BY <3>1, <3>2
  <2>5. \A v \in Workers : v # w =>
           /\ handler'[v] = handler[v] /\ proc'[v] = proc[v]
           /\ Bare(v) => Bare(v)'
    BY <1>1, <1>2, <1>8
  <2>6. ASSUME NEW v \in Workers PROVE SteadyWorker(v)'
    <3>1. CASE v = w
      BY <3>1, <2>2, <2>4, <1>7 DEF SteadyWorker
    <3>2. CASE v # w
      <4>1. SteadyWorker(v)
        BY DEF IInv, Steady
      <4> QED
        BY <4>1, <3>2, <2>5 DEF SteadyWorker
    <3> QED
      BY <3>1, <3>2
  <2> QED
    BY <2>1, <2>3, <2>6 DEF Steady, SteadyRequest
<1>10. OnlyHome'
  BY <1>2, <1>3, <1>7, <1>8 DEF IInv, OnlyHome, Elsewhere
<1>11. Knows'
  BY <1>2, <1>3, SendersAre DEF IInv, Types, VertexT, Knows
<1>12. ~NoDeath' /\ Parcels'
  BY <1>1, <1>2 DEF IInv, Whole, Guarded, NoDeath, Parcels
<1>13. Whole'
  <2>1. Answered' = Answered
    BY <1>4 DEF Answered, Ended
  <2>2. \A r \in Requests : rq'[r].base = rq[r].base
    BY <1>4
  <2> QED
    BY <2>1, <2>2, <1>12, WholeDies
<1>14. ASSUME NEW v \in Workers, v = vertex'.placement PROVE Settled(v)'
  <2>1. CASE v = w
    BY <2>1, <1>1, <1>7, BareSettlesNext DEF Parts
  <2>2. CASE v # w
    <3>1. Bare(w)
      BY <1>3, <1>14, <2>2 DEF IInv, OnlyHome, Elsewhere
    <3>2. vertex'.hold = vertex.hold
      BY <3>1, <1>3 DEF Bare, IInv, Types, VertexT
    <3>3. \A r \in Requests : \/ rq'[r] = rq[r]
                              \/ rq[r].phase \notin Live /\ rq'[r].phase \notin Live
      BY <3>1, <1>4 DEF Bare, Live, Inside
    <3>4. Settled(v)
      BY <1>3, <1>14 DEF IInv
    <3> QED
      BY <3>2, <3>3, <3>4, <2>2, <1>1, <1>2, <1>3, <1>5, Unseen DEF IInv
  <2> QED
    BY <2>1, <2>2
<1> QED
  BY <1>9, <1>10, <1>11, <1>12, <1>13, <1>14 DEF IInv

\* The end of a worker is taken in: with it goes the user it was the only one to hold.
LEMMA ReportDeathKeeps ==
    ASSUME IInv, Types', NEW w \in Workers, ReportDeath(w) PROVE IInv'
<1> DEFINE lost == handler[w].hosted /\ vertex.placement = w
<1>1. handler[w].state = "aborted" /\ ~proc[w].alive /\ Bare(w)
  BY DEF ReportDeath, IInv, Steady, SteadyWorker, SteadyRequest
<1>2. /\ vertex' = IF lost
                   THEN [known |-> FALSE, frozen |-> FALSE, hold |-> FALSE, placement |-> None]
                   ELSE [vertex EXCEPT !.placement = IF vertex.placement = w THEN None ELSE vertex.placement,
                                       !.frozen = vertex.frozen, !.hold = vertex.hold]
      /\ deposit' = IF lost THEN [parcel |-> {}, conn |-> FALSE, torn |-> {}, lock |-> None]
                                   ELSE deposit
  BY <1>1 DEF ReportDeath, IInv, Types, VertexT
<1>3. UNCHANGED <<placing, rq, down, up, proc, spent>>
  BY DEF ReportDeath
<1>4. handler' = [handler EXCEPT ![w].state = "dropped"]
  <2>1. PICK fresh \in {w} : handler' = [handler EXCEPT ![fresh].state = "starting", ![w].state = "dropped"]
    BY <1>1 DEF ReportDeath
  <2> QED
    BY <2>1 DEF IInv, Types, HandlerT
<1>5. /\ handler'[w].state = "dropped"
      /\ handler'[w].freezing = handler[w].freezing /\ handler'[w].photo = handler[w].photo
      /\ handler'[w].expected = handler[w].expected
      /\ \A v \in Workers : v # w => handler'[v] = handler[v]
  BY <1>4 DEF IInv, Types, HandlerT
<1>6. \A v \in Workers : Bare(v) => Bare(v)'
  BY <1>3, <1>5 DEF Bare
<1>7. Steady'
  <2>1. /\ ~proc'[w].alive /\ Bare(w)' /\ ~handler'[w].expected /\ handler'[w].photo # "ceded"
    BY <1>1, <1>3, <1>5, <1>6 DEF IInv, Steady, SteadyWorker, SteadyRequest
  <2> QED
    BY <2>1, <1>3, <1>5, <1>6 DEF IInv, Steady, SteadyWorker, SteadyRequest
<1>8. \A v \in Workers : Elsewhere(v) => Elsewhere(v)'
  BY <1>5, <1>6 DEF Elsewhere
<1>9. Elsewhere(w)'
  BY <1>1, <1>5, <1>6 DEF Elsewhere
<1>10. ~NoDeath'
  BY <1>1, <1>3 DEF IInv, Whole, Guarded, NoDeath
<1>11. Whole'
  BY <1>3, <1>10, WholeDies DEF Answered
<1>12. CASE lost
  <2>1. vertex' = [known |-> FALSE, frozen |-> FALSE, hold |-> FALSE, placement |-> None]
        /\ deposit'.parcel = {}
    BY <1>2, <1>12
  <2>2. OnlyHome'
    BY <1>8, <1>9, <1>12 DEF IInv, OnlyHome
  <2>3. Knows' /\ Parcels'
    BY <1>3, <2>1 DEF IInv, Knows, Parcels
  <2> QED
    BY <1>7, <1>11, <2>1, <2>2, <2>3, SendersAre DEF IInv
<1>13. CASE ~lost
  <2>1. /\ vertex'.known = vertex.known /\ vertex'.frozen = vertex.frozen /\ vertex'.hold = vertex.hold
        /\ vertex'.placement = (IF vertex.placement = w THEN None ELSE vertex.placement)
        /\ deposit' = deposit
    BY <1>2, <1>13 DEF IInv, Types, VertexT
  <2>2. OnlyHome'
    BY <1>8, <1>9, <2>1 DEF IInv, OnlyHome
  <2>3. Knows'
    <3>1. CASE vertex.placement = w
      <4>1. vertex.frozen
        BY <1>13, <3>1, SendersAre DEF IInv, Knows
      <4> QED
        BY <4>1, <2>1, <3>1 DEF IInv, Knows
    <3>2. CASE vertex.placement # w
      BY <3>2, <1>5, <2>1 DEF IInv, Types, VertexT, Knows
    <3> QED
      BY <3>1, <3>2
  <2>4. Parcels'
    BY <1>3, <2>1 DEF IInv, Parcels
  <2>5. ASSUME NEW v \in Workers, v = vertex'.placement PROVE Settled(v)'
    <3>1. v = vertex.placement /\ v # w
      BY <2>1, <2>5, SendersAre
    <3>2. Settled(v)
      BY <3>1 DEF IInv
    <3> QED
      BY <3>1, <3>2, <1>3, <1>5, <2>1, Unseen DEF IInv
  <2> QED
    BY <1>7, <1>11, <2>2, <2>3, <2>4, <2>5 DEF IInv
<1> QED
  BY <1>12, <1>13

\* Who is idle is blocked, and ordered away.
LEMMA FreezeHostedUserKeeps ==
    ASSUME Calm, IInv, Types', NEW w \in Workers, FreezeHostedUser(w) PROVE IInv'
<1> DEFINE n == spent.orders + 1
           m == [kind |-> "freeze", who |-> n, frozen |-> FALSE]
<1>1. /\ handler[w].freezing = 0 /\ handler[w].state = "running"
      /\ vertex.known /\ vertex.placement = w
      /\ handler[w].photo = "idle"
      /\ vertex' = [vertex EXCEPT !.hold = TRUE]
      /\ handler' = [handler EXCEPT ![w].freezing = n]
      /\ down' = [down EXCEPT ![w] = Append(@, m)]
      /\ spent' = [spent EXCEPT !.orders = n]
      /\ UNCHANGED <<placing, rq, up, proc, deposit>>
      /\ spent.orders < MaxOrders
  BY DEF FreezeHostedUser, TurnFree, GiveOrder, Calm
<1>2. n \in OrderIds /\ n # 0 /\ spent'.crashes = spent.crashes
  BY <1>1, SendersAre DEF IInv, Types, SpentT, OrderIds
<1>3. m \in Mail /\ down[w] \in Seq(Mail)
  BY <1>2, SendersAre DEF IInv, Types, Mail, Orders
<1>20. m.kind = "freeze" /\ m.who = n
  OBVIOUS
<1> HIDE DEF n, m
<1>4. /\ handler'[w].freezing = n /\ handler'[w].state = "running"
      /\ handler'[w].hosted = handler[w].hosted /\ handler'[w].photo = "idle"
      /\ handler'[w].expected = handler[w].expected
      /\ \A v \in Workers : v # w => handler'[v] = handler[v]
  BY <1>1 DEF IInv, Types, HandlerT
<1>5. /\ vertex'.known /\ vertex'.placement = w /\ vertex'.frozen = vertex.frozen /\ vertex'.hold
  BY <1>1 DEF IInv, Types, VertexT
<1>6. /\ down'[w] = Append(down[w], m) /\ Range(down'[w]) = Range(down[w]) \cup {m}
      /\ \A v \in Workers : v # w => down'[v] = down[v]
  BY <1>1, <1>3, Appended DEF IInv, Types
<1>7. Settled(w)
  BY <1>1 DEF IInv
<1>8. ~Ripe(w) /\ proc[w].orders = {} /\ proc[w].dep = NoDeparture /\ ~Judged(w)
  BY <1>1, <1>7 DEF Settled, Order
<1>9. SeenIdle(w) /\ ~HoldsAdopted(w) /\ ~SaysAdopted(w)
  BY <1>1, <1>7 DEF Settled, Rows, SeenIdle
<1>10. proc[w].alive => proc[w].row = "active" \/ SaysFrozen(w)
  BY <1>7, <1>9 DEF Settled, Rows, Cold
<1>11. OnlyHome' /\ \A v \in Workers : v # w => SteadyWorker(v)'
  <2>1. \A v \in Workers : v # w => /\ down'[v] = down[v] /\ up'[v] = up[v]
                                    /\ handler'[v] = handler[v] /\ proc'[v] = proc[v]
    BY <1>1, <1>4, <1>6
  <2> QED
    BY <2>1, <1>1, <1>5, OthersStay
<1>12. Steady'
  <2>1. SteadyWorker(w)
    BY DEF IInv, Steady
  <2>2. SteadyWorker(w)'
    BY <2>1, <1>1, <1>4 DEF SteadyWorker
  <2> QED
    BY <2>2, <1>1, <1>11 DEF IInv, Steady, SteadyRequest
<1>13. Knows'
  BY <1>1, <1>4, <1>5, SendersAre DEF IInv, Knows
<1>14. Whole' /\ Parcels'
  <2>1. Kept' = Kept /\ Answered' = Answered
    BY <1>1, SameKept DEF Answered
  <2>2. \A v \in Workers : handler'[v].state = handler[v].state
    BY <1>1, <1>4
  <2> QED
    BY <2>1, <2>2, <1>1, <1>2, WholeStays
<1>15. /\ Here(w)' = Here(w) /\ ~HoldsAdopted(w)' /\ ~SaysAdopted(w)' /\ ~Judged(w)'
       /\ SeenIdle(w)' /\ (SaysFrozen(w)' <=> SaysFrozen(w))
  BY <1>1, <1>4, <1>8, <1>9 DEF Here, HoldsAdopted, SaysAdopted, Judged, SeenIdle, SaysFrozen
<1>16. Carried(w)'
  <2>1. \A o \in Range(down[w]) : Before(o, m)
    BY <1>7, <1>8, <1>20 DEF Settled, Carried, Ripe, Before
  <2>2. OrderedDown(down'[w])
    BY <2>1, <1>3, <1>6, <1>7, DownAppends DEF Settled, Carried
  <2> QED
    BY <2>2, <1>1, <1>6, <1>7, <1>20 DEF Settled, Carried
<1>17. Told(w)'
  BY <1>1, <1>7, <1>8, <1>15 DEF Settled, Told, Honest
<1>18. Order(w)'
  <2>1. \A o \in Range(down'[w]) : o.kind = "freeze" => o.who = n
    BY <1>6, <1>8, <1>20 DEF Ripe
  <2>2. \A o \in Range(up'[w]) : o.kind \notin Verdicts
    BY <1>15 DEF Judged
  <2> QED
    BY <2>1, <2>2, <1>1, <1>2, <1>4, <1>5, <1>8, <1>10, <1>15 DEF Order
<1>19. Rows(w)'
  <2>1. ~Cold(w)
    BY <1>9 DEF Cold
  <2> QED
    BY <2>1, <1>1, <1>5, <1>7, <1>9, <1>15 DEF Settled, Rows
<1> QED
  BY <1>5, <1>11, <1>12, <1>13, <1>14, <1>16, <1>17, <1>18, <1>19 DEF IInv, Settled

\* A request enters the process, with or without his store to be looked for.
LEMMA ReceiveRequestKeeps ==
    ASSUME IInv, Types', NEW w \in Workers, ReceiveRequest(w) PROVE IInv'
<1> DEFINE m == Head(down[w])
           r == m.who
           p == [proc[w] EXCEPT !.pend = @ \cup {r}]
           wakes == m.frozen /\ p.row = "absent"
           phase == IF wakes THEN "pulling"
                    ELSE IF m.frozen /\ p.row = "unfreezing" THEN "awaiting" ELSE Stage(p)
<1>1. /\ proc[w].alive /\ down[w] # <<>> /\ m.kind = "request"
      /\ down' = [down EXCEPT ![w] = Tail(@)]
      /\ proc' = [proc EXCEPT ![w] = IF wakes THEN [p EXCEPT !.row = "unfreezing"] ELSE p]
      /\ rq' = [rq EXCEPT ![r].phase = phase]
      /\ UNCHANGED <<vertex, placing, handler, up, deposit, spent>>
  BY DEF ReceiveRequest
<1>2. /\ m \in Mail /\ Range(down[w]) = {m} \cup Range(down'[w]) /\ down'[w] = Tail(down[w])
      /\ \A v \in Workers : v # w => down'[v] = down[v]
  BY <1>1, Tailed DEF IInv, Types
<1>3. r \in Requests
  BY <1>1, <1>2 DEF Mail
<1> HIDE DEF m, r
<1>4. /\ w = vertex.placement /\ Settled(w) /\ vertex.known /\ handler[w].state = "running"
  BY <1>1, AtHome DEF Bare
<1>5. rq[r].phase = "sent" /\ rq[r].on = w /\ rq[r].events = {}
  BY <1>1, <1>2, <1>3, <1>4 DEF Settled, Carried, IInv, Steady, SteadyRequest, r
<1>6. /\ proc[w].dep = NoDeparture /\ proc[w].orders = {} /\ ~Judged(w)
  BY <1>1, <1>4 DEF Settled, Order
<1>7. ~SaysFrozen(w)
  BY <1>4, <1>6 DEF Settled, Told, Honest, SaysFrozen, Judged, Verdicts
<1>8. proc[w].row # "active" => Cold(w) /\ m.frozen
  BY <1>1, <1>2, <1>4, <1>7 DEF Settled, Rows, Cold
<1>9. /\ proc'[w].row = (IF wakes THEN "unfreezing" ELSE proc[w].row)
      /\ proc'[w].pend = proc[w].pend \cup {r}
      /\ proc'[w].alive /\ proc'[w].quitting = proc[w].quitting /\ proc'[w].flag = proc[w].flag
      /\ proc'[w].dep = proc[w].dep /\ proc'[w].orders = proc[w].orders
      /\ proc'[w].store = proc[w].store /\ proc'[w].copy = proc[w].copy
      /\ (wakes <=> m.frozen /\ proc[w].row = "absent")
      /\ \A v \in Workers : v # w => proc'[v] = proc[v]
  BY <1>1 DEF IInv, Types, Processes
<1>10. /\ rq'[r].phase = phase /\ rq'[r].on = w /\ rq'[r].events = {} /\ rq'[r].base = rq[r].base
       /\ \A q \in Requests : q # r => rq'[q] = rq[q]
  BY <1>1, <1>3, <1>5 DEF IInv, Types, RqT
<1>11. /\ phase \in Inside
       /\ proc[w].row = "absent" => phase = "pulling" /\ wakes
       /\ proc[w].row = "unfreezing" => phase = "awaiting" /\ ~wakes
       /\ proc[w].row = "active" => phase \in {"fetching", "serving"} /\ ~wakes
       /\ proc[w].row \in {"absent", "unfreezing", "active"}
  BY <1>8 DEF Stage, Inside, IInv, Types, Processes
<1> HIDE DEF wakes, phase
<1>12. Here(w)' = Here(w) \cup {r} /\ r \notin Here(w)
  BY <1>3, <1>5, <1>10, <1>11 DEF Here, Inside
<1>13. /\ HoldsAdopted(w)' <=> HoldsAdopted(w)
       /\ SaysAdopted(w)' <=> SaysAdopted(w)
       /\ SaysFrozen(w)' <=> SaysFrozen(w)
       /\ SeenIdle(w)' <=> SeenIdle(w)
       /\ ~Judged(w)'
       /\ Ripe(w)' => Ripe(w)
  <2>1. Here(w) \subseteq Requests
    BY DEF Here
  <2>3. \A q \in Here(w) : rq'[q] = rq[q]
    BY <2>1, <1>10, <1>12
  <2>2. HoldsAdopted(w)' <=> HoldsAdopted(w)
    BY <2>3, <1>10, <1>12 DEF HoldsAdopted
  <2> QED
    BY <2>2, <1>1, <1>2, <1>6 DEF SaysAdopted, SaysFrozen, SeenIdle, Judged, Ripe
<1>14. OnlyHome' /\ \A v \in Workers : v # w => SteadyWorker(v)'
  <2>1. \A v \in Workers : v # w => /\ down'[v] = down[v] /\ up'[v] = up[v]
                                    /\ handler'[v] = handler[v] /\ proc'[v] = proc[v]
    BY <1>1, <1>2, <1>9
  <2> QED
    BY <2>1, <1>1, <1>4, <1>10, OthersStay
<1>15. Steady'
  <2>1. SteadyWorker(w)
    BY DEF IInv, Steady
  <2>2. SteadyWorker(w)'
    BY <2>1, <1>1, <1>4, <1>9 DEF SteadyWorker
  <2>3. \A q \in Requests : SteadyRequest(q)'
    BY <1>10, <1>11 DEF IInv, Steady, SteadyRequest, Live, Inside
  <2> QED
    BY <2>2, <2>3, <1>1, <1>14 DEF IInv, Steady
<1>16. Knows'
  BY <1>1 DEF IInv, Knows
<1>17. Whole' /\ Parcels'
  <2>1. Answered' = Answered
    BY <1>5, <1>10, <1>11 DEF Answered, Inside
  <2>2. Kept' = Kept
    BY <2>1, <1>1, SameKept
  <2>3. proc'[w].row = "active" <=> proc[w].row = "active"
    BY <1>9, <1>11
  <2> QED
    BY <2>1, <2>2, <2>3, <1>1, <1>9, <1>10, WholeStays
<1>18. Carried(w)'
  <2>1. OrderedDown(down'[w]) /\ \A n \in Range(down'[w]) : Before(m, n)
    BY <1>1, <1>2, <1>4, DownTail DEF Settled, Carried, IInv, Types, m
  <2>2. \A n \in Range(down'[w]) : n.kind = "request" => n.who # r /\ n.who \in Requests
    BY <2>1, <1>2, Letters DEF Before, Mail, r, IInv
  <2>3. \A q \in Requests : rq'[q].on = w /\ rq'[q].phase = "sent" =>
          \E n \in Range(down'[w]) : n.kind = "request" /\ n.who = q
    BY <1>2, <1>4, <1>10, <1>11 DEF Settled, Carried, Inside, r
  <2> QED
    BY <2>1, <2>2, <2>3, <1>2, <1>4, <1>10 DEF Settled, Carried
<1>19. Told(w)'
  <2>1. \A n \in Range(up'[w]) : Honest(n, w)'
    BY <1>1, <1>4, <1>5, <1>10 DEF Settled, Told, Honest
  <2> QED
    BY <2>1, <1>1, <1>4, <1>9, <1>10, <1>11, <1>13 DEF Settled, Told, Inside
<1>20. Order(w)'
  <2>1. handler[w].freezing # 0 => proc'[w].row = "active"
    BY <1>1, <1>4, <1>7, <1>9, <1>11 DEF Settled, Order
  <2> QED
    BY <2>1, <1>1, <1>2, <1>4, <1>6, <1>9, <1>13 DEF Settled, Order
<1>21. Rows(w)'
  <2>1. \A q, t \in Here(w)' : rq'[q].phase = "pulling" /\ rq'[t].phase = "pulling" => q = t
    BY <1>1, <1>4, <1>10, <1>11, <1>12 DEF Settled, Rows
  <2>2. \A q \in Here(w)' :
          /\ rq'[q].phase \in {"pulling", "awaiting"} => proc'[w].row = "unfreezing"
          /\ rq'[q].phase \in {"fetching", "serving"} => proc'[w].row = "active"
    BY <1>1, <1>4, <1>9, <1>10, <1>11, <1>12 DEF Settled, Rows
  <2>3. proc'[w].row # "active" => Cold(w)'
    BY <1>1, <1>2, <1>8, <1>9, <1>11, <1>13 DEF Cold
  <2>4. proc'[w].pend = Here(w)'
    BY <1>1, <1>4, <1>9, <1>12 DEF Settled, Rows
  <2> QED
    BY <2>1, <2>2, <2>3, <2>4, <1>1, <1>4, <1>6, <1>7, <1>9, <1>11, <1>13 DEF Settled, Rows
<1> QED
  BY <1>1, <1>4, <1>14, <1>15, <1>16, <1>17, <1>18, <1>19, <1>20, <1>21 DEF IInv, Settled

\* What a step of the process that sends and takes nothing leaves alone.
LEMMA LanesStay ==
    ASSUME NEW w \in Workers, Settled(w), Types, UNCHANGED <<down, up, handler>>,
           proc'[w].alive = proc[w].alive,
           \A r \in Requests :
              rq[r].phase \in {"sent", "replied"} \/ rq'[r].phase \in {"sent", "replied"} => rq'[r] = rq[r]
    PROVE  /\ Carried(w)' /\ Told(w)'
           /\ Ripe(w)' <=> Ripe(w)
           /\ Judged(w)' <=> Judged(w)
           /\ SaysFrozen(w)' <=> SaysFrozen(w)
           /\ SaysAdopted(w)' <=> SaysAdopted(w)
           /\ SeenIdle(w)' <=> SeenIdle(w)
<1>1. /\ Ripe(w)' <=> Ripe(w)
      /\ Judged(w)' <=> Judged(w)
      /\ SaysFrozen(w)' <=> SaysFrozen(w)
      /\ SaysAdopted(w)' <=> SaysAdopted(w)
      /\ SeenIdle(w)' <=> SeenIdle(w)
  BY DEF Ripe, Judged, SaysFrozen, SaysAdopted, SeenIdle
<1>2. \A m \in Range(down[w]) : m.kind = "request" => m.who \in Requests
  BY Letters DEF Mail
<1>3. Carried(w)'
  BY <1>2 DEF Settled, Carried
<1>4. Told(w)'
  <2>1. \A m \in Range(up'[w]) : Honest(m, w)'
    BY DEF Settled, Told, Honest
  <2> QED
    BY <2>1, <1>1 DEF Settled, Told
<1> QED
  BY <1>1, <1>3, <1>4

\* The order is taken from the lane, which ends there.
LEMMA ReceiveOrderKeeps ==
    ASSUME IInv, Types', NEW w \in Workers, ReceiveOrder(w) PROVE IInv'
<1> DEFINE m == Head(down[w])
<1>1. proc[w].alive /\ down[w] # <<>> /\ m.kind # "request" /\ down' = [down EXCEPT ![w] = Tail(@)]
  BY DEF ReceiveOrder
<1>2. /\ m \in Mail /\ Range(down[w]) = {m} \cup Range(down'[w]) /\ down'[w] = Tail(down[w])
      /\ \A v \in Workers : v # w => down'[v] = down[v]
  BY <1>1, Tailed DEF IInv, Types
<1>3. /\ w = vertex.placement /\ Settled(w) /\ vertex.known /\ handler[w].state = "running"
  BY <1>1, AtHome DEF Bare
<1>4. m.kind = "freeze"
  BY <1>1, <1>2, <1>3 DEF Settled, Carried
<1>5. /\ proc' = [proc EXCEPT ![w].orders = @ \cup {m.who}]
      /\ UNCHANGED <<vertex, placing, handler, rq, up, deposit, spent>>
  BY <1>4 DEF ReceiveOrder
<1>6. Ripe(w) /\ handler[w].freezing # 0 /\ m.who = handler[w].freezing
  BY <1>2, <1>3, <1>4 DEF Ripe, Settled, Order
<1>7. proc[w].orders = {} /\ proc[w].dep = NoDeparture /\ ~Judged(w)
  BY <1>3, <1>6 DEF Settled, Order
<1>8. down'[w] = <<>> /\ Range(down'[w]) = {}
  <2>1. \A n \in Range(down'[w]) : Before(m, n)
    BY <1>1, <1>2, <1>3, DownTail DEF Settled, Carried, IInv, Types
  <2>2. Range(down'[w]) = {}
    BY <2>1, <1>4 DEF Before
  <2> QED
    BY <2>2, InRange DEF Types
<1> HIDE DEF m
<1>9. /\ proc'[w].orders = {handler[w].freezing}
      /\ proc'[w].row = proc[w].row /\ proc'[w].pend = proc[w].pend
      /\ proc'[w].alive /\ proc'[w].quitting = proc[w].quitting /\ proc'[w].flag = proc[w].flag
      /\ proc'[w].dep = proc[w].dep /\ proc'[w].store = proc[w].store /\ proc'[w].copy = proc[w].copy
      /\ \A v \in Workers : v # w => proc'[v] = proc[v]
  BY <1>1, <1>5, <1>6, <1>7 DEF IInv, Types, Processes
<1>10. OnlyHome' /\ \A v \in Workers : v # w => SteadyWorker(v)'
  <2>1. \A v \in Workers : v # w => /\ down'[v] = down[v] /\ up'[v] = up[v]
                                    /\ handler'[v] = handler[v] /\ proc'[v] = proc[v]
    BY <1>2, <1>5, <1>9
  <2> QED
    BY <2>1, <1>3, <1>5, OthersStay
<1>11. Steady'
  <2>1. SteadyWorker(w)
    BY DEF IInv, Steady
  <2>2. SteadyWorker(w)'
    BY <2>1, <1>3, <1>5, <1>9 DEF SteadyWorker
  <2> QED
    BY <2>2, <1>5, <1>10 DEF IInv, Steady, SteadyRequest
<1>12. Knows'
  BY <1>5 DEF IInv, Knows
<1>13. Whole' /\ Parcels'
  <2>1. Kept' = Kept /\ Answered' = Answered
    BY <1>5, SameKept DEF Answered
  <2> QED
    BY <2>1, <1>1, <1>5, <1>9, WholeStays
<1>14. /\ Here(w)' = Here(w) /\ (HoldsAdopted(w)' <=> HoldsAdopted(w))
       /\ (SaysAdopted(w)' <=> SaysAdopted(w)) /\ ~Judged(w)' /\ (SeenIdle(w)' <=> SeenIdle(w))
       /\ (SaysFrozen(w)' <=> SaysFrozen(w)) /\ ~Ripe(w)'
  BY <1>5, <1>7, <1>8 DEF Here, HoldsAdopted, SaysAdopted, Judged, SeenIdle, SaysFrozen, Ripe
<1>15. Carried(w)'
  <2>1. OrderedDown(down'[w])
    BY <1>8, EmptyLane
  <2>2. \A q \in Requests : ~(rq[q].on = w /\ rq[q].phase = "sent")
    <3>1. \A n \in Range(down[w]) : n.kind # "request"
      BY <1>2, <1>4, <1>8
    <3> QED
      BY <3>1, <1>3 DEF Settled, Carried
  <2> QED
    BY <2>1, <2>2, <1>5, <1>8 DEF Carried
<1>16. Told(w)'
  BY <1>3, <1>1, <1>5, <1>9, <1>14 DEF Settled, Told, Honest
<1>17. Order(w)'
  BY <1>1, <1>3, <1>5, <1>6, <1>7, <1>8, <1>9, <1>14 DEF Settled, Order
<1>18. Rows(w)'
  <2>1. Cold(w) => Cold(w)'
    BY <1>5, <1>8, <1>14 DEF Cold
  <2> QED
    BY <2>1, <1>1, <1>3, <1>5, <1>7, <1>9, <1>14 DEF Settled, Rows
<1> QED
  BY <1>3, <1>5, <1>10, <1>11, <1>12, <1>13, <1>15, <1>16, <1>17, <1>18 DEF IInv, Settled

\* A departure gets the folder, or waits for it.
LEMMA DepartureSettles ==
    ASSUME IInv, Types', NEW w \in Workers, Settled(w), w = vertex.placement,
           handler[w].freezing # 0, proc[w].alive, ~Judged(w), down[w] = <<>>, Here(w) = {},
           proc[w].row = "active", proc'[w].row = "active",
           UNCHANGED <<vertex, placing, handler, rq, down, up, spent>>,
           \A v \in Workers : v # w => proc'[v] = proc[v],
           proc'[w].alive = proc[w].alive, proc'[w].quitting = proc[w].quitting,
           proc'[w].flag = proc[w].flag, proc'[w].store = proc[w].store,
           proc'[w].pend = proc[w].pend, proc'[w].orders = {},
           proc'[w].dep.by = "order", proc'[w].dep.order = handler[w].freezing,
           deposit'.parcel = deposit.parcel,
           \/ /\ proc'[w].dep.step = "writing" /\ proc'[w].copy = proc[w].store
              /\ deposit.lock = None /\ deposit'.lock = w
           \/ /\ proc'[w].dep.step = "locking" /\ proc[w].dep.step # "writing"
              /\ deposit'.lock = deposit.lock
    PROVE  IInv'
<1>1. OnlyHome' /\ \A v \in Workers : v # w => SteadyWorker(v)'
  <2>1. \A v \in Workers : v # w => /\ down'[v] = down[v] /\ up'[v] = up[v]
                                    /\ handler'[v] = handler[v] /\ proc'[v] = proc[v]
    OBVIOUS
  <2> QED
    BY <2>1, OthersStay
<1>2. Steady'
  <2>1. SteadyWorker(w)
    BY DEF IInv, Steady
  <2>2. SteadyWorker(w)'
    <3>1. handler[w].state = "running"
      BY <2>1 DEF SteadyWorker
    <3> QED
      BY <2>1, <3>1 DEF SteadyWorker
  <2> QED
    BY <2>2, <1>1 DEF IInv, Steady, SteadyRequest
<1>3. Knows'
  BY DEF IInv, Knows
<1>4. Kept' = Kept /\ Answered' = Answered
  BY SameKept DEF Answered
<1>5. Parcels'
  BY DEF IInv, Parcels
<1>6. Whole'
  <2>1. Based'
    BY <1>4 DEF IInv, Whole, Based
  <2>2. ASSUME NoDeath', NEW v \in Workers PROVE Guarded(v)'
    <3>1. Guarded(v) /\ (deposit.lock = w <=> proc[w].dep.step = "writing")
      BY <2>2 DEF IInv, Whole, NoDeath, Guarded
    <3>2. CASE v = w
      BY <3>1, <3>2, <1>4, SendersAre DEF Guarded
    <3>3. CASE v # w
      BY <3>1, <3>3, <1>4, SendersAre DEF Guarded
    <3> QED
      BY <3>2, <3>3
  <2>3. Parked'
    BY DEF Parked
  <2> QED
    BY <2>1, <2>2, <2>3 DEF Whole
<1>7. Here(w)' = {} /\ ~HoldsAdopted(w)'
  BY DEF Here, HoldsAdopted
<1>8. /\ Carried(w)' /\ Told(w)'
      /\ Ripe(w)' <=> Ripe(w)
      /\ Judged(w)' <=> Judged(w)
      /\ SaysFrozen(w)' <=> SaysFrozen(w)
      /\ SaysAdopted(w)' <=> SaysAdopted(w)
      /\ SeenIdle(w)' <=> SeenIdle(w)
  BY LanesStay DEF IInv
<1>9. ~HoldsAdopted(w) /\ ~Ripe(w)
  BY EmptyLane DEF HoldsAdopted, Ripe
<1>10. Order(w)'
  <2>1. proc'[w].dep # NoDeparture
    BY DEF NoDeparture
  <2> QED
    BY <2>1, <1>7, <1>8, <1>9 DEF Settled, Order
<1>11. Rows(w)'
  BY <1>7, <1>8, <1>9 DEF Settled, Rows
<1> QED
  BY <1>1, <1>2, <1>3, <1>5, <1>6, <1>8, <1>10, <1>11 DEF IInv, Settled

LEMMA ActOnOrderKeeps ==
    ASSUME IInv, Types', NEW w \in Workers, ActOnOrder(w) PROVE IInv'
<1> DEFINE p == proc[w]
<1>1. PICK order \in p.orders :
        LET q == [p EXCEPT !.orders = @ \ {order}]
            leaves == Door(q, [by |-> "order", order |-> order, step |-> "none"])
        IN  /\ \/ /\ p.row = "absent" \/ (p.row = "active" /\ p.pend = {} /\ p.dep # NoDeparture)
                  /\ Outbound(w, q, "refused", order, {})
                  /\ UNCHANGED deposit
               \/ /\ p.row = "active" /\ p.pend = {} /\ p.dep = NoDeparture
                  /\ proc' = [proc EXCEPT ![w] = leaves]
                  /\ deposit' = LockedBy(w, leaves)
                  /\ UNCHANGED up
            /\ UNCHANGED <<vertex, placing, handler, rq, down, purged, spent>>
  BY DEF ActOnOrder
<1> DEFINE q == [p EXCEPT !.orders = @ \ {order}]
           leaves == Door(q, [by |-> "order", order |-> order, step |-> "none"])
<1>2. /\ w = vertex.placement /\ Settled(w) /\ vertex.known /\ handler[w].state = "running"
  BY <1>1, AtHome DEF Bare
<1>3. /\ p.dep = NoDeparture /\ ~Judged(w) /\ down[w] = <<>>
      /\ handler[w].freezing # 0 /\ p.orders = {handler[w].freezing} /\ order = handler[w].freezing
  BY <1>1, <1>2 DEF Settled, Order
<1>4. p.alive
  BY <1>1 DEF IInv, Steady, SteadyWorker, Gone
<1>5. ~SaysFrozen(w)
  BY <1>2, <1>3 DEF Settled, Told, Honest, SaysFrozen, Judged, Verdicts
<1>6. p.row = "active"
  BY <1>2, <1>3, <1>4, <1>5 DEF Settled, Order
<1>7. /\ p.pend = {} /\ proc' = [proc EXCEPT ![w] = leaves] /\ deposit' = LockedBy(w, leaves)
      /\ UNCHANGED <<vertex, placing, handler, rq, down, up, spent>>
  BY <1>1, <1>3, <1>6
<1>8. Here(w) = {}
  BY <1>2, <1>4, <1>7 DEF Settled, Rows
<1>9. /\ q.row = "active" /\ q.pend = {} /\ q.orders = {} /\ q.alive = p.alive
      /\ q.quitting = p.quitting /\ q.flag = p.flag /\ q.store = p.store /\ q.copy = p.copy
      /\ q \in Processes
  <2>1. p \in Processes
    BY DEF IInv, Types
  <2>2. p.orders \ {order} = {}
    BY <1>3
  <2> HIDE DEF p
  <2> QED
    BY <2>1, <2>2, <1>6, <1>7, SendersAre DEF Processes
<1> HIDE DEF q
<1>10. /\ leaves.row = "active" /\ leaves.pend = {} /\ leaves.orders = {} /\ leaves.alive = p.alive
       /\ leaves.quitting = p.quitting /\ leaves.flag = p.flag /\ leaves.store = p.store
       /\ leaves.dep.by = "order" /\ leaves.dep.order = order
       /\ \/ deposit.lock = None /\ leaves.dep.step = "writing" /\ leaves.copy = p.store
          \/ deposit.lock # None /\ leaves.dep.step = "locking"
  <2>1. CASE deposit.lock = None
    BY <2>1, <1>9 DEF Door, Processes
  <2>2. CASE deposit.lock # None
    BY <2>2, <1>9 DEF Door, Processes
  <2> QED
    BY <2>1, <2>2
<1> HIDE DEF leaves
<1>11. proc'[w] = leaves /\ \A v \in Workers : v # w => proc'[v] = proc[v]
  BY <1>7 DEF IInv, Types
<1>12. /\ deposit'.parcel = deposit.parcel
       /\ \/ /\ leaves.dep.step = "writing" /\ leaves.copy = p.store
             /\ deposit.lock = None /\ deposit'.lock = w
          \/ /\ leaves.dep.step = "locking" /\ deposit'.lock = deposit.lock
  BY <1>7, <1>10 DEF LockedBy, IInv, Types, DepositT
<1>13. p.dep.step # "writing"
  BY <1>3 DEF NoDeparture
<1>14. UNCHANGED <<vertex, placing, handler, rq, down, up, spent>>
  BY <1>7
<1>15. /\ proc'[w].row = "active" /\ proc'[w].alive = proc[w].alive
       /\ proc'[w].quitting = proc[w].quitting
       /\ proc'[w].flag = proc[w].flag /\ proc'[w].store = proc[w].store
       /\ proc'[w].pend = proc[w].pend /\ proc'[w].orders = {}
       /\ proc'[w].dep.by = "order" /\ proc'[w].dep.order = handler[w].freezing
       /\ deposit'.parcel = deposit.parcel
       /\ \/ /\ proc'[w].dep.step = "writing" /\ proc'[w].copy = proc[w].store
             /\ deposit.lock = None /\ deposit'.lock = w
          \/ /\ proc'[w].dep.step = "locking" /\ proc[w].dep.step # "writing"
             /\ deposit'.lock = deposit.lock
  BY <1>3, <1>7, <1>10, <1>11, <1>12, <1>13
<1> QED
  BY <1>2, <1>3, <1>4, <1>6, <1>8, <1>11, <1>14, <1>15, DepartureSettles

LEMMA DepartureGoesOnKeeps ==
    ASSUME IInv, Types', NEW w \in Workers, DepartureGoesOn(w) PROVE IInv'
<1> DEFINE p == proc[w]
           held == [p EXCEPT !.dep.step = "writing", !.copy = p.store, !.carries = p.conn]
<1>1. p.dep # NoDeparture /\ p.dep.by = "order" /\ p.dep.step = "locking"
  BY DEF DepartureGoesOn, IInv, Steady, SteadyWorker, NoDeparture
<1>2. /\ deposit.lock = None /\ proc' = [proc EXCEPT ![w] = held] /\ deposit' = LockedBy(w, held)
      /\ UNCHANGED <<vertex, placing, handler, rq, down, up, spent>>
  BY <1>1 DEF DepartureGoesOn
<1>3. /\ w = vertex.placement /\ Settled(w)
  BY <1>1, AtHome DEF Bare
<1>4. /\ ~Judged(w) /\ down[w] = <<>> /\ Here(w) = {}
      /\ handler[w].freezing # 0 /\ p.dep.order = handler[w].freezing /\ p.orders = {}
  BY <1>1, <1>3 DEF Settled, Order
<1>5. p.alive
  BY <1>1 DEF IInv, Steady, SteadyWorker, Gone
<1>6. p.row = "active"
  BY <1>1, <1>3 DEF Settled, Rows
<1>7. /\ held.row = p.row /\ held.pend = p.pend /\ held.orders = p.orders /\ held.alive = p.alive
      /\ held.quitting = p.quitting /\ held.flag = p.flag /\ held.store = p.store
      /\ held.dep.by = p.dep.by /\ held.dep.order = p.dep.order /\ held.dep.step = "writing"
      /\ held.copy = p.store
  <2>1. p \in Processes
    BY DEF IInv, Types
  <2> HIDE DEF p
  <2> QED
    BY <2>1 DEF Processes, Departures
<1> HIDE DEF held
<1>8. proc'[w] = held /\ \A v \in Workers : v # w => proc'[v] = proc[v]
  BY <1>2 DEF IInv, Types
<1>9. deposit'.parcel = deposit.parcel /\ deposit'.lock = w
  BY <1>2, <1>7 DEF LockedBy, IInv, Types, DepositT
<1>10. UNCHANGED <<vertex, placing, handler, rq, down, up, spent>>
  BY <1>2
<1>11. /\ proc'[w].row = "active" /\ proc'[w].alive = proc[w].alive
       /\ proc'[w].quitting = proc[w].quitting
       /\ proc'[w].flag = proc[w].flag /\ proc'[w].store = proc[w].store
       /\ proc'[w].pend = proc[w].pend /\ proc'[w].orders = {}
       /\ proc'[w].dep.by = "order" /\ proc'[w].dep.order = handler[w].freezing
       /\ proc'[w].dep.step = "writing" /\ proc'[w].copy = proc[w].store
  BY <1>1, <1>4, <1>6, <1>7, <1>8
<1> QED
  BY <1>2, <1>3, <1>4, <1>5, <1>6, <1>8, <1>9, <1>10, <1>11, DepartureSettles

\* A step inside the process on the calls it has: the row, the store and the parcel may move.
\* The conditions are those of Rows that the step can disturb.
LEMMA InsideMoves ==
    ASSUME IInv, Types', NEW w \in Workers, Settled(w), w = vertex.placement,
           proc[w].alive, ~Judged(w), proc[w].dep = NoDeparture,
           UNCHANGED <<vertex, placing, handler, down, up, spent>>,
           \A v \in Workers : v # w => proc'[v] = proc[v],
           proc'[w].alive, proc'[w].quitting = proc[w].quitting, proc'[w].flag = proc[w].flag,
           proc'[w].pend = proc[w].pend, proc'[w].orders = proc[w].orders,
           proc'[w].dep = proc[w].dep,
           proc[w].row = "active" => proc'[w].row = "active",
           \A r \in Requests : /\ r \notin Here(w) => rq'[r] = rq[r]
                               /\ r \in Here(w) =>
                                    /\ rq'[r].on = w /\ rq'[r].phase \in Inside
                                    /\ rq'[r].base = rq[r].base
                                    /\ rq'[r].events \subseteq rq[r].events
                                                       \cup {"user_adopted", "new_connection"}
                                    /\ rq'[r].phase \in {"pulling", "awaiting"} =>
                                         proc'[w].row = "unfreezing" /\ rq'[r].phase = rq[r].phase
                                    /\ rq'[r].phase \in {"fetching", "serving"} =>
                                         proc'[w].row = "active",
           \/ /\ HoldsAdopted(w)' => HoldsAdopted(w)
              /\ HoldsAdopted(w) => HoldsAdopted(w)'
              /\ proc'[w].row = "active" => proc[w].row = "active"
           \/ proc[w].row # "active" /\ proc'[w].row = "active" /\ HoldsAdopted(w)',
           Parcels', Whole'
    PROVE  IInv'
<1>1. \A r \in Requests : rq[r].phase \in {"sent", "replied"} \/ rq'[r].phase \in {"sent", "replied"}
                            => rq'[r] = rq[r]
  BY DEF Here, Inside
<1>2. /\ Carried(w)' /\ Told(w)'
      /\ Ripe(w)' <=> Ripe(w)
      /\ Judged(w)' <=> Judged(w)
      /\ SaysFrozen(w)' <=> SaysFrozen(w)
      /\ SaysAdopted(w)' <=> SaysAdopted(w)
      /\ SeenIdle(w)' <=> SeenIdle(w)
  BY <1>1, LanesStay DEF IInv
<1>3. Here(w)' = Here(w) /\ Here(w) \subseteq Requests
  BY DEF Here
<1>4. handler[w].state = "running"
  BY DEF IInv, Steady, SteadyWorker
<1>5. OnlyHome' /\ \A v \in Workers : v # w => SteadyWorker(v)'
  <2>1. \A v \in Workers : v # w => /\ down'[v] = down[v] /\ up'[v] = up[v]
                                    /\ handler'[v] = handler[v] /\ proc'[v] = proc[v]
    OBVIOUS
  <2>2. \A r \in Requests : rq'[r] = rq[r] \/ rq'[r].on = w \/ rq'[r].phase \notin Live
    OBVIOUS
  <2> QED
    BY <2>1, <2>2, OthersStay
<1>6. Steady'
  <2>1. SteadyWorker(w)
    BY DEF IInv, Steady
  <2>2. SteadyWorker(w)'
    BY <2>1, <1>4 DEF SteadyWorker
  <2>3. ASSUME NEW r \in Requests PROVE SteadyRequest(r)'
    <3>1. SteadyRequest(r)
      BY DEF IInv, Steady
    <3>2. CASE r \notin Here(w)
      BY <3>1, <3>2 DEF SteadyRequest
    <3>3. CASE r \in Here(w)
      BY <3>1, <3>3 DEF SteadyRequest, Live, Inside
    <3> QED
      BY <3>2, <3>3
  <2> QED
    BY <2>2, <2>3, <1>5 DEF IInv, Steady
<1>7. Knows'
  BY DEF IInv, Knows
<1>8. ~SaysFrozen(w)
  BY DEF Settled, Told, Honest, SaysFrozen, Judged, Verdicts
<1>9. CASE /\ HoldsAdopted(w)' => HoldsAdopted(w)
           /\ HoldsAdopted(w) => HoldsAdopted(w)'
           /\ proc'[w].row = "active" => proc[w].row = "active"
  <2>1. Order(w)'
    BY <1>2, <1>3, <1>8, <1>9 DEF Settled, Order
  <2>2. Cold(w) => Cold(w)'
    BY <1>2, <1>9 DEF Cold
  <2> QED
    BY <2>1, <2>2, <1>2, <1>3, <1>5, <1>6, <1>7, <1>8, <1>9 DEF Settled, Rows, IInv
<1>10. CASE proc[w].row # "active" /\ proc'[w].row = "active" /\ HoldsAdopted(w)'
  <2>1. Cold(w)
    BY <1>8, <1>10 DEF Settled, Rows
  <2>2. handler[w].freezing = 0
    BY <1>8, <1>10 DEF Settled, Order
  <2>3. Order(w)'
    BY <2>2, <1>2, <1>3 DEF Settled, Order
  <2>4. ~SeenIdle(w)' /\ ~SaysAdopted(w)' /\ handler'[w].photo # "idle"
    BY <2>1, <1>2 DEF Cold, SeenIdle
  <2> QED
    BY <2>3, <2>4, <1>2, <1>3, <1>5, <1>6, <1>7, <1>8, <1>10 DEF Settled, Rows, IInv
<1> QED
  BY <1>9, <1>10

\* Where a call of his runs, he is placed, and no departure is under way.
LEMMA Working ==
    ASSUME IInv, NEW r \in Requests, rq[r].phase \in Inside
    PROVE  LET w == rq[r].on
           IN  /\ w \in Workers /\ w = vertex.placement /\ Settled(w) /\ vertex.known
               /\ handler[w].state = "running" /\ r \in Here(w)
               /\ proc[w].dep = NoDeparture /\ ~Judged(w) /\ ~SaysFrozen(w)
<1> DEFINE w == rq[r].on
<1>1. w \in Workers /\ r \in Here(w)
  BY DEF IInv, Steady, SteadyRequest, Live, Here
<1>2. ~Bare(w)
  BY <1>1 DEF Bare, Live
<1>3. w = vertex.placement /\ Settled(w) /\ vertex.known /\ handler[w].state = "running"
  BY <1>1, <1>2, AtHome
<1>4. proc[w].dep = NoDeparture /\ ~Judged(w)
  BY <1>1, <1>3 DEF Settled, Order
<1>5. ~SaysFrozen(w)
  BY <1>3, <1>4 DEF Settled, Told, Honest, SaysFrozen, Judged, Verdicts
<1> QED
  BY <1>1, <1>3, <1>4, <1>5

LEMMA FetchFailsKeeps ==
    ASSUME IInv, Types', NEW r \in Requests, FetchFails(r) PROVE IInv'
<1>0. PICK w \in Workers : w = rq[r].on
  BY Working DEF FetchFails, Inside
<1>1. /\ rq[r].phase = "fetching" /\ proc[w].alive
      /\ rq' = [rq EXCEPT ![r] = [@ EXCEPT !.phase = "failing", !.good = FALSE]]
      /\ UNCHANGED <<vertex, placing, handler, down, up, proc, deposit, spent>>
  BY <1>0 DEF FetchFails, Alive
<1>2. /\ w \in Workers /\ w = vertex.placement /\ Settled(w) /\ r \in Here(w)
      /\ proc[w].dep = NoDeparture /\ ~Judged(w)
  BY <1>0, <1>1, Working DEF Inside
<1>3. /\ rq'[r].phase = "failing" /\ rq'[r].on = w /\ rq'[r].events = rq[r].events
      /\ rq'[r].base = rq[r].base
      /\ \A q \in Requests : q # r => rq'[q] = rq[q]
  BY <1>0, <1>1 DEF IInv, Types, RqT
<1>4. \A q \in Here(w) : q \in Requests /\ rq[q].on = w /\ rq[q].phase \in Inside
  BY DEF Here
<1>5. Here(w)' = Here(w)
  BY <1>2, <1>3, <1>4 DEF Here, Inside
<1>6. HoldsAdopted(w)' <=> HoldsAdopted(w)
  BY <1>2, <1>3, <1>4, <1>5 DEF HoldsAdopted
<1>7. Answered' = Answered /\ Kept' = Kept
  <2>1. Answered' = Answered
    BY <1>1, <1>3 DEF Answered
  <2> QED
    BY <2>1, <1>1, SameKept
<1>8. Whole' /\ Parcels'
  BY <1>1, <1>3, <1>7, WholeStays
<1>9. \A q \in Here(w) : /\ rq[q].phase \in {"pulling", "awaiting"} => proc[w].row = "unfreezing"
                         /\ rq[q].phase \in {"fetching", "serving"} => proc[w].row = "active"
  BY <1>1, <1>2 DEF Settled, Rows
<1>10. \A q \in Requests :
         /\ q \notin Here(w) => rq'[q] = rq[q]
         /\ q \in Here(w) =>
              /\ rq'[q].on = w /\ rq'[q].phase \in Inside
              /\ rq'[q].base = rq[q].base
              /\ rq'[q].events \subseteq rq[q].events \cup {"user_adopted", "new_connection"}
              /\ rq'[q].phase \in {"pulling", "awaiting"} =>
                   proc'[w].row = "unfreezing" /\ rq'[q].phase = rq[q].phase
              /\ rq'[q].phase \in {"fetching", "serving"} => proc'[w].row = "active"
  BY <1>1, <1>2, <1>3, <1>4, <1>9 DEF Inside
<1>11. UNCHANGED <<vertex, placing, handler, down, up, spent>> /\ proc' = proc
  BY <1>1
<1>12. proc[w].alive
  BY <1>1
<1> QED
  BY <1>2, <1>6, <1>8, <1>10, <1>11, <1>12, InsideMoves

LEMMA TakeConnectionKeeps ==
    ASSUME IInv, Types', NEW r \in Requests, TakeConnection(r) PROVE IInv'
<1>0. PICK w \in Workers : w = rq[r].on
  BY Working DEF TakeConnection, Inside
<1> DEFINE p == proc[w]
           found == deposit.conn /\ ~p.conn
<1>1. /\ rq[r].phase = "fetching" /\ p.alive
      /\ proc' = IF found THEN [proc EXCEPT ![w] = WithConnection(p)] ELSE proc
      /\ deposit' = IF found THEN [deposit EXCEPT !.conn = FALSE] ELSE deposit
      /\ rq' = [rq EXCEPT ![r] = [@ EXCEPT !.phase = "serving",
                  !.events = IF found THEN rq[r].events \cup Birth(p) ELSE rq[r].events]]
      /\ UNCHANGED <<vertex, placing, handler, down, up, spent>>
  BY <1>0 DEF TakeConnection, Alive
<1>2. /\ w \in Workers /\ w = vertex.placement /\ Settled(w) /\ r \in Here(w)
      /\ p.dep = NoDeparture /\ ~Judged(w)
  BY <1>0, <1>1, Working DEF Inside
<1>3. p.row = "active"
  BY <1>1, <1>2 DEF Settled, Rows
<1>4. Birth(p) \subseteq {"new_connection"}
  BY <1>3 DEF Birth
<1>5. /\ rq'[r].phase = "serving" /\ rq'[r].on = w
      /\ rq'[r].events \subseteq rq[r].events \cup {"new_connection"}
      /\ "user_adopted" \in rq'[r].events <=> "user_adopted" \in rq[r].events
      /\ rq'[r].base = rq[r].base
      /\ \A q \in Requests : q # r => rq'[q] = rq[q]
  BY <1>0, <1>1, <1>4 DEF IInv, Types, RqT
<1>6. /\ proc'[w].row = "active" /\ proc'[w].alive /\ proc'[w].quitting = p.quitting
      /\ proc'[w].flag = p.flag /\ proc'[w].pend = p.pend /\ proc'[w].orders = p.orders
      /\ proc'[w].dep = p.dep /\ proc'[w].store = p.store /\ proc'[w].copy = p.copy
      /\ \A v \in Workers : v # w => proc'[v] = proc[v]
  BY <1>1, <1>2, <1>3 DEF WithConnection, IInv, Types, Processes
<1>7. deposit'.parcel = deposit.parcel /\ deposit'.lock = deposit.lock
  BY <1>1 DEF IInv, Types, DepositT
<1> HIDE DEF p, found
<1>8. \A q \in Here(w) : q \in Requests /\ rq[q].on = w /\ rq[q].phase \in Inside
  BY DEF Here
<1>9. Here(w)' = Here(w)
  BY <1>2, <1>5, <1>8 DEF Here, Inside
<1>10. HoldsAdopted(w)' <=> HoldsAdopted(w)
  BY <1>2, <1>5, <1>8, <1>9 DEF HoldsAdopted
<1>11. Answered' = Answered /\ Kept' = Kept
  <2>1. Answered' = Answered
    BY <1>1, <1>5 DEF Answered
  <2> QED
    BY <2>1, <1>1, SameKept
<1>12. Whole' /\ Parcels'
  <2>1. /\ proc'[w].row = "active" /\ proc[w].row = "active" /\ proc'[w].alive = proc[w].alive
        /\ proc'[w].dep = proc[w].dep /\ proc'[w].store = proc[w].store
        /\ proc'[w].copy = proc[w].copy
    BY <1>1, <1>3, <1>6 DEF p, IInv, Types, Processes
  <2>2. \A q \in Requests : rq'[q].base = rq[q].base
    BY <1>5
  <2>3. \A v \in Workers : /\ proc'[v].row = "active" <=> proc[v].row = "active"
                           /\ proc'[v].alive = proc[v].alive /\ proc'[v].store = proc[v].store
                           /\ proc'[v].dep = proc[v].dep /\ proc'[v].copy = proc[v].copy
    BY <2>1, <1>6
  <2> QED
    BY <2>2, <2>3, <1>1, <1>7, <1>11, WholeStays
<1>13. \A q \in Here(w) : rq[q].phase \notin {"pulling", "awaiting"}
  BY <1>1, <1>2, <1>3 DEF Settled, Rows, p
<1>14. \A q \in Requests :
         /\ q \notin Here(w) => rq'[q] = rq[q]
         /\ q \in Here(w) =>
              /\ rq'[q].on = w /\ rq'[q].phase \in Inside
              /\ rq'[q].base = rq[q].base
              /\ rq'[q].events \subseteq rq[q].events \cup {"user_adopted", "new_connection"}
              /\ rq'[q].phase \in {"pulling", "awaiting"} =>
                   proc'[w].row = "unfreezing" /\ rq'[q].phase = rq[q].phase
              /\ rq'[q].phase \in {"fetching", "serving"} => proc'[w].row = "active"
  BY <1>2, <1>5, <1>6, <1>8, <1>13 DEF Inside
<1>15. /\ proc[w].alive /\ proc'[w].alive /\ proc'[w].quitting = proc[w].quitting
       /\ proc'[w].flag = proc[w].flag /\ proc'[w].pend = proc[w].pend
       /\ proc'[w].orders = proc[w].orders /\ proc'[w].dep = proc[w].dep
       /\ proc'[w].row = "active" /\ proc[w].row = "active" /\ proc[w].dep = NoDeparture
  BY <1>1, <1>2, <1>3, <1>6 DEF p
<1>16. UNCHANGED <<vertex, placing, handler, down, up, spent>>
  BY <1>1
<1> QED
  BY <1>2, <1>6, <1>10, <1>12, <1>14, <1>15, <1>16, InsideMoves

LEMMA AdoptionFailsKeeps ==
    ASSUME IInv, Types', NEW r \in Requests, AdoptionFails(r) PROVE IInv'
<1>0. PICK w \in Workers : w = rq[r].on
  BY Working DEF AdoptionFails, Inside
<1>1. /\ rq[r].phase = "pulling" /\ proc[w].alive
      /\ proc' = [proc EXCEPT ![w] = Released(@)]
      /\ rq' = [Awakened(w, "failing") EXCEPT ![r] = [@ EXCEPT !.phase = "failing", !.good = FALSE]]
      /\ UNCHANGED <<vertex, placing, handler, down, up, deposit, spent>>
  BY <1>0 DEF AdoptionFails, Alive
<1>2. /\ w \in Workers /\ w = vertex.placement /\ Settled(w) /\ r \in Here(w)
      /\ proc[w].dep = NoDeparture /\ ~Judged(w)
  BY <1>0, <1>1, Working DEF Inside
<1>3. proc[w].row = "unfreezing"
  BY <1>1, <1>2 DEF Settled, Rows
<1>4. \A q \in Requests :
        /\ rq'[q].on = rq[q].on /\ rq'[q].events = rq[q].events /\ rq'[q].base = rq[q].base
        /\ q = r => rq'[q].phase = "failing"
        /\ rq[q].phase = "awaiting" /\ rq[q].on = w => rq'[q].phase = "failing"
        /\ q # r /\ ~(rq[q].phase = "awaiting" /\ rq[q].on = w) => rq'[q] = rq[q]
  <2> TAKE q \in Requests
  <2>1. rq[q] \in RqT
    BY DEF IInv, Types
  <2>2. Awakened(w, "failing")[q] = IF rq[q].phase = "awaiting" /\ rq[q].on = w
                                    THEN [rq[q] EXCEPT !.phase = "failing", !.good = FALSE] ELSE rq[q]
    BY DEF Awakened
  <2>3. rq'[q] = IF q = r THEN [Awakened(w, "failing")[q] EXCEPT !.phase = "failing", !.good = FALSE]
                 ELSE Awakened(w, "failing")[q]
    BY <1>1 DEF Awakened
  <2> DEFINE a == Awakened(w, "failing")[q]
  <2>4. /\ a.on = rq[q].on /\ a.events = rq[q].events /\ a.base = rq[q].base /\ a \in RqT
        /\ rq[q].phase = "awaiting" /\ rq[q].on = w => a.phase = "failing"
        /\ ~(rq[q].phase = "awaiting" /\ rq[q].on = w) => a = rq[q]
    BY <2>1, <2>2 DEF RqT, Phases
  <2>5. rq'[q] = IF q = r THEN [a EXCEPT !.phase = "failing", !.good = FALSE] ELSE a
    BY <2>3
  <2> HIDE DEF a
  <2> QED
    BY <2>4, <2>5 DEF RqT
<1>5. /\ proc'[w].row = "absent" /\ proc'[w].alive = proc[w].alive /\ proc'[w].store = {}
      /\ proc'[w].quitting = proc[w].quitting
      /\ proc'[w].flag = proc[w].flag /\ proc'[w].pend = proc[w].pend
      /\ proc'[w].orders = proc[w].orders
      /\ proc'[w].dep = proc[w].dep /\ proc'[w].copy = proc[w].copy
      /\ \A v \in Workers : v # w => proc'[v] = proc[v]
  <2>1. proc[w] \in Processes
    BY <1>2 DEF IInv, Types
  <2>2. proc'[w] = Released(proc[w]) /\ \A v \in Workers : v # w => proc'[v] = proc[v]
    BY <1>1, <1>2 DEF IInv, Types
  <2> QED
    BY <2>1, <2>2 DEF Released, Processes
<1>6. proc[w].alive
  BY <1>1
<1>7. \A q \in Here(w) : rq[q].phase \notin {"fetching", "serving"}
  BY <1>2, <1>3, <1>6 DEF Settled, Rows
<1>8. \A q \in Here(w) : rq[q].phase = "pulling" => q = r
  BY <1>1, <1>2, <1>6 DEF Settled, Rows
<1>9. \A q \in Here(w) : q \in Requests /\ rq[q].on = w /\ rq[q].phase \in Inside
  BY DEF Here
<1>10. \A q \in Here(w) : rq'[q].phase = "failing"
  BY <1>4, <1>7, <1>8, <1>9 DEF Inside
<1>11. Here(w)' = Here(w)
  <2>1. \A q \in Requests : q \notin Here(w) => rq'[q] = rq[q]
    BY <1>2, <1>4 DEF Here, Inside
  <2> QED
    BY <2>1, <1>4, <1>9, <1>10 DEF Here, Inside
<1>12. HoldsAdopted(w)' <=> HoldsAdopted(w)
  BY <1>4, <1>9, <1>11 DEF HoldsAdopted
<1>13. Answered' = Answered /\ Kept' = Kept
  <2>1. Answered' = Answered
    BY <1>4, <1>1 DEF Answered
  <2> QED
    BY <2>1, <1>1, SameKept
<1>14. Parcels'
  <2>1. proc[w].dep.step # "writing"
    BY <1>2, <1>3 DEF NoDeparture
  <2> QED
    BY <2>1, <1>1, <1>5 DEF IInv, Parcels
<1>15. Whole'
  <2>1. Based'
    BY <1>4, <1>13 DEF IInv, Whole, Based
  <2>2. ASSUME NoDeath' PROVE (\A v \in Workers : Guarded(v)') /\ Parked'
    <3>1. (\A v \in Workers : Guarded(v)) /\ Parked
      BY <2>2, <1>1 DEF IInv, Whole, NoDeath
    <3>2. \A v \in Workers : v # w => Guarded(v)'
      BY <3>1, <1>1, <1>5, <1>13 DEF Guarded
    <3>3. Guarded(w)'
      <4>1. Guarded(w) /\ proc'[w].dep.step # "writing"
        BY <3>1, <1>2, <1>5 DEF NoDeparture
      <4>2. proc'[w].row # "active"
        BY <1>5
      <4> QED
        BY <4>1, <4>2, <1>1, <1>5 DEF Guarded
    <3>4. Parked'
      <4>1. \A v \in Workers : proc'[v].row = "active" <=> proc[v].row = "active"
        BY <1>3, <1>5
      <4> QED
        BY <3>1, <4>1, <1>1, <1>13 DEF Parked
    <3> QED
      BY <3>2, <3>3, <3>4
  <2> QED
    BY <2>1, <2>2 DEF Whole
<1>16. \A q \in Requests :
         /\ q \notin Here(w) => rq'[q] = rq[q]
         /\ q \in Here(w) =>
              /\ rq'[q].on = w /\ rq'[q].phase \in Inside
              /\ rq'[q].base = rq[q].base
              /\ rq'[q].events \subseteq rq[q].events \cup {"user_adopted", "new_connection"}
              /\ rq'[q].phase \in {"pulling", "awaiting"} =>
                   proc'[w].row = "unfreezing" /\ rq'[q].phase = rq[q].phase
              /\ rq'[q].phase \in {"fetching", "serving"} => proc'[w].row = "active"
  BY <1>2, <1>4, <1>9, <1>10 DEF Here, Inside
<1>17. UNCHANGED <<vertex, placing, handler, down, up, spent>>
  BY <1>1
<1>18. proc'[w].row # "active" /\ proc[w].row # "active"
  BY <1>3, <1>5
<1> QED
  BY <1>2, <1>5, <1>6, <1>12, <1>14, <1>15, <1>16, <1>17, <1>18, InsideMoves

\* The parcel is taken out of the deposit: from here his state is the process's.
LEMMA TakeStoreKeeps ==
    ASSUME IInv, Types', NEW r \in Requests, TakeStore(r) PROVE IInv'
<1>0. PICK w \in Workers : w = rq[r].on
  BY Working DEF TakeStore, Inside
<1> DEFINE p == [proc[w] EXCEPT !.row = "active", !.dirty = TRUE,
                    !.store = IF deposit.parcel = {} THEN @ ELSE UNION deposit.parcel]
           phase == Stage(p)
<1>1. /\ rq[r].phase = "pulling" /\ proc[w].alive /\ deposit.lock = None
      /\ proc' = [proc EXCEPT ![w] = p]
      /\ deposit' = [deposit EXCEPT !.parcel = {}]
      /\ rq' = [Awakened(w, phase) EXCEPT
            ![r] = [@ EXCEPT !.phase = phase, !.events = rq[r].events \cup {"user_adopted"}]]
      /\ UNCHANGED <<vertex, placing, handler, down, up, spent>>
  BY <1>0 DEF TakeStore, Alive
<1>2. /\ w \in Workers /\ w = vertex.placement /\ Settled(w) /\ r \in Here(w)
      /\ proc[w].dep = NoDeparture /\ ~Judged(w)
  BY <1>0, <1>1, Working DEF Inside
<1>3. proc[w].row = "unfreezing"
  BY <1>1, <1>2 DEF Settled, Rows
<1>4. phase \in {"fetching", "serving"}
  BY DEF Stage
<1>5. /\ proc'[w].row = "active" /\ proc'[w].alive = proc[w].alive
      /\ proc'[w].store = (IF deposit.parcel = {} THEN proc[w].store ELSE UNION deposit.parcel)
      /\ proc'[w].quitting = proc[w].quitting
      /\ proc'[w].flag = proc[w].flag /\ proc'[w].pend = proc[w].pend
      /\ proc'[w].orders = proc[w].orders
      /\ proc'[w].dep = proc[w].dep /\ proc'[w].copy = proc[w].copy
      /\ \A v \in Workers : v # w => proc'[v] = proc[v]
  <2>1. proc[w] \in Processes
    BY <1>2 DEF IInv, Types
  <2>2. proc'[w] = p /\ \A v \in Workers : v # w => proc'[v] = proc[v]
    BY <1>1, <1>2 DEF IInv, Types
  <2> QED
    BY <2>1, <2>2 DEF Processes
<1> HIDE DEF phase
<1>6. \A q \in Requests :
        /\ rq'[q].on = rq[q].on /\ rq'[q].base = rq[q].base
        /\ q = r => rq'[q].phase = phase /\ rq'[q].events = rq[q].events \cup {"user_adopted"}
        /\ q # r => rq'[q].events = rq[q].events
        /\ rq[q].phase = "awaiting" /\ rq[q].on = w => rq'[q].phase = phase
        /\ q # r /\ ~(rq[q].phase = "awaiting" /\ rq[q].on = w) => rq'[q] = rq[q]
  <2> TAKE q \in Requests
  <2>1. rq[q] \in RqT
    BY DEF IInv, Types
  <2>2. Awakened(w, phase)[q] = IF rq[q].phase = "awaiting" /\ rq[q].on = w
                                THEN [rq[q] EXCEPT !.phase = phase, !.good = phase # "failing"]
                                ELSE rq[q]
    BY DEF Awakened
  <2>3. rq'[q] = IF q = r THEN [Awakened(w, phase)[q] EXCEPT !.phase = phase,
                                   !.events = rq[r].events \cup {"user_adopted"}]
                 ELSE Awakened(w, phase)[q]
    BY <1>1 DEF Awakened
  <2> QED
    BY <2>1, <2>2, <2>3 DEF RqT
<1>7. proc[w].alive
  BY <1>1
<1>8. \A q \in Here(w) : rq[q].phase \notin {"fetching", "serving"}
  BY <1>2, <1>3, <1>7 DEF Settled, Rows
<1>9. \A q \in Here(w) : rq[q].phase = "pulling" => q = r
  BY <1>1, <1>2, <1>7 DEF Settled, Rows
<1>10. \A q \in Here(w) : q \in Requests /\ rq[q].on = w /\ rq[q].phase \in Inside
  BY DEF Here
<1>11. \A q \in Here(w) : rq'[q].phase \in {"fetching", "serving", "failing"}
  BY <1>4, <1>6, <1>8, <1>9, <1>10 DEF Inside
<1>12. \A q \in Requests : q \notin Here(w) => rq'[q] = rq[q]
  BY <1>2, <1>6 DEF Here, Inside
<1>13. Here(w)' = Here(w) /\ HoldsAdopted(w)'
  <2>1. Here(w)' = Here(w)
    BY <1>6, <1>10, <1>11, <1>12 DEF Here, Inside
  <2> QED
    BY <2>1, <1>2, <1>6 DEF HoldsAdopted
<1>14. Answered' = Answered /\ Kept' = Kept
  <2>1. Answered' = Answered
    BY <1>1, <1>4, <1>6 DEF Answered
  <2> QED
    BY <2>1, <1>1, SameKept
<1>15. deposit'.parcel = {} /\ deposit'.lock = None
  BY <1>1 DEF IInv, Types, DepositT
<1>16. Parcels'
  <2>1. proc[w].dep.step # "writing"
    BY <1>2, <1>3 DEF NoDeparture
  <2> QED
    BY <2>1, <1>5, <1>15 DEF IInv, Parcels
<1>17. Whole'
  <2>1. Based'
    BY <1>6, <1>14 DEF IInv, Whole, Based
  <2>2. ASSUME NoDeath' PROVE (\A v \in Workers : Guarded(v)') /\ Parked'
    <3>1. (\A v \in Workers : Guarded(v)) /\ Parked
      BY <2>2, <1>1 DEF IInv, Whole, NoDeath
    <3>2. \A v \in Workers : v # w => Guarded(v)'
      BY <3>1, <1>1, <1>5, <1>14, <1>15 DEF Guarded, NoDeparture
    <3>3. \A v \in Workers : proc[v].row # "active"
      BY <1>2, <1>3 DEF IInv, OnlyHome, Elsewhere, Bare
    <3>4. PICK t \in Stores : deposit.parcel = {t} /\ Kept \subseteq t
      BY <3>1, <3>3 DEF Parked
    <3>5. proc'[w].store = t
      BY <3>4, <1>5
    <3>6. Guarded(w)'
      BY <3>1, <3>4, <3>5, <1>1, <1>2, <1>5, <1>14, <1>15 DEF Guarded, NoDeparture
    <3>7. Parked'
      BY <1>2, <1>5 DEF Parked
    <3> QED
      BY <3>2, <3>6, <3>7
  <2> QED
    BY <2>1, <2>2 DEF Whole
<1>18. \A q \in Requests :
         /\ q \notin Here(w) => rq'[q] = rq[q]
         /\ q \in Here(w) =>
              /\ rq'[q].on = w /\ rq'[q].phase \in Inside
              /\ rq'[q].base = rq[q].base
              /\ rq'[q].events \subseteq rq[q].events \cup {"user_adopted", "new_connection"}
              /\ rq'[q].phase \in {"pulling", "awaiting"} =>
                   proc'[w].row = "unfreezing" /\ rq'[q].phase = rq[q].phase
              /\ rq'[q].phase \in {"fetching", "serving"} => proc'[w].row = "active"
  BY <1>5, <1>6, <1>10, <1>11, <1>12 DEF Inside
<1>19. UNCHANGED <<vertex, placing, handler, down, up, spent>>
  BY <1>1
<1>20. proc[w].row # "active"
  BY <1>3
<1> QED
  BY <1>2, <1>5, <1>7, <1>13, <1>16, <1>17, <1>18, <1>19, <1>20, InsideMoves

\* What goes out of a process is at the end of its lane.
Goes(w, p, kind, who, events, m) ==
    /\ m.kind = kind /\ m.who = who /\ m.events = events
    /\ p.dirty => m.photo # "none"
    /\ m.photo \in {"none", IF p.row # "active" THEN "away"
                            ELSE IF p.pend # {} THEN "busy" ELSE "idle"}
    /\ up[w] \in Seq(Envelopes)
    /\ up'[w] = Append(up[w], m) /\ Range(up'[w]) = Range(up[w]) \cup {m}
    /\ \A v \in Workers : v # w => up'[v] = up[v] /\ proc'[v] = proc[v]
    /\ proc'[w].alive = p.alive /\ proc'[w].quitting = p.quitting /\ proc'[w].row = p.row
    /\ proc'[w].store = p.store /\ proc'[w].pend = p.pend /\ proc'[w].orders = p.orders
    /\ proc'[w].flag = p.flag /\ proc'[w].dep = p.dep /\ proc'[w].copy = p.copy

LEMMA Sent ==
    ASSUME Types, NEW w \in Workers, NEW p \in Processes, ~p.flag,
           NEW kind \in {"reply", "error", "announce", "frozen", "refused", "quitting"},
           NEW who \in Senders, NEW events \in SUBSET Events, Outbound(w, p, kind, who, events)
    PROVE  \E m \in Envelopes : Goes(w, p, kind, who, events, m)
<1>1. PICK fresh \in BOOLEAN :
        /\ p.dirty => fresh
        /\ proc' = [proc EXCEPT ![w] = [p EXCEPT !.dirty = @ /\ ~fresh]]
        /\ up' = [up EXCEPT ![w] = Append(@, [kind |-> kind, who |-> who, events |-> events,
                    photo |-> IF fresh THEN PhotoOf(p) ELSE "none"])]
  BY DEF Outbound
<1> DEFINE m == [kind |-> kind, who |-> who, events |-> events,
                 photo |-> IF fresh THEN PhotoOf(p) ELSE "none"]
<1>2. PhotoOf(p) = IF p.row # "active" THEN "away" ELSE IF p.pend # {} THEN "busy" ELSE "idle"
  BY DEF PhotoOf
<1>3. m \in Envelopes
  BY <1>2 DEF Envelopes, Photos
<1>4. /\ m.kind = kind /\ m.who = who /\ m.events = events
      /\ p.dirty => m.photo # "none"
      /\ m.photo \in {"none", IF p.row # "active" THEN "away"
                              ELSE IF p.pend # {} THEN "busy" ELSE "idle"}
  BY <1>1, <1>2
<1>5. up[w] \in Seq(Envelopes) /\ up'[w] = Append(up[w], m)
  BY <1>1 DEF Types
<1> HIDE DEF m
<1>6. Range(up'[w]) = Range(up[w]) \cup {m}
  BY <1>3, <1>5, Appended
<1>7. /\ proc'[w] = [p EXCEPT !.dirty = @ /\ ~fresh]
      /\ \A v \in Workers : v # w => up'[v] = up[v] /\ proc'[v] = proc[v]
  BY <1>1 DEF Types
<1>8. /\ proc'[w].alive = p.alive /\ proc'[w].quitting = p.quitting /\ proc'[w].row = p.row
      /\ proc'[w].store = p.store /\ proc'[w].pend = p.pend /\ proc'[w].orders = p.orders
      /\ proc'[w].flag = p.flag /\ proc'[w].dep = p.dep /\ proc'[w].copy = p.copy
  BY <1>7 DEF Processes
<1> QED
  BY <1>3, <1>4, <1>5, <1>6, <1>7, <1>8 DEF Goes

\* A request ends in the process: what it built is in the store that keeps it.
LEMMA CloseRequestKeeps ==
    ASSUME IInv, Types', NEW r \in Requests, NEW opens \in BOOLEAN, CloseRequest(r, opens) PROVE IInv'
<1>0. PICK w \in Workers : w = rq[r].on
  BY Working DEF CloseRequest, Inside
<1>1. rq[r].phase \in {"serving", "failing"} /\ proc[w].alive
  BY <1>0 DEF CloseRequest, Alive
<1>2. /\ w = vertex.placement /\ Settled(w) /\ r \in Here(w) /\ vertex.known
      /\ proc[w].dep = NoDeparture /\ ~Judged(w) /\ ~SaysFrozen(w) /\ handler[w].state = "running"
  BY <1>0, <1>1, Working DEF Inside
<1> DEFINE good == rq[r].phase = "serving"
           served == IF good THEN [WithConnection(proc[w]) EXCEPT !.store = @ \cup {r}] ELSE proc[w]
           born == IF good THEN Birth(proc[w]) ELSE {}
           p == [served EXCEPT !.pend = @ \ {r}]
           events == rq[r].events \cup born
           kind == IF good THEN "reply" ELSE "error"
<1>3. good => proc[w].row = "active"
  BY <1>1, <1>2 DEF Settled, Rows
<1>4. ~proc[w].flag /\ proc[w] \in Processes
  BY DEF IInv, Steady, SteadyWorker, Types
<1>5. /\ p.alive = proc[w].alive /\ p.quitting = proc[w].quitting /\ p.row = proc[w].row
      /\ p.store = (IF good THEN proc[w].store \cup {r} ELSE proc[w].store)
      /\ p.pend = proc[w].pend \ {r} /\ p.orders = proc[w].orders
      /\ p.flag = proc[w].flag /\ p.dep = proc[w].dep /\ p.copy = proc[w].copy
      /\ p \in Processes
  <2>1. CASE good
    <3>1. /\ WithConnection(proc[w]) \in Processes
          /\ WithConnection(proc[w]).row = "active" /\ WithConnection(proc[w]).alive = proc[w].alive
          /\ WithConnection(proc[w]).quitting = proc[w].quitting
          /\ WithConnection(proc[w]).store = proc[w].store
          /\ WithConnection(proc[w]).pend = proc[w].pend
          /\ WithConnection(proc[w]).orders = proc[w].orders
          /\ WithConnection(proc[w]).flag = proc[w].flag
          /\ WithConnection(proc[w]).dep = proc[w].dep /\ WithConnection(proc[w]).copy = proc[w].copy
      BY <2>1, <1>3, <1>4 DEF WithConnection, Processes
    <3>2. p = [[WithConnection(proc[w]) EXCEPT !.store = @ \cup {r}] EXCEPT !.pend = @ \ {r}]
      BY <2>1
    <3> HIDE DEF p
    <3> QED
      BY <2>1, <3>1, <3>2, <1>3 DEF Processes, Stores
  <2>2. CASE ~good
    <3>1. p = [proc[w] EXCEPT !.pend = @ \ {r}]
      BY <2>2
    <3> HIDE DEF p
    <3> QED
      BY <2>2, <3>1, <1>4 DEF Processes
  <2> QED
    BY <2>1, <2>2
<1>6. /\ Outbound(w, p, kind, r, events)
      /\ rq' = [rq EXCEPT ![r] = [@ EXCEPT !.phase = "replied", !.events = events]]
      /\ UNCHANGED <<vertex, placing, handler, down, deposit, spent>>
  BY <1>0, <1>3, <1>4, <1>5 DEF CloseRequest
<1>7. born \subseteq {"new_connection"}
  BY <1>3 DEF Birth
<1>8. events \subseteq {"user_adopted", "new_connection"} /\ events \in SUBSET Events
      /\ ("user_adopted" \in events <=> "user_adopted" \in rq[r].events)
  BY <1>7 DEF IInv, Steady, SteadyRequest, Events
<1>9. kind \in {"reply", "error"} /\ (kind = "reply" <=> good) /\ r \in Senders
  BY SendersAre
<1> HIDE DEF kind, p, events, good
<1>29. PICK g \in Processes, k \in {"reply", "error", "announce", "frozen", "refused", "quitting"},
             e \in SUBSET Events : g = p /\ k = kind /\ e = events
  BY <1>5, <1>8, <1>9
<1>30. Types /\ ~g.flag /\ Outbound(w, g, k, r, e)
  BY <1>4, <1>5, <1>6, <1>29 DEF IInv
<1>31. PICK m \in Envelopes : Goes(w, g, k, r, e, m)
  BY <1>9, <1>30, Sent
<1>10. /\ m.kind = kind /\ m.who = r /\ m.events = events
       /\ m.photo \in {"none", IF p.row # "active" THEN "away"
                               ELSE IF p.pend # {} THEN "busy" ELSE "idle"}
       /\ up[w] \in Seq(Envelopes)
       /\ up'[w] = Append(up[w], m) /\ Range(up'[w]) = Range(up[w]) \cup {m}
  BY <1>29, <1>31 DEF Goes
<1>11. /\ \A v \in Workers : v # w => up'[v] = up[v] /\ proc'[v] = proc[v]
       /\ proc'[w].alive /\ proc'[w].quitting = proc[w].quitting /\ proc'[w].row = proc[w].row
       /\ proc'[w].store = (IF good THEN proc[w].store \cup {r} ELSE proc[w].store)
       /\ proc'[w].pend = proc[w].pend \ {r} /\ proc'[w].orders = proc[w].orders
       /\ proc'[w].flag = proc[w].flag /\ proc'[w].dep = proc[w].dep /\ proc'[w].copy = proc[w].copy
  BY <1>1, <1>5, <1>29, <1>31 DEF Goes
<1>12. /\ rq'[r].phase = "replied" /\ rq'[r].on = w /\ rq'[r].events = events
       /\ rq'[r].base = rq[r].base
       /\ \A q \in Requests : q # r => rq'[q] = rq[q]
  BY <1>0, <1>6 DEF IInv, Types, RqT
<1>13. Here(w)' = Here(w) \ {r} /\ Here(w) \subseteq Requests
  BY <1>12 DEF Here, Inside
<1>14. proc[w].pend = Here(w)
  BY <1>1, <1>2 DEF Settled, Rows
<1>15. /\ SaysAdopted(w)' <=> SaysAdopted(w) \/ "user_adopted" \in rq[r].events
       /\ SeenIdle(w)' => SeenIdle(w) \/ m.photo = "idle"
       /\ SeenIdle(w) => SeenIdle(w)'
       /\ ~SaysFrozen(w)' /\ ~Judged(w)' /\ (Ripe(w)' <=> Ripe(w))
  BY <1>2, <1>6, <1>8, <1>9, <1>10
     DEF SaysAdopted, SeenIdle, SaysFrozen, Judged, Ripe, Verdicts
<1>16. /\ HoldsAdopted(w)' => HoldsAdopted(w)
       /\ HoldsAdopted(w) => HoldsAdopted(w)' \/ "user_adopted" \in rq[r].events
       /\ "user_adopted" \in rq[r].events => HoldsAdopted(w)
  BY <1>2, <1>12, <1>13 DEF HoldsAdopted
<1>17. m.photo = "idle" => Here(w)' = {} /\ proc[w].row = "active"
  BY <1>5, <1>10, <1>11, <1>13, <1>14
<1>18. m.photo # "ceded"
  BY <1>10
<1>19. OnlyHome' /\ \A v \in Workers : v # w => SteadyWorker(v)'
  <2>1. \A v \in Workers : v # w => /\ down'[v] = down[v] /\ up'[v] = up[v]
                                    /\ handler'[v] = handler[v] /\ proc'[v] = proc[v]
    BY <1>6, <1>11
  <2> QED
    BY <2>1, <1>2, <1>6, <1>12, OthersStay
<1>20. Steady'
  <2>1. SteadyWorker(w)
    BY DEF IInv, Steady
  <2>2. SteadyWorker(w)'
    BY <2>1, <1>1, <1>2, <1>6, <1>11 DEF SteadyWorker
  <2>3. \A q \in Requests : SteadyRequest(q)'
    BY <1>8, <1>12 DEF IInv, Steady, SteadyRequest, Live, Inside
  <2> QED
    BY <2>2, <2>3, <1>6, <1>19 DEF IInv, Steady
<1>21. Knows'
  BY <1>6 DEF IInv, Knows
<1>22. Parcels'
  BY <1>6, <1>11 DEF IInv, Parcels
<1>23. /\ Answered' = Answered
       /\ Kept' \subseteq (IF good THEN Kept \cup {r} ELSE Kept)
  <2>1. Answered' = Answered
    BY <1>1, <1>12 DEF Answered
  <2>2. ASSUME NEW q \in Requests, NEW v \in Workers, NEW o \in Range(up'[v]),
               o.kind = "reply", o.who = q
        PROVE  q \in Kept \/ (good /\ q = r)
    <3>1. CASE o \in Range(up[v])
      BY <3>1, <2>2 DEF Kept
    <3>2. CASE o \notin Range(up[v])
      <4>1. v = w /\ o = m
        BY <3>2, <2>2, <1>10, <1>11
      <4> QED
        BY <4>1, <2>2, <1>9, <1>10
    <3> QED
      BY <3>1, <3>2
  <2> QED
    BY <2>1, <2>2 DEF Kept
<1>24. Whole'
  <2>1. Based'
    BY <1>12, <1>23 DEF IInv, Whole, Based
  <2>2. ASSUME NoDeath' PROVE (\A v \in Workers : Guarded(v)') /\ Parked'
    <3>1. (\A v \in Workers : Guarded(v)) /\ Parked
      BY <2>2, <1>6 DEF IInv, Whole, NoDeath
    <3>2. ASSUME NEW v \in Workers, v # w PROVE Guarded(v)'
      <4>1. Guarded(v) /\ proc[v].row = "absent"
        BY <3>1, <3>2, <1>2 DEF IInv, OnlyHome, Elsewhere, Bare
      <4> QED
        BY <4>1, <3>2, <1>6, <1>11 DEF Guarded
    <3>3. Guarded(w)'
      <4>1. Guarded(w) /\ proc[w].dep.step # "writing"
        BY <3>1, <1>2 DEF NoDeparture
      <4>2. proc'[w].row # "active" => proc'[w].store = {}
        BY <4>1, <1>3, <1>11 DEF Guarded
      <4>3. proc'[w].row = "active" => Kept' \subseteq proc'[w].store
        BY <4>1, <1>11, <1>23 DEF Guarded
      <4> QED
        BY <4>1, <4>2, <4>3, <1>6, <1>11 DEF Guarded
    <3>4. Parked'
      <4>1. ASSUME \A v \in Workers : proc'[v].row # "active"
            PROVE  ~good /\ \A v \in Workers : proc[v].row # "active"
        BY <4>1, <1>3, <1>11
      <4> QED
        BY <3>1, <4>1, <1>6, <1>23 DEF Parked
    <3> QED
      BY <3>2, <3>3, <3>4
  <2> QED
    BY <2>1, <2>2 DEF Whole
<1>25. Carried(w)'
  <2>1. \A n \in Range(down[w]) : n.kind = "request" => n.who \in Requests
    BY Letters DEF Mail, IInv
  <2> QED
    BY <2>1, <1>1, <1>2, <1>6, <1>12 DEF Settled, Carried
<1>26. Told(w)'
  <2>1. \A n \in Range(up[w]) : n.kind \in Replies /\ n.who \in Requests /\ n.who # r
    BY <1>1, <1>2 DEF Settled, Told, Honest, Judged
  <2>2. \A n \in Range(up[w]) : n.photo = "idle" => "user_adopted" \notin m.events
    BY <1>2, <1>8, <1>10, <1>16 DEF Settled, Rows, SeenIdle
  <2>3. OrderedUp(up'[w])
    BY <2>1, <2>2, <1>10, <1>2, UpAppends DEF Settled, Told, Above
  <2>4. ASSUME NEW n \in Range(up'[w]) PROVE Honest(n, w)'
    <3>1. CASE n = m
      BY <3>1, <1>8, <1>9, <1>10, <1>12, <1>18 DEF Honest, Replies
    <3>2. CASE n \in Range(up[w])
      BY <3>2, <2>1, <1>2, <1>12 DEF Settled, Told, Honest
    <3> QED
      BY <3>1, <3>2, <1>10
  <2>5. \A q \in Requests : rq'[q].on = w /\ rq'[q].phase = "replied" =>
          \E n \in Range(up'[w]) : n.kind \in Replies /\ n.who = q
    BY <1>1, <1>2, <1>9, <1>10, <1>12 DEF Settled, Told, Replies
  <2> QED
    BY <2>3, <2>4, <2>5 DEF Told
<1>27. Order(w)'
  <2>1. handler[w].freezing # 0 => ~SaysAdopted(w)' /\ ~HoldsAdopted(w)' /\ proc'[w].row = "active"
    BY <1>1, <1>2, <1>11, <1>15, <1>16 DEF Settled, Order
  <2>2. \A n \in Range(up'[w]) : n.kind \notin Verdicts
    BY <1>15 DEF Judged
  <2> QED
    BY <2>1, <2>2, <1>2, <1>6, <1>11, <1>15 DEF Settled, Order
<1>28. Rows(w)'
  <2>1. proc'[w].pend = Here(w)'
    BY <1>11, <1>13, <1>14
  <2>2. \A q \in Here(w)' : q \in Here(w) /\ rq'[q] = rq[q]
    BY <1>12, <1>13
  <2>3. proc[w].row # "active" => Cold(w)'
    BY <1>1, <1>2, <1>6, <1>15, <1>16, <1>17 DEF Settled, Rows, Cold
  <2>4. handler'[w].photo = "idle" => ~SaysAdopted(w)'
    BY <1>2, <1>6, <1>15, <1>16 DEF Settled, Rows, SeenIdle
  <2>5. SeenIdle(w)' => ~HoldsAdopted(w)'
    BY <1>2, <1>13, <1>15, <1>16, <1>17 DEF Settled, Rows, HoldsAdopted
  <2> QED
    BY <2>1, <2>2, <2>3, <2>4, <2>5, <1>1, <1>2, <1>6, <1>11, <1>15, <1>16 DEF Settled, Rows
<1> QED
  BY <1>2, <1>6, <1>19, <1>20, <1>21, <1>22, <1>24, <1>25, <1>26, <1>27, <1>28 DEF IInv, Settled

LEMMA KeptShrinks ==
    ASSUME Answered' = Answered,
           \A v \in Workers : \A n \in Range(up'[v]) : n \in Range(up[v]) \/ n.kind # "reply"
    PROVE  Kept' \subseteq Kept
BY DEF Kept

\* A departure is over and its answer leaves, after everything the process had to say of him.
LEMMA DepartureAnswered ==
    ASSUME IInv, Types', NEW w \in Workers, Settled(w), w = vertex.placement,
           proc[w].dep # NoDeparture, NEW p \in Processes,
           p.dep = NoDeparture, p.alive = proc[w].alive, p.quitting = proc[w].quitting,
           p.flag = proc[w].flag, p.pend = proc[w].pend, p.orders = proc[w].orders,
           NEW kind \in Verdicts, NEW events, NEW m, Goes(w, p, kind, proc[w].dep.order, events, m),
           \/ p.row = "active" /\ events = {}
           \/ p.row = "absent" /\ events = {"user_frozen"} /\ p.dirty,
           UNCHANGED <<vertex, placing, handler, rq, down, spent>>, Parcels', Whole'
    PROVE  IInv'
<1>1. /\ m.kind = kind /\ m.who = proc[w].dep.order /\ m.events = events
      /\ m.photo \in {"none", "away", "busy", "idle"}
      /\ events # {} => m.photo = "away"
      /\ up[w] \in Seq(Envelopes)
      /\ up'[w] = Append(up[w], m) /\ Range(up'[w]) = Range(up[w]) \cup {m}
      /\ \A v \in Workers : v # w => up'[v] = up[v] /\ proc'[v] = proc[v]
      /\ proc'[w].alive = p.alive /\ proc'[w].quitting = p.quitting /\ proc'[w].row = p.row
      /\ proc'[w].pend = p.pend /\ proc'[w].orders = p.orders
      /\ proc'[w].flag = p.flag /\ proc'[w].dep = NoDeparture
  BY DEF Goes
<1>2. /\ proc[w].alive /\ handler[w].state = "running"
  BY DEF IInv, Steady, SteadyWorker, Bare, Gone
<1>3. /\ ~Judged(w) /\ down[w] = <<>> /\ Here(w) = {} /\ ~Ripe(w) /\ proc[w].orders = {}
      /\ handler[w].freezing # 0 /\ proc[w].dep.order = handler[w].freezing
      /\ ~SaysAdopted(w) /\ vertex.hold
  BY DEF Settled, Order
<1>4. ~SaysFrozen(w)
  BY <1>3 DEF Settled, Told, Honest, SaysFrozen, Judged, Verdicts
<1>5. proc[w].row = "active"
  BY DEF Settled, Rows
<1>6. /\ Here(w)' = {} /\ ~HoldsAdopted(w) /\ ~HoldsAdopted(w)'
      /\ Judged(w)' /\ ~Ripe(w)' /\ ~SaysAdopted(w)'
      /\ SaysFrozen(w)' <=> events # {}
  BY <1>1, <1>3, <1>4 DEF Here, HoldsAdopted, Judged, Ripe, SaysAdopted, SaysFrozen
<1>7. OnlyHome' /\ \A v \in Workers : v # w => SteadyWorker(v)'
  <2>1. \A v \in Workers : v # w => /\ down'[v] = down[v] /\ up'[v] = up[v]
                                    /\ handler'[v] = handler[v] /\ proc'[v] = proc[v]
    BY <1>1
  <2> QED
    BY <2>1, OthersStay
<1>8. Steady'
  <2>1. SteadyWorker(w)
    BY DEF IInv, Steady
  <2>2. SteadyWorker(w)'
    BY <2>1, <1>1, <1>2 DEF SteadyWorker
  <2> QED
    BY <2>2, <1>7 DEF IInv, Steady, SteadyRequest
<1>9. Knows'
  BY DEF IInv, Knows
<1>10. Carried(w)'
  BY DEF Settled, Carried
<1>11. Told(w)'
  <2>1. \A n \in Range(up[w]) : n.kind \in Replies
    BY <1>3 DEF Settled, Told, Honest, Judged
  <2>2. OrderedUp(up'[w])
    <3>1. \A n \in Range(up[w]) : Above(n, m)
      BY <2>1, <1>1 DEF Above, Replies, Verdicts
    <3>2. m \in Envelopes
      BY <1>1, InRange DEF Types
    <3> QED
      BY <3>1, <3>2, <1>1, UpAppends DEF Settled, Told
  <2>3. ASSUME NEW n \in Range(up'[w]) PROVE Honest(n, w)'
    <3>1. CASE n = m
      BY <3>1, <1>1 DEF Honest
    <3>2. CASE n \in Range(up[w])
      BY <3>2 DEF Settled, Told, Honest
    <3> QED
      BY <3>1, <3>2, <1>1
  <2> QED
    BY <2>2, <2>3, <1>1, <1>2 DEF Settled, Told
<1>12. Order(w)'
  <2>1. \A n \in Range(up'[w]) : n.kind \in Verdicts => n.who = handler[w].freezing
    BY <1>1, <1>3 DEF Judged
  <2> QED
    BY <2>1, <1>1, <1>3, <1>6, EmptyLane DEF Order
<1>13. Rows(w)'
  <2>1. vertex.frozen => FALSE
    BY <1>3, <1>5, <1>6 DEF Settled, Rows
  <2>2. proc'[w].pend = {}
    BY <1>1, <1>2, <1>3 DEF Settled, Rows
  <2> QED
    BY <2>1, <2>2, <1>1, <1>6 DEF Rows
<1> QED
  BY <1>7, <1>8, <1>9, <1>10, <1>11, <1>12, <1>13 DEF IInv, Settled

LEMMA ParcelsWrittenKeeps ==
    ASSUME IInv, Types', NEW w \in Workers, ParcelsWritten(w) PROVE IInv'
<1> DEFINE dep == proc[w].dep
<1>1. PICK p \in Processes :
        p = [Released(proc[w]) EXCEPT !.dep = NoDeparture, !.copy = {}, !.carries = FALSE,
               !.dirty = TRUE, !.flag = @ /\ dep.by = "order"]
  <2>1. proc[w] \in Processes /\ NoDeparture \in Departures /\ {} \in Stores
    BY BlankProcesses DEF IInv, Types, Stores
  <2> QED
    BY <2>1 DEF Released, Processes
<1>2. dep # NoDeparture /\ dep.by = "order" /\ dep.step = "writing"
  BY DEF ParcelsWritten, IInv, Steady, SteadyWorker, NoDeparture
<1>3. w = vertex.placement /\ Settled(w) /\ handler[w].state = "running"
  BY <1>2, AtHome DEF Bare
<1>4. /\ p.alive = proc[w].alive /\ p.quitting = proc[w].quitting /\ p.flag = proc[w].flag
      /\ p.pend = proc[w].pend /\ p.orders = proc[w].orders /\ p.row = "absent" /\ p.store = {}
      /\ p.dep = NoDeparture /\ p.dirty
  <2>1. proc[w] \in Processes
    BY DEF IInv, Types
  <2> QED
    BY <2>1, <1>1, <1>2 DEF Released, Processes
<1>5. PICK kind \in Verdicts : Outbound(w, p, kind, dep.order, {"user_frozen"})
  BY <1>1, <1>2 DEF ParcelsWritten, DepartureEnds, Verdicts
<1>6. UNCHANGED <<vertex, placing, handler, rq, down, spent>>
  BY <1>2 DEF ParcelsWritten, DepartureEnds
<1>7. PICK m \in Envelopes : Goes(w, p, kind, dep.order, {"user_frozen"}, m)
  <2>1. dep.order \in Senders
    BY SendersAre DEF IInv, Types, Processes, Departures
  <2>2. PICK order \in Senders : order = dep.order
    BY <2>1
  <2>3. kind \in {"reply", "error", "announce", "frozen", "refused", "quitting"}
    BY DEF Verdicts
  <2>4. ~p.flag
    BY <1>4 DEF IInv, Steady, SteadyWorker
  <2>5. {"user_frozen"} \in SUBSET Events
    BY DEF Events
  <2>6. \E m \in Envelopes : Goes(w, p, kind, order, {"user_frozen"}, m)
    BY <1>5, <2>2, <2>3, <2>4, <2>5, Sent DEF IInv
  <2> QED
    BY <2>2, <2>6
<1>8. /\ m.kind # "reply"
      /\ Range(up'[w]) = Range(up[w]) \cup {m}
      /\ \A v \in Workers : v # w => up'[v] = up[v] /\ proc'[v] = proc[v]
      /\ proc'[w].alive = proc[w].alive /\ proc'[w].row = "absent" /\ proc'[w].store = {}
      /\ proc'[w].dep = NoDeparture
  BY <1>4, <1>7 DEF Goes, Verdicts
<1>9. \A v \in Workers : v # w => proc[v].row = "absent" /\ proc[v].dep = NoDeparture
  BY <1>3 DEF IInv, OnlyHome, Elsewhere, Bare
<1>10. proc[w].row = "active" /\ proc[w].copy \in Stores
  BY <1>2, <1>3 DEF Settled, Rows, IInv, Types, Processes
<1>11. Answered' = Answered /\ Kept' \subseteq Kept
  <2>1. Answered' = Answered
    BY <1>6 DEF Answered
  <2> QED
    BY <2>1, <1>8, KeptShrinks
<1> DEFINE written == [parcel |-> {proc[w].copy}, conn |-> deposit.conn \/ proc[w].carries,
                       torn |-> deposit.torn \
                                  (IF proc[w].carries THEN {"store", "conn"} ELSE {"store"}),
                       lock |-> IF deposit.lock = w THEN None ELSE deposit.lock]
<1>12. \/ deposit.lock # None /\ deposit' = written
       \/ deposit.lock # w /\ UNCHANGED deposit
  BY DEF ParcelsWritten
<1>13. Parcels'
  <2>1. \A v \in Workers : proc'[v].row # "active" /\ proc'[v].dep.step # "writing"
    BY <1>8, <1>9 DEF NoDeparture
  <2>2. deposit'.parcel = {} \/ \E s \in Stores : deposit'.parcel = {s}
    <3>1. CASE deposit' = written
      <4>1. deposit'.parcel = {proc[w].copy}
        BY <3>1
      <4> QED
        BY <4>1, <1>10
    <3>2. CASE UNCHANGED deposit
      BY <3>2 DEF IInv, Parcels
    <3> QED
      BY <3>1, <3>2, <1>12
  <2> QED
    BY <2>1, <2>2, <1>10 DEF Parcels
<1>14. Whole'
  <2>1. Based'
    BY <1>6, <1>11 DEF IInv, Whole, Based
  <2>2. ASSUME NoDeath' PROVE (\A v \in Workers : Guarded(v)') /\ Parked'
    <3>1. \A v \in Workers : Guarded(v)
      BY <2>2, <1>6 DEF IInv, Whole, NoDeath
    <3>2. deposit.lock = w /\ proc[w].copy = proc[w].store /\ Kept \subseteq proc[w].store
      BY <3>1, <1>2, <1>10 DEF Guarded
    <3>3. deposit'.parcel = {proc[w].copy} /\ deposit'.lock = None
      BY <3>2, <1>12
    <3>4. ASSUME NEW v \in Workers PROVE Guarded(v)'
      <4>1. proc'[v].row # "active" /\ proc'[v].dep.step # "writing"
        BY <1>8, <1>9 DEF NoDeparture
      <4>2. proc'[v].alive /\ handler'[v].state = "running" /\ proc'[v].store = {}
        BY <3>1, <1>6, <1>8, <1>9 DEF Guarded
      <4> QED
        BY <4>1, <4>2, <3>3, SendersAre DEF Guarded
    <3>5. Parked'
      BY <3>2, <3>3, <1>10, <1>11 DEF Parked
    <3> QED
      BY <3>4, <3>5
  <2> QED
    BY <2>1, <2>2 DEF Whole
<1> QED
  BY <1>2, <1>3, <1>4, <1>6, <1>7, <1>13, <1>14, DepartureAnswered

LEMMA DepartureFailsKeeps ==
    ASSUME IInv, Types', NEW w \in Workers, DepartureFails(w) PROVE IInv'
<1> DEFINE dep == proc[w].dep
<1>1. PICK p \in Processes :
        p = [proc[w] EXCEPT !.dep = NoDeparture, !.copy = {}, !.carries = FALSE,
               !.flag = @ /\ dep.by = "order"]
  <2>1. proc[w] \in Processes /\ NoDeparture \in Departures /\ {} \in Stores
    BY BlankProcesses DEF IInv, Types, Stores
  <2> QED
    BY <2>1 DEF Processes
<1>2. dep # NoDeparture /\ dep.by = "order"
  BY DEF DepartureFails, IInv, Steady, SteadyWorker, NoDeparture
<1>3. w = vertex.placement /\ Settled(w) /\ handler[w].state = "running"
  BY <1>2, AtHome DEF Bare
<1>4. /\ p.alive = proc[w].alive /\ p.quitting = proc[w].quitting /\ p.flag = proc[w].flag
      /\ p.pend = proc[w].pend /\ p.orders = proc[w].orders /\ p.row = proc[w].row
      /\ p.store = proc[w].store /\ p.dep = NoDeparture
  <2>1. proc[w] \in Processes
    BY DEF IInv, Types
  <2> QED
    BY <2>1, <1>1, <1>2 DEF Processes
<1>5. Outbound(w, p, "refused", dep.order, {})
  BY <1>1, <1>2 DEF DepartureFails, DepartureEnds
<1>6. UNCHANGED <<vertex, placing, handler, rq, down, spent>>
  BY <1>2 DEF DepartureFails, DepartureEnds
<1>7. PICK m \in Envelopes : Goes(w, p, "refused", dep.order, {}, m)
  <2>1. dep.order \in Senders
    BY SendersAre DEF IInv, Types, Processes, Departures
  <2>2. PICK order \in Senders : order = dep.order
    BY <2>1
  <2>4. ~p.flag
    BY <1>4 DEF IInv, Steady, SteadyWorker
  <2>6. \E m \in Envelopes : Goes(w, p, "refused", order, {}, m)
    BY <1>5, <2>2, <2>4, Sent DEF IInv
  <2> QED
    BY <2>2, <2>6
<1>8. /\ m.kind # "reply"
      /\ Range(up'[w]) = Range(up[w]) \cup {m}
      /\ \A v \in Workers : v # w => up'[v] = up[v] /\ proc'[v] = proc[v]
      /\ proc'[w].alive = proc[w].alive /\ proc'[w].row = proc[w].row
      /\ proc'[w].store = proc[w].store /\ proc'[w].dep = NoDeparture
  BY <1>4, <1>7 DEF Goes
<1>9. proc[w].row = "active"
  BY <1>2, <1>3 DEF Settled, Rows
<1>10. Answered' = Answered /\ Kept' \subseteq Kept
  <2>1. Answered' = Answered
    BY <1>6 DEF Answered
  <2> QED
    BY <2>1, <1>8, KeptShrinks
<1>11. /\ \/ deposit'.parcel \in {deposit.parcel, {}}
          \/ dep.step = "writing" /\ deposit'.parcel = {proc[w].copy}
       /\ deposit'.lock = (IF deposit.lock = w THEN None ELSE deposit.lock)
  <2>1. PICK left \in HalfWritten(proc[w]) \cup {deposit} :
          /\ deposit' = [left EXCEPT !.lock = IF @ = w THEN None ELSE @]
          /\ left = deposit \/ dep.step = "writing"
    BY DEF DepartureFails
  <2>2. /\ left \in DepositT /\ left.lock = deposit.lock
        /\ left.parcel \in {deposit.parcel, {}} \/ (dep.step = "writing" /\ left.parcel = {proc[w].copy})
    BY <2>1, HalfTyped DEF IInv, Types
  <2> QED
    BY <2>1, <2>2 DEF DepositT
<1>12. Parcels'
  <2>1. deposit'.parcel = {} \/ \E s \in Stores : deposit'.parcel = {s}
    <3>1. proc[w].copy \in Stores
      BY DEF IInv, Types, Processes
    <3> QED
      BY <3>1, <1>11 DEF IInv, Parcels
  <2>2. ASSUME NEW v \in Workers, v # w
        PROVE  proc'[v].row # "active" /\ proc'[v].dep.step # "writing"
    BY <2>2, <1>3, <1>8 DEF IInv, OnlyHome, Elsewhere, Bare, NoDeparture
  <2>3. \A s \in deposit'.parcel : s \subseteq proc'[w].store
    BY <1>8, <1>9, <1>11 DEF IInv, Parcels
  <2> QED
    BY <2>1, <2>2, <2>3, <1>8 DEF Parcels, NoDeparture
<1>13. Whole'
  <2>1. Based'
    BY <1>6, <1>10 DEF IInv, Whole, Based
  <2>2. ASSUME NoDeath' PROVE (\A v \in Workers : Guarded(v)') /\ Parked'
    <3>1. \A v \in Workers : Guarded(v)
      BY <2>2, <1>6 DEF IInv, Whole, NoDeath
    <3>2. ASSUME NEW v \in Workers, v # w PROVE Guarded(v)'
      <4>1. Guarded(v) /\ proc[v].row = "absent"
        BY <3>1, <3>2, <1>3 DEF IInv, OnlyHome, Elsewhere, Bare
      <4> QED
        BY <4>1, <3>2, <1>6, <1>8, <1>11, SendersAre DEF Guarded
    <3>3. Guarded(w)'
      <4>1. Guarded(w)
        BY <3>1
      <4> QED
        BY <4>1, <1>6, <1>8, <1>9, <1>10, <1>11, SendersAre DEF Guarded, NoDeparture
    <3>4. Parked'
      BY <1>8, <1>9 DEF Parked
    <3> QED
      BY <3>2, <3>3, <3>4
  <2> QED
    BY <2>1, <2>2 DEF Whole
<1> QED
  BY <1>2, <1>3, <1>4, <1>6, <1>7, <1>9, <1>12, <1>13, DepartureAnswered DEF Verdicts

\* The process dies: its rows are gone, its lane may end early, and the parcel is there or not.
LEMMA CrashKeeps ==
    ASSUME IInv, Types', NEW w \in Workers, Crash(w) PROVE IInv'
<1>1. /\ proc[w].alive /\ proc' = [proc EXCEPT ![w] = Gone]
      /\ spent' = [spent EXCEPT !.crashes = @ + 1]
      /\ UNCHANGED <<vertex, placing, handler, rq, down>>
  BY DEF Crash, Die
<1>2. PICK sent \in 0 .. Len(up[w]) : up' = [up EXCEPT ![w] = SubSeq(@, 1, sent)]
  BY DEF Crash, Die
<1>3. /\ proc'[w] = Gone /\ \A v \in Workers : v # w => proc'[v] = proc[v] /\ up'[v] = up[v]
      /\ up'[w] = SubSeq(up[w], 1, sent) /\ up[w] \in Seq(Envelopes)
  BY <1>1, <1>2 DEF IInv, Types
<1>4. /\ Gone.row = "absent" /\ Gone.pend = {} /\ Gone.orders = {} /\ Gone.dep = NoDeparture
      /\ Gone.alive = FALSE /\ Gone.quitting = FALSE /\ Gone.flag = FALSE
  BY DEF Gone
<1>5. /\ Range(up'[w]) \subseteq Range(up[w])
      /\ up[w] = <<>> => up'[w] = <<>>
  <2>1. Range(up'[w]) \subseteq Range(up[w])
    BY <1>3, Cut
  <2>2. ASSUME up[w] = <<>> PROVE up'[w] = <<>>
    <3>1. Range(up'[w]) = {}
      BY <2>1, <2>2, EmptyLane
    <3> QED
      BY <3>1, InRange DEF Types
  <2> QED
    BY <2>1, <2>2
<1>6. handler[w].state = "running"
  BY <1>1 DEF IInv, Steady, SteadyWorker
<1>7. Steady'
  <2>1. SteadyWorker(w)
    BY DEF IInv, Steady
  <2>2. SteadyWorker(w)'
    BY <2>1, <1>1, <1>3, <1>4, <1>6 DEF SteadyWorker
  <2>3. ASSUME NEW v \in Workers, v # w PROVE SteadyWorker(v)'
    <3>1. SteadyWorker(v)
      BY DEF IInv, Steady
    <3> QED
      BY <2>3, <3>1, <1>1, <1>3 DEF SteadyWorker, Bare
  <2> QED
    BY <2>2, <2>3, <1>1 DEF IInv, Steady, SteadyRequest
<1>8. ASSUME NEW v \in Workers, Elsewhere(v) PROVE Elsewhere(v)'
  <2>1. Bare(v)'
    BY <1>8, <1>1, <1>3, <1>4, <1>5 DEF Elsewhere, Bare
  <2> QED
    BY <2>1, <1>8, <1>1 DEF Elsewhere
<1>9. OnlyHome'
  BY <1>1, <1>8 DEF IInv, OnlyHome
<1>10. Knows'
  BY <1>1 DEF IInv, Knows
<1>11. ~NoDeath'
  BY <1>1, SendersAre DEF NoDeath, IInv, Types, SpentT
<1>12. Whole'
  BY <1>1, <1>11, WholeDies DEF Answered
<1>13. Parcels'
  <2>1. \/ deposit'.parcel = deposit.parcel
        \/ deposit'.parcel = {}
        \/ proc[w].dep.step = "writing" /\ deposit'.parcel = {proc[w].copy}
    <3>1. CASE proc[w].dep.step = "writing" /\ deposit' \in HalfWritten(proc[w])
      BY <3>1, HalfTyped DEF IInv
    <3>2. CASE deposit' = deposit \/ \E left \in {{}, deposit.parcel} :
                                       deposit' = [deposit EXCEPT !.parcel = left, !.lock = w]
      BY <3>2 DEF IInv, Types, DepositT
    <3> QED
      BY <3>1, <3>2 DEF Crash, Die
  <2>2. proc[w].copy \in Stores
    BY DEF IInv, Types, Processes
  <2>3. ASSUME NEW v \in Workers, proc'[v].row = "active"
        PROVE  v # w /\ proc[v].row = "active" /\ Bare(w)
    <3>1. v # w /\ proc[v].row = "active"
      BY <2>3, <1>3, <1>4
    <3>2. v = vertex.placement
      BY <3>1, AtHome DEF Bare
    <3> QED
      BY <3>1, <3>2 DEF IInv, OnlyHome, Elsewhere
  <2>4. ASSUME NEW v \in Workers, proc'[v].row = "active"
        PROVE  \A s \in deposit'.parcel : s \subseteq proc'[v].store
    <3>1. v # w /\ proc[v].row = "active" /\ proc'[v] = proc[v]
      BY <2>3, <2>4, <1>3
    <3>2. deposit'.parcel \in {deposit.parcel, {}}
      BY <2>1, <2>3, <2>4 DEF Bare, NoDeparture
    <3> QED
      BY <3>1, <3>2 DEF IInv, Parcels
  <2>5. ASSUME NEW v \in Workers, proc'[v].dep.step = "writing"
        PROVE  proc'[v].copy \subseteq proc'[v].store
    BY <2>5, <1>3, <1>4 DEF IInv, Parcels, NoDeparture
  <2> QED
    BY <2>1, <2>2, <2>4, <2>5 DEF IInv, Parcels
<1>14. ASSUME NEW v \in Workers, v = vertex'.placement PROVE Settled(v)'
  <2>1. Settled(v)
    BY <1>1, <1>14 DEF IInv
  <2>2. CASE v # w
    <3>1. up'[v] = up[v] /\ proc'[v] = proc[v]
      BY <2>2, <1>3
    <3> QED
      BY <2>1, <3>1, <1>1, Unseen DEF IInv
  <2>3. CASE v = w
    <3>1. /\ Here(w)' = Here(w) /\ (HoldsAdopted(w)' <=> HoldsAdopted(w))
          /\ Judged(w)' => Judged(w)
          /\ SaysAdopted(w)' => SaysAdopted(w)
          /\ SaysFrozen(w)' => SaysFrozen(w)
          /\ SeenIdle(w)' => SeenIdle(w)
          /\ (Ripe(w)' <=> Ripe(w))
      BY <1>1, <1>5 DEF Here, HoldsAdopted, Judged, SaysAdopted, SaysFrozen, SeenIdle, Ripe
    <3>2. Judged(w)' => up'[w] = up[w]
      BY <1>3, <2>1, <2>3, UpCut DEF Judged, Settled, Told
    <3>3. Carried(w)'
      BY <1>1, <2>1, <2>3 DEF Settled, Carried
    <3>4. Told(w)'
      <4>1. OrderedUp(up'[w])
        BY <1>3, <2>1, <2>3, UpCut DEF Settled, Told
      <4>2. \A m \in Range(up'[w]) : Honest(m, w)'
        BY <1>1, <1>5, <2>1, <2>3 DEF Settled, Told, Honest
      <4> QED
        BY <4>1, <4>2, <3>1, <3>2, <1>1, <1>3, <1>4, <2>1, <2>3 DEF Settled, Told
    <3>5. Order(w)'
      BY <3>1, <1>1, <1>3, <1>4, <1>5, <2>1, <2>3 DEF Settled, Order
    <3>6. Rows(w)'
      BY <3>1, <1>1, <1>3, <1>4, <2>1, <2>3 DEF Settled, Rows
    <3> QED
      BY <3>3, <3>4, <3>5, <3>6, <2>3 DEF Settled
  <2> QED
    BY <2>2, <2>3
<1> QED
  BY <1>7, <1>9, <1>10, <1>12, <1>13, <1>14 DEF IInv

\* What the vertex reads is always about the worker he is placed on; the answer to an order is
\* the last it reads of him there.
LEMMA FoldKeeps ==
    ASSUME IInv, Types', NEW w \in Workers, Fold(w) PROVE IInv'
<1>1. up[w] # <<>>
  BY DEF Fold
<1>2. /\ w = vertex.placement /\ Settled(w) /\ vertex.known /\ handler[w].state = "running"
  BY <1>1, AtHome DEF Bare
<1>3. PICK m \in Envelopes : m = Head(up[w])
  BY <1>1, Tailed DEF IInv, Types
<1>4. /\ Range(up[w]) = {m} \cup Range(up'[w]) /\ up'[w] = Tail(up[w])
      /\ OrderedUp(up'[w]) /\ \A n \in Range(up'[w]) : Above(m, n)
      /\ \A v \in Workers : v # w => up'[v] = up[v]
  <2>1. /\ up'[w] = Tail(up[w]) /\ up[w] \in Seq(Envelopes)
        /\ \A v \in Workers : v # w => up'[v] = up[v]
    BY DEF Fold, IInv, Types
  <2>2. Range(up[w]) = {m} \cup Range(up'[w])
    BY <2>1, <1>1, <1>3, Tailed
  <2>3. OrderedUp(up'[w]) /\ \A n \in Range(up'[w]) : Above(m, n)
    BY <2>1, <1>1, <1>2, <1>3, UpTail DEF Settled, Told
  <2> QED
    BY <2>1, <2>2, <2>3
<1>5. Honest(m, w) /\ m.photo # "ceded"
  BY <1>2, <1>4 DEF Settled, Told, Honest
<1>6. UNCHANGED <<placing, down, proc, deposit, spent>>
  BY DEF Fold
<1>7. /\ vertex'.known
      /\ vertex'.frozen = (IF Marks(m) = {} THEN vertex.frozen ELSE "user_frozen" \in m.events)
      /\ vertex'.hold = (vertex.hold /\ Marks(m) = {} /\ ~(Answers(w, m) /\ m.kind = "refused"))
      /\ vertex'.placement = (IF "user_frozen" \in m.events THEN None ELSE w)
  <2>1. vertex' = [known |-> vertex.known \/ ("new_connection" \in m.events
                                 /\ ~(~vertex.known /\ (m.photo = "ceded" \/ Marks(m) # {}))),
                   frozen |-> vertex.known /\ FrozenAfter(m),
                   hold |-> vertex.known /\ HoldAfter(m) /\ ~(Answers(w, m) /\ m.kind = "refused"),
                   placement |-> IF "user_frozen" \in m.events THEN None
                                 ELSE IF "new_connection" \in m.events THEN w ELSE vertex.placement]
    BY <1>3 DEF Fold
  <2>2. /\ vertex'.frozen = (vertex.known /\ FrozenAfter(m))
        /\ vertex'.hold = (vertex.known /\ HoldAfter(m) /\ ~(Answers(w, m) /\ m.kind = "refused"))
        /\ vertex'.placement = (IF "user_frozen" \in m.events THEN None ELSE w)
        /\ vertex'.known
    BY <2>1, <1>2
  <2>3. FrozenAfter(m) = (IF Marks(m) = {} THEN vertex.frozen ELSE "user_frozen" \in m.events)
    BY DEF FrozenAfter
  <2>4. FrozenAfter(m) \in BOOLEAN /\ HoldAfter(m) \in BOOLEAN
    <3>1. vertex.frozen \in BOOLEAN /\ vertex.hold \in BOOLEAN
      BY DEF IInv, Types, VertexT
    <3>2. FrozenAfter(m) \in BOOLEAN
      <4>1. CASE Marks(m) = {}
        BY <3>1, <4>1 DEF FrozenAfter
      <4>2. CASE Marks(m) # {}
        <5>1. CASE "user_frozen" \in m.events
          BY <4>2, <5>1 DEF FrozenAfter
        <5>2. CASE "user_frozen" \notin m.events
          <6>1. FrozenAfter(m) = FALSE
            BY <4>2, <5>2 DEF FrozenAfter
          <6> QED
            BY <6>1
        <5> QED
          BY <5>1, <5>2
      <4> QED
        BY <4>1, <4>2
    <3>3. HoldAfter(m) \in BOOLEAN
      BY Zenon DEF HoldAfter
    <3> QED
      BY <3>2, <3>3
  <2>5. HoldAfter(m) <=> vertex.hold /\ Marks(m) = {}
    BY <1>5 DEF HoldAfter
  <2>6. vertex.hold \in BOOLEAN
    BY DEF IInv, Types, VertexT
  <2> QED
    BY <2>2, <2>3, <2>4, <2>5, <2>6, <1>2
<1>8. /\ handler'[w].state = "running" /\ handler'[w].expected = handler[w].expected
      /\ handler'[w].photo = (IF m.photo = "none" THEN handler[w].photo ELSE m.photo)
      /\ handler'[w].hosted <=> "user_frozen" \notin m.events
             /\ (handler[w].hosted \/ m.events \cap {"new_user", "user_adopted"} # {})
      /\ handler'[w].freezing = (IF Answers(w, m) THEN 0 ELSE handler[w].freezing)
      /\ \A v \in Workers : v # w => handler'[v] = handler[v]
  BY <1>2, <1>3 DEF Fold, IInv, Types, HandlerT
<1>9. \A v \in Workers : v # w => /\ down'[v] = down[v] /\ up'[v] = up[v]
                                  /\ handler'[v] = handler[v] /\ proc'[v] = proc[v]
  BY <1>4, <1>6, <1>8
<1>10. /\ Ripe(w)' <=> Ripe(w)
       /\ Judged(w) <=> Judged(w)' \/ m.kind \in Verdicts
       /\ SaysFrozen(w) <=> SaysFrozen(w)' \/ "user_frozen" \in m.events
       /\ SaysAdopted(w) <=> SaysAdopted(w)' \/ "user_adopted" \in m.events
       /\ SeenIdle(w)' => SeenIdle(w)
       /\ handler'[w].photo = "idle" => m.photo = "idle" \/ (m.photo = "none" /\ handler[w].photo = "idle")
  BY <1>4, <1>6, <1>8 DEF Ripe, Judged, SaysFrozen, SaysAdopted, SeenIdle
<1>11. "idle" # "none"
  OBVIOUS
<1>12. CASE m.kind \in Replies
  <2>1. PICK r \in Requests : r = m.who
    BY <1>5, <1>12 DEF Honest, Replies, Verdicts
  <2>2. /\ rq[r].phase = "replied" /\ rq[r].on = w
        /\ m.events \subseteq {"user_adopted", "new_connection"}
    BY <1>5, <1>12, <2>1 DEF Honest, Replies, Verdicts
  <2>3. /\ rq'[r].phase = (IF m.kind = "reply" THEN "done" ELSE "failed")
        /\ rq'[r].on = w /\ rq'[r].events = {} /\ rq'[r].base = rq[r].base
        /\ \A q \in Requests : q # r => rq'[q] = rq[q]
    <3>1. rq' = [rq EXCEPT ![r] = [@ EXCEPT
                   !.phase = IF m.kind = "reply" THEN "done" ELSE "failed", !.events = {}]]
      BY <1>3, <1>12, <2>1 DEF Fold, Replies
    <3> QED
      BY <3>1, <2>2 DEF IInv, Types, RqT
  <2>4. /\ "user_frozen" \notin m.events /\ ~Answers(w, m) /\ "new_user" \notin m.events
        /\ Marks(m) = {} <=> "user_adopted" \notin m.events
        /\ m.kind \notin Verdicts
    BY <1>12, <2>2 DEF Answers, Marks, Replies, Verdicts
  <2>5. /\ vertex'.placement = w /\ vertex'.frozen = (vertex.frozen /\ "user_adopted" \notin m.events)
        /\ vertex'.hold = (vertex.hold /\ "user_adopted" \notin m.events)
        /\ handler'[w].freezing = handler[w].freezing
        /\ handler'[w].hosted <=> handler[w].hosted \/ "user_adopted" \in m.events
    BY <1>7, <1>8, <2>2, <2>4 DEF IInv, Types, VertexT
  <2>6. Here(w)' = Here(w) /\ (HoldsAdopted(w)' <=> HoldsAdopted(w))
        /\ \A q \in Here(w) : rq'[q] = rq[q]
    BY <2>2, <2>3 DEF Here, HoldsAdopted, Inside
  <2>7. OnlyHome' /\ \A v \in Workers : v # w => SteadyWorker(v)'
    <3>1. \A q \in Requests : rq'[q] = rq[q] \/ rq'[q].on = w \/ rq'[q].phase \notin Live
      BY <2>3
    <3> QED
      BY <3>1, <1>2, <1>9, <2>5, OthersStay
  <2>8. Steady'
    <3>1. SteadyWorker(w)
      BY DEF IInv, Steady
    <3>2. SteadyWorker(w)'
      BY <3>1, <1>2, <1>5, <1>6, <1>8 DEF SteadyWorker
    <3>3. \A q \in Requests : SteadyRequest(q)'
      BY <2>3 DEF IInv, Steady, SteadyRequest, Ended, Live, Inside
    <3> QED
      BY <3>2, <3>3, <1>6, <2>7 DEF IInv, Steady
  <2>9. Knows'
    <3>1. handler[w].hosted <=> ~vertex.frozen
      BY <1>2, SendersAre DEF IInv, Knows
    <3> QED
      BY <3>1, <1>7, <1>8, <2>5, SendersAre DEF Knows
  <2>10. Whole' /\ Parcels'
    <3>1. Answered \subseteq Answered' /\ Answered' \subseteq Kept
      <4>1. m.kind = "reply" => r \in Kept
        BY <1>4, <2>1 DEF Kept
      <4>2. \A q \in Requests : q # r => (q \in Answered' <=> q \in Answered)
        BY <2>3 DEF Answered
      <4>3. r \notin Answered /\ (r \in Answered' => m.kind = "reply")
        BY <2>2, <2>3 DEF Answered
      <4>4. Answered \subseteq Kept /\ Answered \subseteq Requests /\ Answered' \subseteq Requests
        BY DEF Kept, Answered
      <4> QED
        BY <4>1, <4>2, <4>3, <4>4
    <3>2. Kept' \subseteq Kept
      <4>1. \A v \in Workers : Range(up'[v]) \subseteq Range(up[v])
        BY <1>4
      <4> QED
        BY <3>1, <4>1 DEF Kept
    <3>3. \A q \in Requests : rq'[q].base = rq[q].base
      BY <2>3
    <3>4. \A v \in Workers : handler'[v].state = handler[v].state
      BY <1>2, <1>8
    <3> QED
      BY <3>1, <3>2, <3>3, <3>4, <1>6, WholeStays
  <2>11. Carried(w)'
    <3>1. \A n \in Range(down[w]) : n.kind = "request" => n.who \in Requests
      BY Letters DEF Mail, IInv
    <3> QED
      BY <3>1, <1>2, <1>6, <2>2, <2>3 DEF Settled, Carried
  <2>12. Told(w)'
    <3>1. \A n \in Range(up'[w]) : n.kind \in Replies => n.who # r
      BY <1>4, <1>12, <2>1 DEF Above
    <3>2. ASSUME NEW n \in Range(up'[w]) PROVE Honest(n, w)'
      <4>1. Honest(n, w)
        BY <1>2, <1>4 DEF Settled, Told
      <4> QED
        BY <4>1, <3>1, <2>3 DEF Honest
    <3>3. proc'[w].alive \/ Judged(w)' => proc[w].alive \/ Judged(w)
      BY <1>6, <1>10
    <3>4. ASSUME proc'[w].alive \/ Judged(w)', NEW q \in Requests, rq'[q].on = w, rq'[q].phase = "replied"
          PROVE  \E n \in Range(up'[w]) : n.kind \in Replies /\ n.who = q
      <4>1. q # r /\ rq[q].on = w /\ rq[q].phase = "replied"
        BY <3>4, <2>3
      <4>2. PICK n \in Range(up[w]) : n.kind \in Replies /\ n.who = q
        BY <4>1, <3>3, <3>4, <1>2 DEF Settled, Told
      <4> QED
        BY <4>1, <4>2, <1>4, <2>1
    <3> QED
      BY <3>2, <3>4, <1>4 DEF Told
  <2>13. Order(w)'
    <3>1. handler[w].freezing # 0 => vertex'.hold
      BY <1>2, <1>10, <2>5 DEF Settled, Order
    <3>2. (Judged(w)' <=> Judged(w)) /\ (SaysFrozen(w)' <=> SaysFrozen(w))
      BY <1>10, <2>4
    <3>3. SaysAdopted(w)' => SaysAdopted(w)
      BY <1>10
    <3>4. Range(up'[w]) \subseteq Range(up[w])
      BY <1>4
    <3> QED
      BY <3>1, <3>2, <3>3, <3>4, <1>2, <1>6, <1>10, <2>5, <2>6 DEF Settled, Order
  <2>14. Rows(w)'
    <3>1. SaysFrozen(w)' <=> SaysFrozen(w)
      BY <1>10, <2>4
    <3>2. Cold(w) => Cold(w)'
      BY <1>6, <1>10, <2>5, <2>6 DEF Cold
    <3>3. vertex'.frozen /\ proc'[w].row = "active" => SaysAdopted(w)' \/ HoldsAdopted(w)'
      BY <1>2, <1>6, <1>10, <2>5, <2>6 DEF Settled, Rows
    <3>4. handler'[w].photo = "idle" => ~SaysAdopted(w)'
      <4>1. m.photo = "idle" => ~SaysAdopted(w)'
        BY <1>4 DEF Above, SaysAdopted
      <4> QED
        BY <4>1, <1>2, <1>10 DEF Settled, Rows
    <3> QED
      BY <3>1, <3>2, <3>3, <3>4, <1>2, <1>6, <1>10, <2>6 DEF Settled, Rows
  <2> QED
    BY <2>5, <2>7, <2>8, <2>9, <2>10, <2>11, <2>12, <2>13, <2>14 DEF IInv, Settled
<1>13. CASE m.kind \in Verdicts
  <2>1. Judged(w)
    BY <1>10, <1>13
  <2>2. handler[w].freezing # 0 /\ m.who = handler[w].freezing
    BY <2>1, <1>2, <1>4, <1>13 DEF Settled, Order
  <2>3. Answers(w, m)
    BY <2>2, <1>13 DEF Answers, Verdicts
  <2>4. /\ down[w] = <<>> /\ Here(w) = {} /\ proc[w].orders = {} /\ proc[w].dep = NoDeparture /\ ~Ripe(w)
    BY <2>1, <1>2 DEF Settled, Order
  <2>5. /\ Range(up'[w]) = {} /\ up'[w] = <<>>
    <3>1. Range(up'[w]) = {}
      BY <1>4, <1>13 DEF Above, Replies, Verdicts
    <3> QED
      BY <3>1, InRange DEF Types
  <2>6. m.events \subseteq {"user_frozen"} /\ ("user_frozen" \in m.events => m.photo = "away")
    BY <1>5, <1>13 DEF Honest, Replies, Verdicts
  <2>7. rq' = rq
    BY <1>3, <1>13 DEF Fold, Verdicts
  <2>8. \A r \in Requests : rq[r].on = w => rq[r].phase \notin Live
    <3>1. ASSUME NEW r \in Requests, rq[r].on = w PROVE rq[r].phase \notin {"sent", "replied"}
      <4>1. rq[r].phase # "sent"
        BY <3>1, <2>4, <1>2, EmptyLane DEF Settled, Carried
      <4>2. \A n \in Range(up[w]) : n.kind \notin Replies
        BY <1>4, <2>5, <1>13 DEF Replies, Verdicts
      <4>3. rq[r].phase # "replied"
        BY <3>1, <2>1, <4>2, <1>2 DEF Settled, Told
      <4> QED
        BY <4>1, <4>3
    <3>2. \A r \in Requests : rq[r].on = w => rq[r].phase \notin Inside
      BY <2>4 DEF Here
    <3> QED
      BY <3>1, <3>2 DEF Live
  <2>9. proc[w].pend = {}
    <3>1. CASE proc[w].alive
      BY <3>1, <2>4, <1>2 DEF Settled, Rows
    <3>2. CASE ~proc[w].alive
      BY <3>2 DEF IInv, Steady, SteadyWorker, Gone
    <3> QED
      BY <3>1, <3>2
  <2>10. handler'[w].freezing = 0
    BY <2>3, <1>8
  <2>11. /\ ~Judged(w)' /\ ~Ripe(w)' /\ ~SaysFrozen(w)' /\ ~SaysAdopted(w)' /\ ~HoldsAdopted(w)'
         /\ Here(w)' = {}
    BY <2>4, <2>5, <2>7, <1>10 DEF Judged, SaysFrozen, SaysAdopted, HoldsAdopted, Here
  <2>12. Steady'
    <3>1. SteadyWorker(w)
      BY DEF IInv, Steady
    <3>2. SteadyWorker(w)'
      BY <3>1, <1>2, <1>5, <1>6, <1>8 DEF SteadyWorker
    <3>3. ASSUME NEW v \in Workers, v # w PROVE SteadyWorker(v)'
      <4>1. SteadyWorker(v)
        BY DEF IInv, Steady
      <4> QED
        BY <4>1, <3>3, <1>9, <2>7 DEF SteadyWorker, Bare
    <3> QED
      BY <3>2, <3>3, <1>6, <2>7 DEF IInv, Steady, SteadyRequest
  <2>13. Whole' /\ Parcels'
    <3>1. Answered' = Answered
      BY <2>7 DEF Answered
    <3>2. Kept' \subseteq Kept
      <4>1. \A v \in Workers : Range(up'[v]) \subseteq Range(up[v])
        BY <1>4
      <4> QED
        BY <3>1, <4>1 DEF Kept
    <3>3. \A v \in Workers : handler'[v].state = handler[v].state
      BY <1>2, <1>8
    <3> QED
      BY <3>1, <3>2, <3>3, <2>7, <1>6, WholeStays
  <2>14. CASE "user_frozen" \in m.events
    <3>1. /\ vertex'.placement = None /\ vertex'.frozen
          /\ ~handler'[w].hosted /\ handler'[w].photo = "away"
      BY <2>6, <2>14, <1>7, <1>8 DEF Marks
    <3>2. proc[w].row = "absent"
      BY <2>14, <1>2, <1>10 DEF Settled, Rows
    <3>3. Elsewhere(w)'
      BY <3>1, <3>2, <2>4, <2>5, <2>7, <2>8, <2>9, <2>10, <1>6 DEF Elsewhere, Bare
    <3>4. OnlyHome'
      BY <3>3, <1>2, <1>9, <2>7, OthersStay
    <3>5. Knows'
      BY <3>1 DEF Knows
    <3> QED
      BY <3>1, <3>4, <3>5, <2>12, <2>13, SendersAre DEF IInv
  <2>15. CASE "user_frozen" \notin m.events
    <3>1. m.events = {} /\ Marks(m) = {}
      BY <2>6, <2>15 DEF Marks
    <3>2. /\ vertex'.placement = w /\ vertex'.frozen = vertex.frozen
          /\ handler'[w].hosted <=> handler[w].hosted
      BY <3>1, <1>7, <1>8
    <3>3. OnlyHome'
      BY <3>2, <1>2, <1>9, <2>7, OthersStay
    <3>4. Knows'
      BY <3>2, <1>2, <1>7, <1>8, SendersAre DEF IInv, Knows
    <3>5. Carried(w)'
      BY <1>2, <1>6, <2>7 DEF Settled, Carried
    <3>6. Told(w)'
      BY <2>5, <2>7, <2>8, EmptyLane DEF Told, Live
    <3>7. Order(w)'
      BY <2>4, <2>10, <2>11, <1>6 DEF Order
    <3>8. Rows(w)'
      <4>1. ~SaysFrozen(w) /\ ~SaysAdopted(w) /\ ~HoldsAdopted(w)
        BY <3>1, <2>4, <2>11, <1>10 DEF HoldsAdopted
      <4>2. proc'[w].alive => proc'[w].pend = Here(w)'
        BY <2>9, <2>11, <1>6
      <4>3. Cold(w) => Cold(w)'
        BY <3>2, <2>11, <1>6, <1>10 DEF Cold
      <4>4. ~(vertex'.frozen /\ proc'[w].row = "active")
        BY <4>1, <3>2, <1>2, <1>6 DEF Settled, Rows
      <4> QED
        BY <4>1, <4>2, <4>3, <4>4, <2>4, <2>11, <1>2, <1>6 DEF Settled, Rows
    <3> QED
      BY <3>2, <3>3, <3>4, <3>5, <3>6, <3>7, <3>8, <2>12, <2>13 DEF IInv, Settled
  <2> QED
    BY <2>14, <2>15
<1> QED
  BY <1>5, <1>12, <1>13 DEF Honest

-----------------------------------------------------------------------------
(* The theorems of a calm group.                                           *)

\* The steps that only what is not calm, or a state it never reaches, allows.
LEMMA NeverTaken ==
    ASSUME Calm, IInv, NEW w \in Workers
    PROVE  /\ ~LaunchForAnother(w) /\ ~Present(w) /\ ~LaunchFails(w) /\ ~FreezeOrderExpires(w)
           /\ ~OrderQuit(w) /\ ~Transfer(w) /\ ~CutStragglers(w) /\ ~ExitProcess(w)
           /\ ~QuitOverdue(w)
<1>1. /\ "birth" \notin Happens /\ "expiry" \notin Happens /\ "restart" \notin Happens
      /\ "cut" \notin Happens /\ "overdue" \notin Happens
  BY DEF Calm
<1>2. ~LaunchForAnother(w) /\ ~FreezeOrderExpires(w) /\ ~OrderQuit(w) /\ ~CutStragglers(w) /\ ~QuitOverdue(w)
  BY <1>1 DEF LaunchForAnother, FreezeOrderExpires, OrderQuit, CutStragglers, QuitOverdue
<1>3. handler[w].state # "starting" /\ ~proc[w].quitting
  BY DEF IInv, Steady, SteadyWorker
<1> QED
  BY <1>2, <1>3 DEF Present, LaunchFails, Transfer, ExitProcess

LEMMA CalmKept == Calm /\ IInv /\ [Next]_vars => IInv'
<1> SUFFICES ASSUME Calm, IInv, [Next]_vars PROVE IInv'
  OBVIOUS
<1>1. Types'
  BY TypesKept DEF IInv
<1>2. CASE UNCHANGED vars
  <2>1. UNCHANGED <<vertex, placing, handler, rq, down, up, proc, deposit, spent>>
    BY <1>2 DEF vars
  <2>2. Steady' /\ OnlyHome' /\ Knows' /\ Parcels'
    BY <2>1 DEF IInv, Steady, SteadyWorker, SteadyRequest, OnlyHome, Elsewhere, Bare, Knows, Parcels
  <2>3. Whole'
    BY <2>1, WholeStays, SameKept DEF Answered
  <2>4. \A w \in Workers : w = vertex'.placement => Settled(w)'
    BY <2>1, Unseen DEF IInv
  <2> QED
    BY <1>1, <2>2, <2>3, <2>4 DEF IInv
<1>3. ASSUME NEW w \in Workers, WorkerNext(w) PROVE IInv'
  <2>2. /\ ~LaunchForAnother(w) /\ ~Present(w) /\ ~LaunchFails(w) /\ ~FreezeOrderExpires(w)
        /\ ~OrderQuit(w) /\ ~Transfer(w) /\ ~CutStragglers(w) /\ ~ExitProcess(w) /\ ~QuitOverdue(w)
    BY NeverTaken
  <2> QED
    BY <1>1, <1>3, <2>2, FreezeHostedUserKeeps, FoldKeeps, LoseKeeps, ReportDeathKeeps,
       ReceiveRequestKeeps, ReceiveOrderKeeps, ActOnOrderKeeps, DepartureGoesOnKeeps,
       ParcelsWrittenKeeps, DepartureFailsKeeps, CrashKeeps DEF WorkerNext
<1>4. ASSUME NEW r \in Requests, RequestNext(r) PROVE IInv'
  <2>1. ~SendReply(r)
    BY DEF IInv, Steady, SteadyRequest, Live, Inside, Ended, SendReply
  <2> QED
    BY <1>1, <1>4, <2>1, ResolveWorkerKeeps, HoldTimeoutKeeps, TakeStoreKeeps, AdoptionFailsKeeps,
       TakeConnectionKeeps, FetchFailsKeeps, CloseRequestKeeps DEF RequestNext
<1>5. ~NextPlacement
  BY DEF IInv, Steady, NextPlacement
<1> QED
  BY <1>2, <1>3, <1>4, <1>5 DEF Next, AtRest

LEMMA CalmAlways == ASSUME Calm PROVE Spec => []IInv
BY CalmInit, CalmKept, PTL DEF Spec

\* A group that is calm never has him active in two processes, nor two parcels of his; a
\* parcel that a refused departure left beside his row holds nothing that the row has not.
THEOREM OneHome == ASSUME Calm PROVE Spec => []SingleHome
<1>1. IInv => SingleHome
  <2> SUFFICES ASSUME IInv PROVE SingleHome
    OBVIOUS
  <2> DEFINE homes == {w \in Workers : proc[w].row = "active"}
  <2>1. \A v, w \in homes : v = w
    BY AtHome DEF Bare
  <2>2. IsFiniteSet(homes) /\ Cardinality(homes) \in {0, 1} /\ (Cardinality(homes) = 0 <=> homes = {})
    <3>1. CASE homes = {}
      BY <3>1, FS_EmptySet
    <3>2. CASE homes # {}
      <4>1. PICK v \in homes : homes = {v}
        BY <3>2, <2>1
      <4>2. IsFiniteSet({v}) /\ Cardinality({v}) = 1
        BY FS_Singleton
      <4>3. IsFiniteSet(homes) /\ Cardinality(homes) = 1
        BY ONLY <4>1, <4>2
      <4> QED
        BY <3>2, <4>3
    <3> QED
      BY <3>1, <3>2
  <2>3. Cardinality(deposit.parcel) \in {0, 1}
    <3>1. deposit.parcel = {} \/ \E t \in Stores : deposit.parcel = {t}
      BY DEF IInv, Parcels
    <3> QED
      BY <3>1, FS_EmptySet, FS_Singleton
  <2>4. \A w \in Workers, store \in deposit.parcel :
          proc[w].row = "active" => store \subseteq proc[w].store
    BY DEF IInv, Parcels
  <2> HIDE DEF homes
  <2>5. Cardinality(homes) <= 1 /\ Cardinality(deposit.parcel) <= 1
    BY <2>2, <2>3
  <2> QED
    BY <2>4, <2>5 DEF SingleHome, homes
<1> QED
  BY <1>1, CalmAlways, PTL

\* Nothing a user was told is done is lost short of a death: freezes, adoptions and failed
\* departures move his state, they never drop it.
THEOREM AnsweredIsKept == ASSUME Calm PROVE Spec => []NothingLost
<1>1. IInv => NothingLost
  <2> SUFFICES ASSUME IInv, NoDeath, NEW r \in Answered
               PROVE  \/ \E w \in Workers : r \in proc[w].store
                      \/ \E store \in deposit.parcel : r \in store
    BY DEF NothingLost
  <2>1. r \in Kept /\ (\A w \in Workers : Guarded(w)) /\ Parked
    BY DEF Kept, IInv, Whole
  <2>2. CASE \E w \in Workers : proc[w].row = "active"
    BY <2>1, <2>2 DEF Guarded
  <2>3. CASE \A w \in Workers : proc[w].row # "active"
    BY <2>1, <2>3 DEF Parked
  <2> QED
    BY <2>2, <2>3
<1> QED
  BY <1>1, CalmAlways, PTL

\* What the vertex routes by is true of the processes and of the deposit: frozen, he is in the
\* deposit and nowhere else; not frozen, he lives where he is placed, whatever a refusal left.
THEOREM VertexKnows == ASSUME Calm PROVE Spec => []VertexAgrees
<1>1. IInv => MarksAgree
  <2> SUFFICES ASSUME IInv, NoDeath, Quiet, vertex.known
               PROVE  IF vertex.frozen
                      THEN deposit.parcel # {} /\ \A w \in Workers : proc[w].row # "active"
                      ELSE \E w \in Workers : vertex.placement = w /\ proc[w].row = "active"
    BY DEF MarksAgree
  <2>1. (\A w \in Workers : Guarded(w)) /\ Parked
    BY DEF IInv, Whole
  <2>2. ASSUME NEW w \in Workers, w # vertex.placement PROVE proc[w].row # "active"
    BY <2>2 DEF IInv, OnlyHome, Elsewhere, Bare
  <2>3. CASE vertex.placement = None
    <3>1. vertex.frozen
      BY <2>3 DEF IInv, Knows
    <3>2. deposit.parcel # {} /\ \A w \in Workers : proc[w].row # "active"
      BY <2>1, <2>2, <2>3, SendersAre DEF Parked
    <3> QED
      BY <3>1, <3>2
  <2>4. CASE vertex.placement # None
    <3>1. PICK w \in Workers : w = vertex.placement
      BY <2>4 DEF IInv, Types, VertexT
    <3>2. Settled(w) /\ proc[w].alive
      BY <3>1, <2>1 DEF IInv, Guarded
    <3>3. ~SaysFrozen(w) /\ ~SaysAdopted(w)
      BY EmptyLane DEF Quiet, SaysFrozen, SaysAdopted
    <3>4. ~HoldsAdopted(w)
      BY DEF Quiet, HoldsAdopted, Here, Inside, Ended
    <3>5. CASE proc[w].row = "active"
      <4>1. ~vertex.frozen
        BY <3>2, <3>3, <3>4, <3>5 DEF Settled, Rows
      <4> QED
        BY <4>1, <3>1, <3>5
    <3>6. CASE proc[w].row # "active"
      <4>1. vertex.frozen
        BY <3>2, <3>3, <3>6 DEF Settled, Rows, Cold
      <4>2. deposit.parcel # {} /\ \A v \in Workers : proc[v].row # "active"
        BY <2>1, <2>2, <3>1, <3>6 DEF Parked
      <4> QED
        BY <4>1, <4>2
    <3> QED
      BY <3>5, <3>6
  <2> QED
    BY <2>3, <2>4
<1>2. IInv => BlockedUnderOrder
  BY AtHome DEF BlockedUnderOrder, Bare, Settled, Order
<1>3. IInv => VertexAgrees
  BY <1>1, <1>2 DEF VertexAgrees
<1> QED
  BY <1>3, CalmAlways, PTL

\* No call of his runs in a process that is writing his parcels.
THEOREM NothingRunsMeanwhile == ASSUME Calm PROVE Spec => []QuietParcels
<1>1. IInv => QuietParcels
  <2> SUFFICES ASSUME IInv, NEW w \in Workers, proc[w].dep.step = "writing" PROVE proc[w].pend = {}
    BY DEF QuietParcels
  <2>1. proc[w].dep # NoDeparture
    BY DEF NoDeparture
  <2>2. proc[w].alive
    BY <2>1 DEF IInv, Steady, SteadyWorker, Gone
  <2>3. Settled(w)
    BY <2>1, AtHome DEF Bare
  <2> QED
    BY <2>1, <2>2, <2>3 DEF Settled, Order, Rows
<1> QED
  BY <1>1, CalmAlways, PTL

\* Only the end of a call takes it from the service to its answer.
LEMMA OnlyClosing ==
    ASSUME Calm, IInv, Next, NEW r \in Requests, rq[r].phase = "serving",
           rq'[r].phase \in {"replied", "leaving"}
    PROVE  \E opens \in BOOLEAN : CloseRequest(r, opens)
<1>1. rq \in [Requests -> RqT] /\ \A q \in Requests : rq[q].phase \notin {"closing", "leaving"}
  BY DEF IInv, Types, Steady, SteadyRequest, Live, Inside, Ended
<1> DEFINE Far == rq'[r].phase \notin {"replied", "leaving"}
<1>2. ASSUME NEW w \in Workers, WorkerNext(w) PROVE Far
  <2>1. CASE Fold(w)
    <3>1. PICK m : m = Head(up[w])
      OBVIOUS
    <3>2. \/ rq' = [rq EXCEPT ![m.who] = [@ EXCEPT
                      !.phase = IF m.kind = "reply" THEN "done" ELSE "failed", !.events = {}]]
          \/ rq' = [rq EXCEPT ![m.who].phase = "closing"]
          \/ rq' = rq
      BY <2>1, <3>1 DEF Fold
    <3>3. rq'[r].phase \in {"done", "failed", "closing", rq[r].phase}
      <4>1. CASE m.who = r
        BY <3>2, <4>1, <1>1 DEF RqT
      <4>2. CASE m.who # r
        BY <3>2, <4>2, <1>1
      <4> QED
        BY <4>1, <4>2
    <3> QED
      BY <3>3
  <2>2. CASE Lose(w)
    <3>1. rq'[r] = IF rq[r].on = w /\ rq[r].phase \notin Ended
                   THEN [rq[r] EXCEPT !.phase = "failed", !.events = {}] ELSE rq[r]
      BY <2>2 DEF Lose
    <3> QED
      BY <3>1, <1>1 DEF RqT
  <2>3. CASE ReceiveRequest(w)
    <3>1. PICK q, phase : /\ rq' = [rq EXCEPT ![q].phase = phase]
                          /\ phase \in {"pulling", "awaiting", "serving", "fetching"}
      BY <2>3 DEF ReceiveRequest, Stage
    <3>2. rq'[r].phase \in {phase, rq[r].phase}
      BY <3>1, <1>1 DEF RqT
    <3> QED
      BY <3>1, <3>2
  <2>4. CASE DepartureGoesOn(w)
    BY <2>4, <1>1 DEF DepartureGoesOn
  <2>5. CASE ParcelsWritten(w) \/ DepartureFails(w)
    <3>1. \E p, answer, events : DepartureEnds(w, p, answer, events)
      BY <2>5 DEF ParcelsWritten, DepartureFails
    <3>2. rq'[r].phase \in {"closing", rq[r].phase}
      BY <3>1, <1>1 DEF DepartureEnds, RqT
    <3> QED
      BY <3>2
  <2>6. CASE \/ FreezeHostedUser(w) \/ ReportDeath(w) \/ ReceiveOrder(w) \/ ActOnOrder(w) \/ Crash(w)
    BY <2>6 DEF FreezeHostedUser, ReportDeath, ReceiveOrder, ActOnOrder, Crash
  <2>7. /\ ~LaunchForAnother(w) /\ ~Present(w) /\ ~LaunchFails(w) /\ ~FreezeOrderExpires(w)
        /\ ~OrderQuit(w) /\ ~Transfer(w) /\ ~CutStragglers(w) /\ ~ExitProcess(w) /\ ~QuitOverdue(w)
    BY NeverTaken
  <2> QED
    BY <1>2, <2>1, <2>2, <2>3, <2>4, <2>5, <2>6, <2>7 DEF WorkerNext
<1>3. ASSUME NEW q \in Requests, RequestNext(q), \A opens \in BOOLEAN : ~CloseRequest(r, opens)
      PROVE  Far
  <2>1. CASE ResolveWorker(q)
    <3>1. q # r
      BY <2>1 DEF ResolveWorker
    <3>2. rq'[r] = rq[r]
      BY <2>1, <3>1, <1>1 DEF ResolveWorker, AssignUser, Place, SendTo, End
    <3> QED
      BY <3>2
  <2>2. CASE HoldTimeout(q)
    BY <2>2, <1>1 DEF HoldTimeout, End, RqT
  <2>3. CASE TakeStore(q)
    BY <2>3, <1>1 DEF TakeStore, Awakened, Stage, RqT
  <2>4. CASE AdoptionFails(q)
    BY <2>4, <1>1 DEF AdoptionFails, Awakened, RqT
  <2>5. CASE TakeConnection(q)
    BY <2>5, <1>1 DEF TakeConnection, RqT
  <2>6. CASE FetchFails(q)
    BY <2>6, <1>1 DEF FetchFails, RqT
  <2>7. ~SendReply(q)
    BY <1>1 DEF SendReply
  <2>8. CASE \E opens \in BOOLEAN : CloseRequest(q, opens)
    <3>1. q # r
      BY <2>8, <1>3
    <3>2. rq'[r] = rq[r]
      BY <2>8, <3>1, <1>1 DEF CloseRequest
    <3> QED
      BY <3>2
  <2> QED
    BY <1>3, <2>1, <2>2, <2>3, <2>4, <2>5, <2>6, <2>7, <2>8 DEF RequestNext
<1>4. ~NextPlacement
  BY DEF IInv, Steady, NextPlacement
<1>5. AtRest => Far
  BY DEF AtRest, vars
<1> QED
  BY <1>2, <1>3, <1>4, <1>5 DEF Next

\* The end of a call that was served leaves his row where it was.
LEMMA ClosingStays ==
    ASSUME IInv, NEW r \in Requests, NEW opens \in BOOLEAN, CloseRequest(r, opens),
           rq[r].phase = "serving"
    PROVE  /\ rq'[r].base = rq[r].base
           /\ rq[r].on \in Workers /\ proc'[rq[r].on].row = "active"
           /\ spent' = spent
<1>0. PICK w \in Workers : w = rq[r].on
  BY Working DEF Inside
<1>1. proc[w].row = "active" /\ ~proc[w].flag /\ proc \in [Workers -> Processes]
  BY <1>0, Working DEF Settled, Rows, Inside, IInv, Steady, SteadyWorker, Types, CloseRequest, Alive
<1> DEFINE served == IF opens \/ proc[w].conn
                     THEN [WithConnection(proc[w]) EXCEPT !.store = @ \cup {r}] ELSE proc[w]
           p == [served EXCEPT !.pend = @ \ {r}]
<1>2. p \in Processes /\ p.row = "active" /\ ~p.flag
  <2>1. WithConnection(proc[w]) \in Processes /\ WithConnection(proc[w]).row = "active"
        /\ ~WithConnection(proc[w]).flag
    BY <1>1 DEF WithConnection, Processes
  <2>2. served \in Processes /\ served.row = "active" /\ ~served.flag
    BY <2>1, <1>1 DEF Processes, Stores
  <2> HIDE DEF served
  <2> QED
    BY <2>2 DEF Processes
<1>3. /\ \E kind, events : Outbound(w, p, kind, r, events)
      /\ \E events : rq' = [rq EXCEPT ![r] = [@ EXCEPT !.phase = "replied", !.events = events]]
      /\ spent' = spent
  BY <1>0, <1>2 DEF CloseRequest
<1> HIDE DEF p
<1>4. proc'[w].row = "active"
  BY <1>1, <1>2, <1>3 DEF Outbound, Processes
<1>5. rq'[r].base = rq[r].base
  BY <1>3 DEF IInv, Types, RqT
<1> QED
  BY <1>0, <1>3, <1>4, <1>5

\* A call finds, in the store of the process that serves it, what every call answered before
\* it was sent has built, wherever he was moved meanwhile, short of a death.
THEOREM WritesAreRead == ASSUME Calm PROVE Spec => ReadsItsWrites
<1> DEFINE Reads == \A r \in Requests :
                      rq[r].phase = "serving" /\ rq'[r].phase \in {"replied", "leaving"}
                        => ~NoDeath \/ purged \/ rq[r].base \subseteq proc'[rq[r].on].store
<1>1. IInv /\ IInv' /\ [Next]_vars => Reads
  <2> SUFFICES ASSUME IInv, IInv', [Next]_vars, NEW r \in Requests, NoDeath,
                      rq[r].phase = "serving", rq'[r].phase \in {"replied", "leaving"}
               PROVE  rq[r].base \subseteq proc'[rq[r].on].store
    OBVIOUS
  <2>1. Next
    BY DEF vars
  <2>2. PICK opens \in BOOLEAN : CloseRequest(r, opens)
    BY <2>1, OnlyClosing
  <2>3. PICK w \in Workers : w = rq[r].on
    BY <2>2, ClosingStays
  <2>4. rq'[r].base = rq[r].base /\ proc'[w].row = "active" /\ NoDeath'
    BY <2>2, <2>3, ClosingStays DEF NoDeath
  <2>5. rq'[r].base \subseteq Answered' /\ Guarded(w)'
    BY <2>4 DEF IInv, Whole, Based
  <2>6. Answered' \subseteq proc'[w].store
    BY <2>4, <2>5 DEF Guarded, Kept
  <2> QED
    BY <2>3, <2>4, <2>5, <2>6
<1>2. Spec => []IInv
  BY CalmAlways
<1> QED
  BY <1>1, <1>2, PTL DEF Spec, ReadsItsWrites

=============================================================================
