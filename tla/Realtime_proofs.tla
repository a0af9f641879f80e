---------------------------- MODULE Realtime_proofs ----------------------------
(***************************************************************************)
(* The realtime driver between a server and the result store, for any      *)
(* items, texts, limits and lengths of the wire: what the driver remembers *)
(* agrees with the store, segments are in the order in which the server    *)
(* cut the audio, and a finish that returns has heard everything.          *)
(***************************************************************************)
EXTENDS Realtime, ResultStore_proofs

OtherEvents ==
    [type : {"updated", "empty", "failed"}, id : {Nothing}, previous : {Nothing}, text : {<<>>}]
WireEvents == ItemEvents \cup OtherEvents
Messages == [type : {"update", "append", "commit"}, vad : BOOLEAN]
Replies == {"committed", "empty"}

EventIs(type) == event # Nothing /\ event.type = type

RealtimeTypes ==
    /\ driver \in {"start", "run", "barrier", "finish", "done", "failed"}
    /\ serverVad \in BOOLEAN /\ ready \in BOOLEAN /\ finishing \in BOOLEAN /\ finishAck \in BOOLEAN
    /\ vadOn \in BOOLEAN /\ heard \in BOOLEAN /\ answered \in BOOLEAN
    /\ index \in Nat /\ frames \in Nat
    /\ items \in [Ids -> Nat \cup {Open}]
    /\ completedItems \subseteq Ids /\ openDeltas \subseteq Ids
    /\ event \in ItemEvents \cup {Nothing}
    /\ toServer \in Seq(Messages) /\ toClient \in Seq(WireEvents)
    /\ cut \in Seq(Ids)

\* What a sequence of wire events has none of, and at most one of.
NoneOf(q, types) == \A j \in 1..Len(q) : q[j].type \notin types
AtMostOne(q, types) ==
    \A i, j \in 1..Len(q) : q[i].type \in types /\ q[j].type \in types => i = j
LastOnly(q, type) == \A j \in 1..Len(q) : q[j].type = type => j = Len(q)

\* The items of c are announced on q from the n-th on: each is, and none before
\* those in front of it.
Announces(q, j, id) == q[j].type = "committed" /\ q[j].id = id
NoStranger(q, c) ==
    \A j \in 1..Len(q) : q[j].type = "committed" => \E k \in 1..Len(c) : Announces(q, j, c[k])
EachAnnounced(q, c, n) == \A k \in n..Len(c) : \E j \in 1..Len(q) : Announces(q, j, c[k])
InTurn(q, c, n) ==
    \A j \in 1..Len(q), k \in n..Len(c) : Announces(q, j, c[k]) =>
        \A h \in n..(k - 1) : \E i \in 1..(j - 1) : Announces(q, i, c[h])
Announced(q, c, n) == NoStranger(q, c) /\ EachAnnounced(q, c, n) /\ InTurn(q, c, n)

\* One answer to an update is on q; when closed, nothing that answers a commit is
\* behind it.
UpdatedOnce(q, closed) ==
    \E j \in 1..Len(q) :
        /\ q[j].type = "updated"
        /\ \A i \in 1..Len(q) : q[i].type = "updated" => i = j
        /\ closed => \A i \in 1..Len(q) : i > j => q[i].type \notin Replies

-----------------------------------------------------------------------------
\* Items: the driver numbers them in the order of the server, and the store has their
\* finals under these numbers.
CutAsSpoken == Len(cut) <= Len(SpokenItems) /\ \A k \in 1..Len(cut) : cut[k] = SpokenItems[k]
Numbered ==
    /\ index <= Len(cut) /\ \A k \in 1..index : items[cut[k]] = k - 1
    /\ \A id \in Ids : items[id] # Open => items[id] + 1 \in 1..index /\ cut[items[id] + 1] = id
StoredAsCut ==
    \A id \in Ids : completed[id] \in Nat =>
        completed[id] + 1 \in 1..Len(cut) /\ cut[completed[id] + 1] = id
ItemsAsCut == CutAsSpoken /\ Numbered /\ StoredAsCut

\* Announcements: the next item the driver hears of is the next one the server cut.
NextItem == IF EventIs("committed") THEN index + 2 ELSE index + 1
CommitsInOrder == ~refused => Announced(toClient, cut, NextItem)

\* Calls: those left belong to the event.
Registers(c, id) ==
    \A j \in 1..Len(c) :
        IF j = Len(c) /\ id \in completedItems
        THEN c[j].op = "index" /\ c[j].id = id /\ c[j].index = index
        ELSE c[j].op = "register"
CallsMatch ==
    /\ refused \/ event = Nothing => calls = <<>>
    /\ driver \in {"done", "failed"} => event = Nothing
    /\ openDeltas \cap completedItems = {}
    /\ EventIs("committed") =>
         /\ index + 1 <= Len(cut) /\ event.id = cut[index + 1] /\ items[event.id] = Open
         /\ Registers(calls, event.id)
    /\ EventIs("delta") =>
         /\ event.id \notin completedItems
         /\ calls # <<>> => Len(calls) = 1 /\ Head(calls).op = "delta" /\ Head(calls).id = event.id
    /\ EventIs("completed") =>
         /\ event.id \notin completedItems
         /\ calls # <<>> =>
              /\ Len(calls) = 1 /\ Head(calls).id = event.id
              /\ IF items[event.id] # Open
                 THEN Head(calls).op \in {"commit", "store commit"} /\ Head(calls).index = items[event.id]
                 ELSE Head(calls).op \in {"final", "store final"}

\* The driver's record and the store's: the same between two events, and one call apart
\* while an event is handled.
FinalOf(id) == IF items[id] # Open THEN items[id] ELSE Unindexed
Noting(type, id) == EventIs(type) /\ event.id = id /\ calls = <<>>
Agreement ==
    outcome = "none" /\ ~refused =>
        /\ \A id \in completedItems :
             completed[id] = IF Noting("committed", id) THEN index ELSE FinalOf(id)
        /\ \A id \in Ids : completed[id] # Open => id \in completedItems \/ Noting("completed", id)
        /\ \A id \in Ids : Noting("completed", id) => completed[id] = FinalOf(id)
        /\ \A id \in Ids : HasPartial(id) => id \in openDeltas \/ (EventIs("delta") /\ event.id = id)

\* Updates: while the driver waits for one to be answered, it or its answer is on the
\* wire; at all other times neither is.
UpdateWanted == Message("update", driver = "start" /\ serverVad)
Barred == driver = "barrier" /\ repeated # "committed"
UpdateOnItsWay ==
    \/ /\ toServer # <<>> /\ toServer[Len(toServer)] = UpdateWanted
       /\ LastOnly(toServer, "update") /\ NoneOf(toClient, {"updated"})
    \/ /\ toServer = <<>> /\ (driver = "barrier" => ~vadOn)
       /\ UpdatedOnce(toClient, Barred)
Quiet == NoneOf(toServer, {"update"}) /\ NoneOf(toClient, {"updated"})
Updates ==
    /\ driver \in {"start", "barrier"} /\ ~ready => UpdateOnItsWay
    /\ driver \in {"run", "finish", "done"} \/ (driver \in {"start", "barrier"} /\ ready) => Quiet
    /\ finishing /\ frames > 0 => ~vadOn /\ Quiet
    /\ driver = "barrier" /\ ready =>
         ~vadOn /\ toServer = <<>> /\ (repeated # "committed" => NoneOf(toClient, Replies))

\* Only a session that is configured so asks the server to cut items by itself.
VadsAllowed(q) == \A j \in 1..Len(q) : q[j].type = "update" /\ q[j].vad => serverVad

\* The commit of the finish: one, the last message, once the driver is finishing.
FinishCommit ==
    /\ finishing => driver \in {"finish", "done", "failed"}
    /\ driver = "start" => frames = 0
    /\ finishAck => finishing
    /\ vadOn => serverVad
    /\ VadsAllowed(toServer)
    /\ ~serverVad /\ ~answered => cut = <<>>
    /\ LastOnly(toServer, "commit")
    /\ ~NoneOf(toServer, {"commit"}) => finishing /\ ~answered /\ frames > 0
    /\ answered => toServer = <<>> /\ ~heard /\ finishing /\ frames > 0
    /\ ~answered => NoneOf(toClient, {"empty"})

\* Its answer: there is one, and the driver takes no other for it.
FinishAnswered ==
    finishing /\ frames > 0 /\ repeated # "committed" =>
        /\ AtMostOne(toClient, Replies)
        /\ ~answered => ~finishAck /\ ~EventIs("committed") /\ NoneOf(toClient, Replies)
        /\ finishAck => ~EventIs("committed")
        /\ finishAck \/ EventIs("committed") => NoneOf(toClient, Replies)

\* A driver that is done was settled, and stays so.
DoneSettled == driver = "done" => FinishSettled /\ calls = <<>> /\ ~refused

WireInv == Updates /\ FinishCommit /\ FinishAnswered /\ DoneSettled
RecordInv == ItemsAsCut /\ CommitsInOrder /\ CallsMatch /\ Agreement
RealtimeInv == StoreInv /\ BudgetInv /\ SinkInv /\ RealtimeTypes /\ RecordInv /\ WireInv

-----------------------------------------------------------------------------
\* Sequences on the wire.
\* A sequence that grows at its end.
LEMMA GrownQuiet ==
    ASSUME NEW S, NEW q \in Seq(S), NEW e \in S, NEW p, p = Append(q, e)
    PROVE  /\ \A T : NoneOf(q, T) /\ e.type \notin T => NoneOf(p, T)
           /\ \A T : AtMostOne(q, T) /\ e.type \notin T => AtMostOne(p, T)
           /\ \A T : NoneOf(q, T) => AtMostOne(p, T)
           /\ \A t : NoneOf(q, {t}) => LastOnly(p, t)
           /\ \A b \in BOOLEAN : UpdatedOnce(q, b) /\ e.type # "updated" /\ (b => e.type \notin Replies)
                                   => UpdatedOnce(p, b)
<1> DEFINE n == Len(q)
<1>1. n \in Nat /\ Len(p) = n + 1 /\ p[n + 1] = e /\ \A j \in 1..n : p[j] = q[j]
  BY AppendIs
<1> HIDE DEF n
<1>2. \A j \in 1..(n + 1) : (j \in 1..n /\ p[j] = q[j]) \/ (j = n + 1 /\ p[j] = e)
  BY ONLY <1>1
<1>3. \A j \in 1..n : j \in 1..(n + 1) /\ j # n + 1
  BY ONLY <1>1
<1>4. ASSUME NEW T, NoneOf(q, T), e.type \notin T PROVE NoneOf(p, T)
  BY <1>1, <1>2, <1>4 DEF NoneOf, n
<1>5. ASSUME NEW T, AtMostOne(q, T), e.type \notin T PROVE AtMostOne(p, T)
  BY <1>1, <1>2, <1>5 DEF AtMostOne, n
<1>6. ASSUME NEW T, NoneOf(q, T) PROVE AtMostOne(p, T)
  BY <1>1, <1>2, <1>6 DEF AtMostOne, NoneOf, n
<1>7. ASSUME NEW t, NoneOf(q, {t}) PROVE LastOnly(p, t)
  BY <1>1, <1>2, <1>7 DEF LastOnly, NoneOf, n
<1>8. ASSUME NEW b \in BOOLEAN, UpdatedOnce(q, b), e.type # "updated", b => e.type \notin Replies
      PROVE  UpdatedOnce(p, b)
  <2>1. PICK j \in 1..n : /\ q[j].type = "updated" /\ \A i \in 1..n : q[i].type = "updated" => i = j
                          /\ b => \A i \in 1..n : i > j => q[i].type \notin Replies
    BY <1>8 DEF UpdatedOnce, n
  <2>2. j \in 1..(n + 1) /\ p[j] = q[j]
    BY <1>1, <1>3
  <2>3. \A i \in 1..(n + 1) : p[i].type = "updated" => i = j
    BY <1>2, <1>8, <2>1
  <2>4. b => \A i \in 1..(n + 1) : i > j => p[i].type \notin Replies
    BY <1>2, <1>8, <2>1
  <2> QED
    BY <1>1, <2>1, <2>2, <2>3, <2>4 DEF UpdatedOnce
<1> QED
  BY <1>4, <1>5, <1>6, <1>7, <1>8

\* The first answer to an update is put behind the others.
LEMMA UpdateAnswered ==
    ASSUME NEW S, NEW q \in Seq(S), NEW e \in S, NEW p, p = Append(q, e),
           NoneOf(q, {"updated"}), e.type = "updated", NEW b \in BOOLEAN
    PROVE  UpdatedOnce(p, b)
<1> DEFINE n == Len(q)
<1>1. n \in Nat /\ Len(p) = n + 1 /\ p[n + 1] = e /\ \A j \in 1..n : p[j] = q[j]
  BY AppendIs
<1>2. \A j \in 1..n : q[j].type # "updated"
  BY DEF NoneOf
<1> HIDE DEF n
<1>3. \A j \in 1..(n + 1) : (j \in 1..n /\ p[j] = q[j]) \/ (j = n + 1 /\ p[j] = e)
  BY ONLY <1>1
<1>4. n + 1 \in 1..(n + 1) /\ p[n + 1].type = "updated"
  BY <1>1
<1>5. \A i \in 1..(n + 1) : p[i].type = "updated" => i = n + 1
  BY <1>2, <1>3
<1>6. \A i \in 1..(n + 1) : ~(i > n + 1)
  BY ONLY <1>1
<1> QED
  BY <1>1, <1>4, <1>5, <1>6 DEF UpdatedOnce

\* A sequence whose first element is taken.
LEMMA TakenQuiet ==
    ASSUME NEW S, NEW q \in Seq(S), q # <<>>, NEW p, p = Tail(q)
    PROVE  /\ \A T : NoneOf(q, T) => NoneOf(p, T)
           /\ \A T : AtMostOne(q, T) => AtMostOne(p, T) /\ (Head(q).type \in T => NoneOf(p, T))
           /\ \A t : LastOnly(q, t) => LastOnly(p, t) /\ (Head(q).type = t => p = <<>>)
           /\ \A b \in BOOLEAN : UpdatedOnce(q, b) /\ Head(q).type # "updated" => UpdatedOnce(p, b)
           /\ \A b \in BOOLEAN : UpdatedOnce(q, b) /\ Head(q).type = "updated" =>
                NoneOf(p, {"updated"}) /\ (b => NoneOf(p, Replies))
<1> DEFINE n == Len(q)
<1>1. /\ n \in Nat /\ n >= 1 /\ Head(q) = q[1] /\ p \in Seq(S) /\ Len(p) = n - 1
      /\ \A j \in 1..(n - 1) : p[j] = q[j + 1]
  BY TailIs
<1>2. Len(p) = 0 => p = <<>>
  BY <1>1, EmptySeq
<1> HIDE DEF n
<1>3. \A j \in 1..(n - 1) : j + 1 \in 1..n /\ j + 1 # 1
  BY ONLY <1>1
<1>4. 1 \in 1..n /\ \A j \in 1..n : j = 1 \/ (j - 1 \in 1..(n - 1) /\ (j - 1) + 1 = j)
  BY ONLY <1>1
<1>5. ASSUME NEW T, NoneOf(q, T) PROVE NoneOf(p, T)
  BY <1>1, <1>3, <1>5 DEF NoneOf, n
<1>6. ASSUME NEW T, AtMostOne(q, T) PROVE AtMostOne(p, T) /\ (Head(q).type \in T => NoneOf(p, T))
  <2>1. ASSUME NEW i \in 1..(n - 1), NEW j \in 1..(n - 1), p[i].type \in T, p[j].type \in T PROVE i = j
    <3>1. i + 1 = j + 1
      BY <1>1, <1>3, <1>6, <2>1 DEF AtMostOne, n
    <3> QED
      BY ONLY <1>1, <3>1, i \in 1..(n - 1), j \in 1..(n - 1)
  <2>2. ASSUME Head(q).type \in T, NEW j \in 1..(n - 1), p[j].type \in T PROVE FALSE
    <3>1. j + 1 = 1
      BY <1>1, <1>3, <1>4, <1>6, <2>2 DEF AtMostOne, n
    <3> QED
      BY <1>3, <3>1
  <2> QED
    BY <1>1, <2>1, <2>2 DEF AtMostOne, NoneOf
<1>7. ASSUME NEW t, LastOnly(q, t) PROVE LastOnly(p, t) /\ (Head(q).type = t => p = <<>>)
  <2>1. ASSUME NEW j \in 1..(n - 1), p[j].type = t PROVE j = n - 1
    <3>1. j + 1 = n
      BY <1>1, <1>3, <1>7, <2>1 DEF LastOnly, n
    <3> QED
      BY ONLY <1>1, <3>1, j \in 1..(n - 1)
  <2>2. ASSUME Head(q).type = t PROVE p = <<>>
    <3>1. n = 1
      BY <1>1, <1>4, <1>7, <2>2 DEF LastOnly, n
    <3> QED
      BY <1>1, <1>2, <3>1
  <2> QED
    BY <1>1, <2>1, <2>2 DEF LastOnly
<1>8. ASSUME NEW b \in BOOLEAN, UpdatedOnce(q, b)
      PROVE  /\ Head(q).type # "updated" => UpdatedOnce(p, b)
             /\ Head(q).type = "updated" => NoneOf(p, {"updated"}) /\ (b => NoneOf(p, Replies))
  <2>1. PICK j \in 1..n : /\ q[j].type = "updated" /\ \A i \in 1..n : q[i].type = "updated" => i = j
                          /\ b => \A i \in 1..n : i > j => q[i].type \notin Replies
    BY <1>8 DEF UpdatedOnce, n
  <2>2. ASSUME Head(q).type # "updated" PROVE UpdatedOnce(p, b)
    <3>1. j # 1
      BY <1>1, <2>1, <2>2
    <3> DEFINE h == j - 1
    <3>2. h \in 1..(n - 1) /\ h + 1 = j
      BY <1>4, <3>1
    <3>3. \A i \in 1..(n - 1) : i + 1 = j => i = h
      BY ONLY <1>1, j \in 1..n
    <3>4. \A i \in 1..(n - 1) : i > h => i + 1 > j
      BY ONLY <1>1, j \in 1..n
    <3> HIDE DEF h
    <3>5. p[h].type = "updated" /\ \A i \in 1..(n - 1) : p[i].type = "updated" => i = h
      BY <1>1, <1>3, <2>1, <3>2, <3>3
    <3>6. b => \A i \in 1..(n - 1) : i > h => p[i].type \notin Replies
      BY <1>1, <1>3, <2>1, <3>4
    <3> QED
      BY <1>1, <3>2, <3>5, <3>6 DEF UpdatedOnce
  <2>3. ASSUME Head(q).type = "updated" PROVE NoneOf(p, {"updated"}) /\ (b => NoneOf(p, Replies))
    <3>1. j = 1
      BY <1>1, <1>4, <2>1, <2>3
    <3>2. \A i \in 1..(n - 1) : i + 1 > j
      BY ONLY <1>1, <3>1
    <3>3. NoneOf(p, {"updated"})
      BY <1>1, <1>3, <2>1, <3>1 DEF NoneOf
    <3>4. b => NoneOf(p, Replies)
      BY <1>1, <1>3, <2>1, <3>2 DEF NoneOf
    <3> QED
      BY <3>3, <3>4
  <2> QED
    BY <2>2, <2>3
<1> QED
  BY <1>5, <1>6, <1>7, <1>8

-----------------------------------------------------------------------------
\* Announcements.
\* No two of the items are one.
Distinct(c) == \A j, k \in 1..Len(c) : c[j] = c[k] => j = k

\* p is q with e behind the others.
Grown(q, e, p) ==
    /\ Len(q) \in Nat /\ Len(p) = Len(q) + 1
    /\ \A j \in 1..(Len(q) + 1) : j \in 1..Len(q) \/ j = Len(q) + 1
    /\ \A j \in 1..Len(q) : j \in 1..(Len(q) + 1) /\ \A i \in 1..(j - 1) : i \in 1..Len(q)
    /\ \A j \in 1..Len(q) : p[j] = q[j] /\ \A id : Announces(p, j, id) <=> Announces(q, j, id)
    /\ p[Len(q) + 1] = e
    /\ \A id : Announces(p, Len(q) + 1, id) <=> e.type = "committed" /\ e.id = id

\* An event is put behind the others.
LEMMA AnnouncedGrown ==
    ASSUME NEW S, NEW q \in Seq(S), NEW e \in S, NEW p, p = Append(q, e)
    PROVE  Grown(q, e, p)
<1>1. /\ Len(q) \in Nat /\ Len(p) = Len(q) + 1 /\ p[Len(q) + 1] = e
      /\ \A j \in 1..Len(q) : p[j] = q[j]
  BY AppendIs
<1> DEFINE m == Len(q)
<1>2. m \in Nat
  BY <1>1
<1> HIDE DEF m
<1>3. /\ \A j \in 1..(m + 1) : j \in 1..m \/ j = m + 1
      /\ \A j \in 1..m : j \in 1..(m + 1) /\ \A i \in 1..(j - 1) : i \in 1..m
  BY ONLY <1>2
<1>4. \A j \in 1..Len(q) : \A id : Announces(p, j, id) <=> Announces(q, j, id)
  BY <1>1 DEF Announces
<1>5. \A id : Announces(p, Len(q) + 1, id) <=> e.type = "committed" /\ e.id = id
  BY <1>1 DEF Announces
<1> QED
  BY <1>1, <1>3, <1>4, <1>5 DEF m, Grown

\* An event that announces nothing.
LEMMA AnnouncedTalk ==
    ASSUME NEW S, NEW q \in Seq(S), NEW c \in Seq(Ids), NEW n \in Nat \ {0}, Announced(q, c, n),
           NEW e \in S, e.type # "committed", NEW p, p = Append(q, e)
    PROVE  Announced(p, c, n)
<1> DEFINE m == Len(q)
<1>1. /\ m \in Nat /\ Len(p) = m + 1
      /\ \A j \in 1..(m + 1) : j \in 1..m \/ j = m + 1
      /\ \A j \in 1..m : j \in 1..(m + 1) /\ \A i \in 1..(j - 1) : i \in 1..m
      /\ \A j \in 1..m : p[j] = q[j] /\ \A id : Announces(p, j, id) <=> Announces(q, j, id)
      /\ p[m + 1] = e
      /\ \A id : Announces(p, m + 1, id) <=> e.type = "committed" /\ e.id = id
  <2>1. Grown(q, e, p)
    BY AnnouncedGrown
  <2> QED
    BY ONLY <2>1 DEF Grown, m
<1>2. NoStranger(q, c) /\ EachAnnounced(q, c, n) /\ InTurn(q, c, n)
  BY DEF Announced
<1>3. NoStranger(p, c)
  BY <1>1, <1>2 DEF NoStranger
<1>4. EachAnnounced(p, c, n)
  BY <1>1, <1>2 DEF EachAnnounced
<1>5. InTurn(p, c, n)
  <2> SUFFICES ASSUME NEW j \in 1..(m + 1), NEW k \in n..Len(c), Announces(p, j, c[k]), NEW h \in n..(k - 1)
               PROVE  \E i \in 1..(j - 1) : Announces(p, i, c[h])
    BY <1>1 DEF InTurn
  <2>1. j \in 1..m /\ Announces(q, j, c[k])
    BY <1>1
  <2>2. \E i \in 1..(j - 1) : Announces(q, i, c[h])
    BY <1>2, <2>1 DEF InTurn
  <2> QED
    BY <1>1, <2>1, <2>2
<1> QED
  BY <1>3, <1>4, <1>5 DEF Announced

\* An item is announced again.
LEMMA AnnouncedAgain ==
    ASSUME NEW S, NEW q \in Seq(S), NEW c \in Seq(Ids), NEW n \in Nat \ {0}, Announced(q, c, n),
           NEW e \in S, NEW l \in 1..Len(c), e.type = "committed", e.id = c[l], NEW p, p = Append(q, e)
    PROVE  Announced(p, c, n)
<1> DEFINE m == Len(q)
<1>1. /\ m \in Nat /\ Len(p) = m + 1
      /\ \A j \in 1..(m + 1) : j \in 1..m \/ j = m + 1
      /\ \A j \in 1..m : j \in 1..(m + 1) /\ \A i \in 1..(j - 1) : i \in 1..m
      /\ \A j \in 1..m : p[j] = q[j] /\ \A id : Announces(p, j, id) <=> Announces(q, j, id)
      /\ p[m + 1] = e
      /\ \A id : Announces(p, m + 1, id) <=> e.type = "committed" /\ e.id = id
  <2>1. Grown(q, e, p)
    BY AnnouncedGrown
  <2> QED
    BY ONLY <2>1 DEF Grown, m
<1>2. NoStranger(q, c) /\ EachAnnounced(q, c, n) /\ InTurn(q, c, n)
  BY DEF Announced
<1>3. NoStranger(p, c)
  BY <1>1, <1>2 DEF NoStranger
<1>4. EachAnnounced(p, c, n)
  BY <1>1, <1>2 DEF EachAnnounced
<1>5. InTurn(p, c, n)
  <2> SUFFICES ASSUME NEW j \in 1..(m + 1), NEW k \in n..Len(c), Announces(p, j, c[k]), NEW h \in n..(k - 1)
               PROVE  \E i \in 1..(j - 1) : Announces(p, i, c[h])
    BY <1>1 DEF InTurn
  <2>1. CASE j \in 1..m
    <3>1. \E i \in 1..(j - 1) : Announces(q, i, c[h])
      BY <1>1, <1>2, <2>1 DEF InTurn
    <3> QED
      BY <1>1, <2>1, <3>1
  <2>2. CASE j = m + 1
    <3>1. Len(c) \in Nat
      BY LenProperties
    <3>2. h \in n..Len(c)
      BY ONLY <3>1, k \in n..Len(c), h \in n..(k - 1), n \in Nat \ {0}
    <3>3. j - 1 = m
      BY <1>1, <2>2
    <3>4. \E i \in 1..m : Announces(q, i, c[h])
      BY <1>2, <3>2 DEF EachAnnounced
    <3> QED
      BY <1>1, <3>3, <3>4
  <2> QED
    BY <1>1, <2>1, <2>2
<1> QED
  BY <1>3, <1>4, <1>5 DEF Announced

\* The server cuts one more and announces it.
LEMMA AnnouncedCut ==
    ASSUME NEW S, NEW q \in Seq(S), NEW c \in Seq(Ids), NEW n \in Nat \ {0}, Announced(q, c, n),
           NEW e \in S, e.type = "committed", e.id \in Ids, \A k \in 1..Len(c) : c[k] # e.id,
           NEW p, p = Append(q, e), NEW d, d = Append(c, e.id)
    PROVE  Announced(p, d, n)
<1> DEFINE m == Len(q)
           l == Len(c)
<1>1. /\ m \in Nat /\ Len(p) = m + 1
      /\ \A j \in 1..(m + 1) : j \in 1..m \/ j = m + 1
      /\ \A j \in 1..m : j \in 1..(m + 1) /\ \A i \in 1..(j - 1) : i \in 1..m
      /\ \A j \in 1..m : p[j] = q[j] /\ \A id : Announces(p, j, id) <=> Announces(q, j, id)
      /\ p[m + 1] = e
      /\ \A id : Announces(p, m + 1, id) <=> e.type = "committed" /\ e.id = id
  <2>1. Grown(q, e, p)
    BY AnnouncedGrown
  <2> QED
    BY ONLY <2>1 DEF Grown, m
<1>2. NoStranger(q, c) /\ EachAnnounced(q, c, n) /\ InTurn(q, c, n)
  BY DEF Announced
<1>3. l \in Nat /\ Len(d) = l + 1 /\ d[l + 1] = e.id /\ \A k \in 1..l : d[k] = c[k]
  BY AppendIs
<1>4. /\ \A k \in n..l : k \in 1..l
      /\ \A k \in 1..l : k \in 1..(l + 1)
      /\ l + 1 \in 1..(l + 1)
      /\ \A k \in n..(l + 1) : k \in n..l \/ k = l + 1
      /\ \A k \in n..(l + 1) : \A h \in n..(k - 1) : h \in n..l
      /\ m + 1 \in 1..(m + 1) /\ (m + 1) - 1 = m
  <2>1. l \in Nat /\ m \in Nat
    BY <1>1, <1>3
  <2> HIDE DEF l, m
  <2>2. \A k \in n..l : k \in 1..l
    BY ONLY <2>1, n \in Nat \ {0}
  <2>3. /\ \A k \in 1..l : k \in 1..(l + 1)
        /\ l + 1 \in 1..(l + 1)
        /\ m + 1 \in 1..(m + 1) /\ (m + 1) - 1 = m
    BY ONLY <2>1
  <2>4. \A k \in n..(l + 1) : k \in n..l \/ k = l + 1
    BY ONLY <2>1, n \in Nat \ {0}
  <2>5. \A k \in n..(l + 1) : \A h \in n..(k - 1) : h \in n..l
    BY ONLY <2>1, n \in Nat \ {0}
  <2> QED
    BY <2>2, <2>3, <2>4, <2>5
<1>5. NoStranger(p, d)
  <2> SUFFICES ASSUME NEW j \in 1..(m + 1), p[j].type = "committed"
               PROVE  \E k \in 1..(l + 1) : Announces(p, j, d[k])
    BY <1>1, <1>3 DEF NoStranger
  <2>1. CASE j \in 1..m
    <3>1. PICK k \in 1..l : Announces(q, j, c[k])
      BY <1>1, <1>2, <2>1 DEF NoStranger
    <3> QED
      BY <1>1, <1>3, <1>4, <2>1, <3>1
  <2>2. CASE j = m + 1
    BY <1>1, <1>3, <1>4, <2>2
  <2> QED
    BY <1>1, <2>1, <2>2
<1>6. EachAnnounced(p, d, n)
  <2> SUFFICES ASSUME NEW k \in n..(l + 1) PROVE \E j \in 1..(m + 1) : Announces(p, j, d[k])
    BY <1>1, <1>3 DEF EachAnnounced
  <2>1. CASE k \in n..l
    <3>1. PICK j \in 1..m : Announces(q, j, c[k])
      BY <1>2, <2>1 DEF EachAnnounced
    <3> QED
      BY <1>1, <1>3, <1>4, <2>1, <3>1
  <2>2. CASE k = l + 1
    BY <1>1, <1>3, <1>4, <2>2
  <2> QED
    BY <1>4, <2>1, <2>2
<1>7. InTurn(p, d, n)
  <2> SUFFICES ASSUME NEW j \in 1..(m + 1), NEW k \in n..(l + 1), Announces(p, j, d[k]), NEW h \in n..(k - 1)
               PROVE  \E i \in 1..(j - 1) : Announces(p, i, d[h])
    BY <1>1, <1>3 DEF InTurn
  <2>1. h \in n..l /\ d[h] = c[h]
    BY <1>3, <1>4
  <2>2. CASE j \in 1..m
    <3>1. Announces(q, j, d[k])
      BY <1>1, <2>2
    <3>2. k # l + 1
      <4> SUFFICES ASSUME k = l + 1 PROVE FALSE
        OBVIOUS
      <4>1. q[j].type = "committed" /\ q[j].id = e.id
        BY <1>3, <3>1 DEF Announces
      <4>2. PICK g \in 1..l : Announces(q, j, c[g])
        BY <1>2, <2>2, <4>1 DEF NoStranger
      <4> QED
        BY <4>1, <4>2 DEF Announces
    <3>3. k \in n..l /\ Announces(q, j, c[k])
      BY <1>3, <1>4, <3>1, <3>2
    <3>4. \E i \in 1..(j - 1) : Announces(q, i, c[h])
      BY <1>2, <2>2, <3>3 DEF InTurn
    <3> QED
      BY <1>1, <2>1, <2>2, <3>4
  <2>3. CASE j = m + 1
    <3>1. \E i \in 1..m : Announces(q, i, c[h])
      BY <1>2, <2>1 DEF EachAnnounced
    <3> QED
      BY <1>1, <1>4, <2>1, <2>3, <3>1
  <2> QED
    BY <1>1, <2>2, <2>3
<1> QED
  BY <1>5, <1>6, <1>7 DEF Announced

\* What is taken announces nothing new.
LEMMA AnnouncedSkip ==
    ASSUME NEW S, NEW q \in Seq(S), q # <<>>, NEW c \in Seq(Ids), NEW n \in Nat \ {0}, Announced(q, c, n),
           Head(q).type = "committed" => \A k \in n..Len(c) : Head(q).id # c[k],
           NEW p, p = Tail(q)
    PROVE  Announced(p, c, n)
<1> DEFINE m == Len(q)
           l == Len(c)
<1>1. /\ m \in Nat /\ m >= 1 /\ Head(q) = q[1] /\ Len(p) = m - 1
      /\ \A j \in 1..(m - 1) : p[j] = q[j + 1]
  BY TailIs
<1>2. l \in Nat
  BY LenProperties
<1>3. /\ \A j \in 1..(m - 1) : j + 1 \in 1..m /\ \A i \in 1..j : i = 1 \/ i - 1 \in 1..(j - 1)
      /\ \A j \in 1..(m - 1) : \A i \in 1..j : i \in 1..m
      /\ \A j \in 1..(m - 1) : (j + 1) - 1 = j
      /\ \A j \in 1..m : j = 1 \/ (j - 1 \in 1..(m - 1) /\ (j - 1) + 1 = j)
      /\ \A k \in n..l : \A h \in n..(k - 1) : h \in n..l
  <2>1. l \in Nat /\ m \in Nat
    BY <1>1, <1>2
  <2> HIDE DEF m, l
  <2>2. \A j \in 1..(m - 1) : j + 1 \in 1..m /\ \A i \in 1..j : i = 1 \/ i - 1 \in 1..(j - 1)
    BY ONLY <2>1
  <2>3. /\ \A j \in 1..(m - 1) : \A i \in 1..j : i \in 1..m
        /\ \A j \in 1..(m - 1) : (j + 1) - 1 = j
        /\ \A j \in 1..m : j = 1 \/ (j - 1 \in 1..(m - 1) /\ (j - 1) + 1 = j)
    BY ONLY <2>1
  <2>4. \A k \in n..l : \A h \in n..(k - 1) : h \in n..l
    BY ONLY <2>1, n \in Nat \ {0}
  <2> QED
    BY <2>2, <2>3, <2>4
<1>4. NoStranger(q, c) /\ EachAnnounced(q, c, n) /\ InTurn(q, c, n)
  BY DEF Announced
<1>5. \A j \in 1..(m - 1) : \A id : Announces(p, j, id) <=> Announces(q, j + 1, id)
  BY <1>1 DEF Announces
<1>6. \A k \in n..l : ~Announces(q, 1, c[k])
  BY <1>1 DEF Announces
<1>7. ASSUME NEW j \in 1..m, NEW k \in n..l, Announces(q, j, c[k])
      PROVE  j # 1 /\ j - 1 \in 1..(m - 1) /\ Announces(p, j - 1, c[k])
  <2>1. j # 1
    BY <1>6, <1>7
  <2>2. j - 1 \in 1..(m - 1) /\ (j - 1) + 1 = j
    BY <1>3, <2>1
  <2>3. Announces(p, j - 1, c[k]) <=> Announces(q, (j - 1) + 1, c[k])
    BY <1>5, <2>2
  <2> QED
    BY <1>7, <2>1, <2>2, <2>3
<1>8. NoStranger(p, c)
  <2> SUFFICES ASSUME NEW j \in 1..(m - 1), p[j].type = "committed"
               PROVE  \E k \in 1..l : Announces(p, j, c[k])
    BY <1>1 DEF NoStranger
  <2>1. j + 1 \in 1..m /\ q[j + 1].type = "committed"
    BY <1>1, <1>3
  <2> QED
    BY <1>4, <1>5, <2>1 DEF NoStranger
<1>9. EachAnnounced(p, c, n)
  <2> SUFFICES ASSUME NEW k \in n..l PROVE \E j \in 1..(m - 1) : Announces(p, j, c[k])
    BY <1>1 DEF EachAnnounced
  <2>1. PICK j \in 1..m : Announces(q, j, c[k])
    BY <1>4 DEF EachAnnounced
  <2> QED
    BY <1>7, <2>1
<1>10. InTurn(p, c, n)
  <2> SUFFICES ASSUME NEW j \in 1..(m - 1), NEW k \in n..l, Announces(p, j, c[k]), NEW h \in n..(k - 1)
               PROVE  \E i \in 1..(j - 1) : Announces(p, i, c[h])
    BY <1>1 DEF InTurn
  <2>1. j + 1 \in 1..m /\ (j + 1) - 1 = j /\ Announces(q, j + 1, c[k])
    BY <1>3, <1>5
  <2>2. \E i \in 1..((j + 1) - 1) : Announces(q, i, c[h])
    BY <1>4, <2>1 DEF InTurn
  <2>3. PICK i \in 1..j : Announces(q, i, c[h])
    BY <2>1, <2>2
  <2>4. h \in n..l /\ i \in 1..m
    BY <1>3
  <2>5. i # 1 /\ Announces(p, i - 1, c[h])
    BY <1>7, <2>3, <2>4
  <2>6. i - 1 \in 1..(j - 1)
    BY <1>3, <2>5
  <2> QED
    BY <2>5, <2>6
<1> QED
  BY <1>8, <1>9, <1>10 DEF Announced

\* What is taken announces something new: it is the next item.
LEMMA AnnouncedNext ==
    ASSUME NEW S, NEW q \in Seq(S), q # <<>>, NEW c \in Seq(Ids), NEW n \in Nat \ {0}, Announced(q, c, n),
           Distinct(c), Head(q).type = "committed", \A k \in 1..Len(c) : Head(q).id = c[k] => k >= n,
           NEW p, p = Tail(q)
    PROVE  n <= Len(c) /\ Head(q).id = c[n] /\ Announced(p, c, n + 1)
<1> DEFINE l == Len(c)
<1>1. Len(q) \in Nat /\ Len(q) >= 1 /\ Head(q) = q[1] /\ l \in Nat
  BY TailIs, LenProperties
<1>2. 1 \in 1..Len(q)
  BY ONLY <1>1
<1>3. NoStranger(q, c) /\ EachAnnounced(q, c, n) /\ InTurn(q, c, n)
  BY DEF Announced
<1>4. PICK k \in 1..l : Announces(q, 1, c[k])
  BY <1>1, <1>2, <1>3 DEF NoStranger
<1>5. Head(q).id = c[k] /\ k >= n
  BY <1>1, <1>4 DEF Announces
<1>6. k = n
  <2> SUFFICES ASSUME k # n PROVE FALSE
    OBVIOUS
  <2>1. n \in n..(k - 1) /\ k \in n..l
    BY ONLY <1>1, <1>5, k # n, k \in 1..l, n \in Nat \ {0} DEF l
  <2>2. \E i \in 1..(1 - 1) : Announces(q, i, c[n])
    BY <1>2, <1>3, <1>4, <2>1 DEF InTurn
  <2> QED
    BY <2>2
<1> HIDE DEF l
<1>7. /\ \A h \in (n + 1)..l : h \in n..l /\ h \in 1..l /\ h # n /\ \A g \in (n + 1)..(h - 1) : g \in n..(h - 1)
      /\ n + 1 \in Nat \ {0}
  BY ONLY <1>1, n \in Nat \ {0}
<1> DEFINE o == n + 1
<1>8. o \in Nat \ {0}
  BY <1>7
<1>9. /\ \A h \in o..l : h \in n..l /\ h \in 1..l /\ h # n
      /\ \A h \in o..l : \A g \in o..(h - 1) : g \in n..(h - 1)
  BY <1>7
<1> HIDE DEF o
<1>10. Announced(q, c, o)
  <2>1. EachAnnounced(q, c, o)
    BY <1>3, <1>9 DEF EachAnnounced, l
  <2>2. InTurn(q, c, o)
    BY <1>3, <1>9 DEF InTurn, l
  <2> QED
    BY <1>3, <2>1, <2>2 DEF Announced
<1>11. \A h \in o..Len(c) : Head(q).id # c[h]
  BY <1>5, <1>6, <1>9 DEF Distinct, l
<1>12. Announced(p, c, o)
  BY <1>8, <1>10, <1>11, AnnouncedSkip
<1> QED
  BY <1>1, <1>5, <1>6, <1>12 DEF o, l

-----------------------------------------------------------------------------
\* What the steps do, variable by variable.
recordVars == <<index, items, completedItems, openDeltas>>

\* The driver takes an event.
LEMMA ReceiveDoes ==
    ASSUME Receive
    PROVE  /\ Idle /\ Waits /\ outcome = "none" /\ toClient # <<>> /\ toClient' = Tail(toClient)
           /\ UNCHANGED <<storeVars, recordVars, driver, serverVad, finishing, frames, toServer, serverVars>>
           /\ LET e == Head(toClient)
              IN  \/ /\ e.type = "updated" /\ ready' = TRUE
                     /\ UNCHANGED <<finishAck, event, calls, refused>>
                  \/ /\ e.type = "committed" /\ e.id \in Committed /\ finishAck' = (finishAck \/ finishing)
                     /\ UNCHANGED <<ready, event, calls, refused>>
                  \/ /\ e.type \in {"committed", "failed"} /\ refused' = TRUE
                     /\ UNCHANGED <<ready, finishAck, event, calls>>
                  \/ /\ e.type = "committed" /\ e.id \notin Committed
                     /\ e.previous \in Committed \cup {Nothing}
                     /\ event' = e /\ UNCHANGED <<ready, finishAck, refused>>
                     /\ calls' = (IF e.previous = Nothing THEN <<>>
                                  ELSE <<Call("register", e.previous, 0, <<>>)>>)
                                 \o <<Call("register", e.id, 0, <<>>)>>
                                 \o (IF e.id \in completedItems
                                     THEN <<Call("index", e.id, index, <<>>)>> ELSE <<>>)
                  \/ /\ e.type \in {"delta", "completed"}
                     /\ UNCHANGED <<ready, finishAck, event, calls, refused>>
                  \/ /\ e.type = "delta" /\ e.id \notin completedItems
                     /\ event' = e /\ UNCHANGED <<ready, finishAck, refused>>
                     /\ calls' = <<Call("delta", e.id, 0, e.text)>>
                  \/ /\ e.type = "completed" /\ e.id \notin completedItems
                     /\ event' = e /\ UNCHANGED <<ready, finishAck, refused>>
                     /\ calls' = IF e.id \in Committed THEN <<Call("commit", e.id, items[e.id], e.text)>>
                                 ELSE <<Call("final", e.id, 0, e.text)>>
                  \/ /\ e.type = "empty" /\ finishing /\ finishAck' = TRUE
                     /\ UNCHANGED <<ready, event, calls, refused>>
<1> DEFINE e == Head(toClient)
<1>1. /\ Idle /\ Waits /\ outcome = "none" /\ toClient # <<>> /\ toClient' = Tail(toClient)
      /\ UNCHANGED <<storeVars, driver, serverVad, toServer, serverVars>>
      /\ OnUpdated(e) \/ OnCommitted(e) \/ OnDelta(e) \/ OnCompleted(e) \/ OnError(e)
  BY DEF Receive
<1> HIDE DEF e
<1>2. CASE OnUpdated(e)
  BY <1>1, <1>2 DEF OnUpdated, recordVars, sinkVars, e
<1>3. CASE OnCommitted(e)
  BY <1>1, <1>3 DEF OnCommitted, Acknowledged, Rejects, Handles, protocolVars, recordVars, sinkVars, e
<1>4. CASE OnDelta(e)
  BY <1>1, <1>4 DEF OnDelta, Ignores, Handles, protocolVars, recordVars, sinkVars, e
<1>5. CASE OnCompleted(e)
  BY <1>1, <1>5 DEF OnCompleted, Ignores, Handles, protocolVars, recordVars, sinkVars, e
<1>6. CASE OnError(e)
  BY <1>1, <1>6 DEF OnError, Rejects, protocolVars, recordVars, sinkVars, e
<1> QED
  BY <1>1, <1>2, <1>3, <1>4, <1>5, <1>6

\* It calls the sink.
LEMMA CallsDoNoMore ==
    ASSUME DriverCalls
    PROVE  /\ SinkStep
           /\ UNCHANGED <<recordVars, driver, serverVad, ready, finishing, frames, finishAck, event,
                          toServer, toClient, serverVars>>
BY DEF DriverCalls, driverVars, protocolVars, recordVars, wire

\* It finishes with an event.
LEMMA HandledDoes ==
    ASSUME EventHandled
    PROVE  /\ event # Nothing /\ calls = <<>> /\ ~refused /\ event' = Nothing
           /\ UNCHANGED <<storeVars, calls, refused, driver, serverVad, ready, finishing, frames,
                          toServer, toClient, serverVars>>
           /\ \/ /\ event.type = "committed" /\ items' = [items EXCEPT ![event.id] = index]
                 /\ index' = index + 1 /\ finishAck' = (finishAck \/ finishing)
                 /\ UNCHANGED <<completedItems, openDeltas>>
              \/ /\ event.type = "delta" /\ openDeltas' = openDeltas \cup {event.id}
                 /\ UNCHANGED <<items, index, finishAck, completedItems>>
              \/ /\ event.type = "completed" /\ completedItems' = completedItems \cup {event.id}
                 /\ openDeltas' = openDeltas \ {event.id}
                 /\ UNCHANGED <<items, index, finishAck>>
BY DEF EventHandled, Noted, Acknowledged, NotedDelta, NotedCompleted, sinkVars, wire

\* It moves on.
DriverMoves == Started \/ PushAudio \/ CloseVad \/ RequestCommit \/ FinishReturns
LEMMA MovesDo ==
    ASSUME DriverMoves
    PROVE  /\ Idle
           /\ UNCHANGED <<storeVars, recordVars, calls, refused, serverVad, event, toClient, serverVars>>
           /\ \/ /\ driver = "start" /\ ready /\ driver' = "run"
                 /\ UNCHANGED <<ready, finishing, frames, finishAck, toServer>>
              \/ /\ driver = "run" /\ driver' = "run" /\ frames' = frames + 1
                 /\ toServer' = Append(toServer, Message("append", FALSE))
                 /\ UNCHANGED <<ready, finishing, finishAck>>
              \/ /\ driver = "run" /\ serverVad /\ frames > 0 /\ driver' = "barrier" /\ ready' = FALSE
                 /\ toServer' = Append(toServer, Message("update", FALSE))
                 /\ UNCHANGED <<finishing, frames, finishAck>>
              \/ /\ \/ driver = "run" /\ ~(serverVad /\ frames > 0)
                    \/ driver = "barrier" /\ ready
                 /\ driver' = "finish" /\ finishing' = TRUE
                 /\ finishAck' = (finishAck \/ frames = 0)
                 /\ toServer' = IF frames = 0 THEN toServer
                                ELSE toServer \o <<Message("append", FALSE), Message("commit", FALSE)>>
                 /\ UNCHANGED <<ready, frames>>
              \/ /\ driver = "finish" /\ FinishSettled /\ driver' = "done"
                 /\ UNCHANGED <<ready, finishing, frames, finishAck, toServer>>
<1>1. CASE Started
  BY <1>1 DEF Started, Goes, protocolVars, recordVars, sinkVars, wire
<1>2. CASE PushAudio
  BY <1>2 DEF PushAudio, Goes, recordVars, sinkVars
<1>3. CASE CloseVad
  BY <1>3 DEF CloseVad, Goes, recordVars, sinkVars
<1>4. CASE RequestCommit
  BY <1>4 DEF RequestCommit, Goes, recordVars, sinkVars
<1>5. CASE FinishReturns
  BY <1>5 DEF FinishReturns, Goes, protocolVars, recordVars, sinkVars, wire
<1> QED
  BY <1>1, <1>2, <1>3, <1>4, <1>5 DEF DriverMoves

\* It gives up.
LEMMA GivingUpDoes ==
    ASSUME CheckFails \/ DriverFails
    PROVE  /\ refused \/ Idle
           /\ driver' = "failed" /\ event' = Nothing /\ calls' = <<>>
           /\ UNCHANGED <<storeVars, refused, recordVars, serverVad, ready, finishing, frames, finishAck,
                          toServer, toClient, serverVars>>
BY DEF CheckFails, DriverFails, DriverGivesUp, protocolVars, recordVars, wire

\* The session settles.
LEMMA SettlingDoes ==
    ASSUME WorkerSettles \/ SessionSettles
    PROVE  /\ Complete \/ FailSession
           /\ outcome' # "none" /\ completed' = completed
           /\ UNCHANGED <<recordVars, calls, refused, driver, serverVad, ready, finishing, frames, finishAck,
                          event, toServer, toClient, serverVars>>
<1>1. Complete \/ FailSession
  BY DEF WorkerSettles, SessionSettles
<1>2. Settle("ok") \/ Settle("error")
  BY <1>1 DEF Complete, FailSession
<1>3. outcome' # "none" /\ completed' = completed
  BY <1>2 DEF Settle
<1> QED
  BY <1>1, <1>3 DEF WorkerSettles, SessionSettles, sinkVars, driverVars, protocolVars, recordVars, wire

\* The server: what it says, and what it knows.
ServerSays(e) == e \in WireEvents /\ toClient' = Append(toClient, e)
LEMMA ServerDoes ==
    ASSUME RealtimeTypes, ServerNext
    PROVE  /\ UNCHANGED <<storeVars, recordVars, calls, refused, driver, serverVad, ready, finishing,
                          frames, finishAck, event>>
           /\ \/ /\ toServer # <<>> /\ Head(toServer).type = "update" /\ toServer' = Tail(toServer)
                 /\ vadOn' = Head(toServer).vad /\ UNCHANGED <<heard, cut, answered, repeated>>
                 /\ \E e : ServerSays(e) /\ e.type = "updated"
              \/ /\ toServer # <<>> /\ Head(toServer).type = "append" /\ toServer' = Tail(toServer)
                 /\ heard' = TRUE /\ UNCHANGED <<vadOn, cut, answered, repeated, toClient>>
              \/ /\ toServer # <<>> /\ Head(toServer).type = "commit" /\ toServer' = Tail(toServer)
                 /\ answered' = TRUE /\ heard' = FALSE /\ UNCHANGED <<vadOn, repeated>>
                 /\ \E e : /\ ServerSays(e)
                           /\ \/ /\ e.type = "committed" /\ Len(cut) + 1 \in DOMAIN SpokenItems
                                 /\ e.id = SpokenItems[Len(cut) + 1] /\ cut' = Append(cut, e.id)
                              \/ e.type \in {"empty", "failed"} /\ cut' = cut
              \/ /\ vadOn /\ heard' \in BOOLEAN /\ UNCHANGED <<toServer, vadOn, answered, repeated>>
                 /\ \E e : /\ ServerSays(e) /\ e.type = "committed" /\ Len(cut) + 1 \in DOMAIN SpokenItems
                           /\ e.id = SpokenItems[Len(cut) + 1] /\ cut' = Append(cut, e.id)
              \/ /\ UNCHANGED <<toServer, vadOn, heard, cut, answered>>
                 /\ repeated' = "committed" <=> repeated = "committed"
                 /\ \E e : ServerSays(e) /\ e.type \in {"delta", "completed"}
              \/ /\ UNCHANGED <<toServer, vadOn, heard, cut, answered>> /\ repeated' = "committed"
                 /\ \E e : ServerSays(e) /\ e.type = "committed" /\ \E k \in DOMAIN cut : e.id = cut[k]
<1>1. /\ SpokenItems \in Seq(Ids) /\ Says \in [Ids -> Seq(Chars)] /\ Deltas \subseteq Seq(Chars)
      /\ cut \in Seq(Ids) /\ Len(cut) \in Nat /\ DOMAIN cut = 1..Len(cut)
  BY ServerAssumption, InputsAssumption, LenProperties DEF RealtimeTypes
<1>2. DOMAIN SpokenItems = 1..Len(SpokenItems) /\ Len(SpokenItems) \in Nat
  BY <1>1, LenProperties
<1>3. /\ \A k \in 1..Len(cut) : cut[k] \in Ids
      /\ \A k \in DOMAIN SpokenItems : SpokenItems[k] \in Ids
  BY <1>1, <1>2, ElementOfSeq
<1>4. <<>> \in Seq(Chars)
  BY EmptySeq
<1>5. /\ \A type \in {"updated", "empty", "failed"} : Event(type, Nothing, Nothing, <<>>) \in WireEvents
      /\ \A type \in {"committed", "delta", "completed"}, id \in Ids, previous \in Ids \cup {Nothing},
            text \in Seq(Chars) : Event(type, id, previous, text) \in WireEvents
  BY <1>4 DEF Event, WireEvents, ItemEvents, OtherEvents
<1>51. ASSUME NEW id \in Ids, NEW previous \in Ids \cup {Nothing}, NEW text \in Seq(Chars)
       PROVE  /\ Event("committed", id, previous, text) \in WireEvents
              /\ Event("delta", id, previous, text) \in WireEvents
              /\ Event("completed", id, previous, text) \in WireEvents
  BY ONLY <1>5
<1>52. \A id \in Ids, previous \in Ids \cup {Nothing} :
         /\ Event("committed", id, previous, <<>>) \in WireEvents
         /\ Event("committed", id, previous, <<>>).type = "committed"
         /\ Event("committed", id, previous, <<>>).id = id
  BY <1>4 DEF Event, WireEvents, ItemEvents
<1>6. \A type, id, previous, text : Event(type, id, previous, text).type = type /\ Event(type, id, previous, text).id = id
  BY DEF Event
<1>7. LastCut \in Ids \cup {Nothing} /\ Stray \subseteq Ids
  <2>1. cut # <<>> => Len(cut) \in 1..Len(cut)
    BY <1>1, EmptySeq
  <2> QED
    BY <1>3, <2>1 DEF LastCut, Stray
<1>8. ASSUME NEW e, Sends(e) PROVE toClient' = Append(toClient, e)
  BY <1>8 DEF Sends
<1>9. ASSUME NEW previous \in Ids \cup {Nothing}, Cuts(previous)
      PROVE  \E e : /\ ServerSays(e) /\ e.type = "committed" /\ Len(cut) + 1 \in DOMAIN SpokenItems
                    /\ e.id = SpokenItems[Len(cut) + 1] /\ cut' = Append(cut, e.id)
  <2> DEFINE id == SpokenItems[Len(cut) + 1]
             e == Event("committed", id, previous, <<>>)
  <2>1. Len(cut) < Len(SpokenItems) /\ cut' = Append(cut, id) /\ Sends(e)
    BY <1>9 DEF Cuts
  <2>2. Len(cut) + 1 \in DOMAIN SpokenItems
    BY <1>1, <1>2, <2>1
  <2>3. id \in Ids
    BY <1>3, <2>2
  <2>4. e \in WireEvents /\ e.type = "committed" /\ e.id = id
    BY <1>52, <2>3
  <2> HIDE DEF e
  <2> QED
    BY <1>8, <2>1, <2>2, <2>4 DEF ServerSays
<1>10. UNCHANGED <<storeVars, recordVars, calls, refused, driver, serverVad, ready, finishing,
                   frames, finishAck, event>>
  BY DEF ServerNext, ServerReads, ServerCuts, ServerRepeats, ServerSendsDelta, ServerSendsFinal, ServerSteps,
         sinkVars, driverVars, protocolVars, recordVars
<1>11. ASSUME ServerReads, Head(toServer).type = "update"
       PROVE  /\ toServer # <<>> /\ toServer' = Tail(toServer)
              /\ vadOn' = Head(toServer).vad /\ UNCHANGED <<heard, cut, answered, repeated>>
              /\ \E e : ServerSays(e) /\ e.type = "updated"
  <2> DEFINE e == Event("updated", Nothing, Nothing, <<>>)
  <2>1. /\ toServer # <<>> /\ toServer' = Tail(toServer) /\ Sends(e)
        /\ vadOn' = Head(toServer).vad /\ UNCHANGED <<heard, cut, answered, repeated>>
    BY <1>11 DEF ServerReads
  <2>2. e \in WireEvents /\ e.type = "updated"
    BY <1>5, <1>6
  <2> HIDE DEF e
  <2> QED
    BY <1>8, <2>1, <2>2 DEF ServerSays
<1>12. ASSUME ServerReads, Head(toServer).type = "append"
       PROVE  /\ toServer # <<>> /\ toServer' = Tail(toServer)
              /\ heard' = TRUE /\ UNCHANGED <<vadOn, cut, answered, repeated, toClient>>
  BY <1>12 DEF ServerReads
<1>13. ASSUME ServerReads, Head(toServer).type = "commit"
       PROVE  /\ toServer # <<>> /\ toServer' = Tail(toServer)
              /\ answered' = TRUE /\ heard' = FALSE /\ UNCHANGED <<vadOn, repeated>>
              /\ \E e : /\ ServerSays(e)
                        /\ \/ /\ e.type = "committed" /\ Len(cut) + 1 \in DOMAIN SpokenItems
                              /\ e.id = SpokenItems[Len(cut) + 1] /\ cut' = Append(cut, e.id)
                           \/ e.type \in {"empty", "failed"} /\ cut' = cut
  <2> DEFINE empty == Event("empty", Nothing, Nothing, <<>>)
             failed == Event("failed", Nothing, Nothing, <<>>)
  <2>1. /\ toServer # <<>> /\ toServer' = Tail(toServer)
        /\ answered' = TRUE /\ heard' = FALSE /\ UNCHANGED <<vadOn, repeated>>
        /\ Cuts(LastCut) \/ (Sends(empty) /\ cut' = cut) \/ (Sends(failed) /\ cut' = cut)
    BY <1>13 DEF ServerReads
  <2>2. empty \in WireEvents /\ failed \in WireEvents /\ empty.type = "empty" /\ failed.type = "failed"
    BY <1>5, <1>6
  <2> HIDE DEF empty, failed
  <2> QED
    BY <1>7, <1>8, <1>9, <2>1, <2>2 DEF ServerSays
<1>14. ASSUME ServerCuts
       PROVE  /\ vadOn /\ heard' \in BOOLEAN /\ UNCHANGED <<toServer, vadOn, answered, repeated>>
              /\ \E e : /\ ServerSays(e) /\ e.type = "committed" /\ Len(cut) + 1 \in DOMAIN SpokenItems
                        /\ e.id = SpokenItems[Len(cut) + 1] /\ cut' = Append(cut, e.id)
  <2>1. /\ vadOn /\ heard' \in BOOLEAN /\ UNCHANGED <<toServer, vadOn, answered, repeated>>
        /\ \E previous \in {LastCut} \cup Stray : Cuts(previous)
    BY <1>14 DEF ServerCuts
  <2> QED
    BY <1>7, <1>9, <2>1
<1>15. ASSUME NEW id \in Ids, ServerSendsDelta(id) \/ ServerSendsFinal(id)
       PROVE  /\ UNCHANGED <<toServer, vadOn, heard, cut, answered, repeated>>
              /\ \E e : ServerSays(e) /\ e.type \in {"delta", "completed"}
  <2>1. UNCHANGED <<toServer, vadOn, heard, cut, answered, repeated>>
    BY <1>15 DEF ServerSendsDelta, ServerSendsFinal
  <2>2. \/ \E d \in Deltas : Sends(Event("delta", id, Nothing, d))
        \/ Sends(Event("completed", id, Nothing, Says[id]))
    BY <1>15 DEF ServerSendsDelta, ServerSendsFinal
  <2>3. Says[id] \in Seq(Chars)
    BY <1>1
  <2>4. Event("completed", id, Nothing, Says[id]) \in WireEvents
    BY <1>51, <2>3
  <2>5. \A d \in Deltas : Event("delta", id, Nothing, d) \in WireEvents
    BY <1>1, <1>51
  <2>6. \E e : e \in WireEvents /\ e.type \in {"delta", "completed"} /\ Sends(e)
    BY <1>6, <2>2, <2>4, <2>5
  <2> QED
    BY <1>8, <2>1, <2>6 DEF ServerSays
<1>16. ASSUME ServerRepeats
       PROVE  /\ UNCHANGED <<toServer, vadOn, heard, cut, answered>> /\ repeated = "nothing"
              /\ \/ /\ repeated' = "final" /\ \E e : ServerSays(e) /\ e.type \in {"delta", "completed"}
                 \/ /\ repeated' = "committed"
                    /\ \E e : ServerSays(e) /\ e.type = "committed" /\ \E k \in DOMAIN cut : e.id = cut[k]
  <2>1. UNCHANGED <<toServer, vadOn, heard, cut, answered>> /\ repeated = "nothing"
    BY <1>16 DEF ServerRepeats
  <2>2. CASE /\ repeated' = "committed"
             /\ \E k \in DOMAIN cut : Sends(Event("committed", cut[k], Nothing, <<>>))
    <3>1. PICK k \in DOMAIN cut : Sends(Event("committed", cut[k], Nothing, <<>>))
      BY <2>2
    <3> DEFINE e == Event("committed", cut[k], Nothing, <<>>)
    <3>2. cut[k] \in Ids
      BY <1>1, <1>3
    <3>3. e \in WireEvents /\ e.type = "committed" /\ e.id = cut[k] /\ Sends(e)
      BY <1>52, <3>1, <3>2
    <3> HIDE DEF e
    <3> QED
      BY <1>8, <2>1, <2>2, <3>3 DEF ServerSays
  <2>3. CASE /\ repeated' = "final"
             /\ \E id \in Ids : Sends(Event("completed", id, Nothing, Says[id]))
    <3>1. PICK id \in Ids : Sends(Event("completed", id, Nothing, Says[id]))
      BY <2>3
    <3> DEFINE e == Event("completed", id, Nothing, Says[id])
    <3>2. Says[id] \in Seq(Chars)
      BY <1>1
    <3>3. e \in WireEvents /\ e.type = "completed" /\ Sends(e)
      BY <1>51, <1>6, <3>1, <3>2
    <3> HIDE DEF e
    <3> QED
      BY <1>8, <2>1, <2>3, <3>3 DEF ServerSays
  <2> QED
    BY <1>16, <2>2, <2>3 DEF ServerRepeats
<1>17. ServerReads => Head(toServer).type \in {"update", "append", "commit"}
  BY DEF ServerReads
<1> QED
  BY <1>10, <1>11, <1>12, <1>13, <1>14, <1>15, <1>16, <1>17 DEF ServerNext

-----------------------------------------------------------------------------
\* The kinds of steps.
LEMMA StepKinds ==
    RealtimeNext <=> \/ Receive \/ DriverCalls \/ EventHandled \/ DriverMoves \/ (CheckFails \/ DriverFails)
                     \/ (WorkerSettles \/ SessionSettles) \/ ServerNext
BY DEF RealtimeNext, DriverNext, DriverMoves

\* What the driver calls for an announcement: it registers ids, and then gives a final
\* that has come before its index.
LEMMA CommittedCalls ==
    ASSUME NEW e \in ItemEvents, index \in Nat, NEW p,
           p = (IF e.previous = Nothing THEN <<>> ELSE <<Call("register", e.previous, 0, <<>>)>>)
                 \o <<Call("register", e.id, 0, <<>>)>>
                 \o (IF e.id \in completedItems THEN <<Call("index", e.id, index, <<>>)>> ELSE <<>>)
    PROVE  /\ p \in Seq(SinkCalls) /\ p # <<>>
           /\ \A j \in 1..Len(p) : p[j].op \in {"register", "index"}
           /\ Registers(p, e.id)
<1> DEFINE r1 == Call("register", e.previous, 0, <<>>)
           r2 == Call("register", e.id, 0, <<>>)
           ix == Call("index", e.id, index, <<>>)
<1>1. e.id \in Ids /\ e.previous \in Ids \cup {Nothing} /\ <<>> \in Seq(Chars)
  BY EmptySeq DEF ItemEvents
<1>2. /\ e.previous # Nothing => r1 \in SinkCalls
      /\ r1.op = "register"
      /\ r2 \in SinkCalls /\ r2.op = "register"
      /\ ix \in SinkCalls /\ ix.op = "index" /\ ix.id = e.id /\ ix.index = index
  BY <1>1 DEF Call, SinkCalls
<1> DEFINE first == IF e.previous = Nothing THEN <<>> ELSE <<r1>>
           both == first \o <<r2>>
           last == IF e.id \in completedItems THEN <<ix>> ELSE <<>>
<1>3. first \in Seq(SinkCalls) /\ Len(first) \in Nat /\ \A j \in 1..Len(first) : first[j].op = "register"
  <2>1. CASE e.previous = Nothing
    BY <2>1, EmptySeq
  <2>2. CASE e.previous # Nothing
    <3>1. first = <<r1>> /\ r1 \in SinkCalls /\ r1.op = "register"
      BY <1>2, <2>2
    <3> HIDE DEF first, r1
    <3> QED
      BY ONLY <3>1
  <2> QED
    BY <2>1, <2>2
<1>40. p = first \o <<r2>> \o last
  BY Zenon
<1>41. last = IF e.id \in completedItems THEN <<ix>> ELSE <<>>
  OBVIOUS
<1> HIDE DEF first, last, r1, r2, ix
<1>4. p = both \o last
  BY <1>40
<1>5. both = Append(first, r2)
  BY ONLY <1>2, <1>3, AppendIsConcat
<1> HIDE DEF both
<1>6. /\ both \in Seq(SinkCalls) /\ both # <<>> /\ Len(both) \in Nat /\ Len(both) = Len(first) + 1
      /\ both[Len(first) + 1] = r2 /\ \A j \in 1..Len(first) : both[j] = first[j]
  BY ONLY <1>2, <1>3, <1>5, AppendIs
<1>7. \A j \in 1..Len(both) : both[j].op = "register"
  <2> SUFFICES ASSUME NEW j \in 1..Len(both) PROVE both[j].op = "register"
    OBVIOUS
  <2>1. j \in 1..Len(first) \/ j = Len(first) + 1
    BY ONLY <1>3, <1>6, j \in 1..Len(both)
  <2> QED
    BY ONLY <1>2, <1>3, <1>6, <2>1
<1>8. CASE e.id \notin completedItems
  <2>a. p = both \o <<>>
    BY <1>4, <1>41, <1>8
  <2>1. p = both
    BY ONLY <1>6, <2>a, ConcatEmptySeq
  <2> QED
    BY ONLY <1>6, <1>7, <1>8, <2>1 DEF Registers
<1>9. CASE e.id \in completedItems
  <2>a. p = both \o <<ix>>
    BY <1>4, <1>41, <1>9
  <2>1. p = Append(both, ix)
    BY ONLY <1>2, <1>6, <2>a, AppendIsConcat
  <2>2. /\ p \in Seq(SinkCalls) /\ p # <<>> /\ Len(p) = Len(both) + 1
        /\ p[Len(both) + 1] = ix /\ \A j \in 1..Len(both) : p[j] = both[j]
    BY ONLY <1>2, <1>6, <2>1, AppendIs
  <2>3. \A j \in 1..Len(p) : IF j = Len(p) THEN p[j] = ix ELSE p[j].op = "register"
    <3> SUFFICES ASSUME NEW j \in 1..Len(p) PROVE IF j = Len(p) THEN p[j] = ix ELSE p[j].op = "register"
      OBVIOUS
    <3>1. j \in 1..Len(both) \/ j = Len(both) + 1
      BY ONLY <1>6, <2>2, j \in 1..Len(p)
    <3>2. j = Len(p) <=> j = Len(both) + 1
      BY ONLY <2>2
    <3> QED
      BY ONLY <1>7, <2>2, <3>1, <3>2
  <2> QED
    BY ONLY <1>2, <1>9, <2>2, <2>3 DEF Registers
<1> QED
  BY ONLY <1>8, <1>9

\* What is left of the calls when one returns.
LEMMA CallsLeft ==
    ASSUME SinkTypes, calls # <<>>, NEW p, p = Tail(calls)
    PROVE  /\ Len(calls) \in Nat /\ Len(calls) >= 1 /\ Head(calls) = calls[1] /\ Head(calls) \in SinkCalls
           /\ Len(p) = Len(calls) - 1 /\ (Len(calls) = 1 <=> p = <<>>)
           /\ \A j \in 1..(Len(calls) - 1) : p[j] = calls[j + 1]
<1>1. /\ Len(calls) \in Nat /\ Len(calls) >= 1 /\ Head(calls) = calls[1] /\ calls[1] \in SinkCalls
      /\ p \in Seq(SinkCalls) /\ Len(p) = Len(calls) - 1
      /\ \A j \in 1..(Len(calls) - 1) : p[j] = calls[j + 1]
  BY TailIs DEF SinkTypes
<1>2. Len(calls) = 1 <=> p = <<>>
  <2>1. p = <<>> <=> Len(p) = 0
    BY <1>1, EmptySeq
  <2> QED
    BY <1>1, <2>1
<1> QED
  BY <1>1, <1>2

\* An event there is.
LEMMA EventTyped ==
    ASSUME RealtimeTypes, event # Nothing
    PROVE  /\ event \in ItemEvents /\ event.id \in Ids /\ event.text \in Seq(Chars)
           /\ event.type \in {"committed", "delta", "completed"}
BY DEF RealtimeTypes, ItemEvents

\* The first event on the wire.
LEMMA HeadTyped ==
    ASSUME RealtimeTypes, toClient # <<>>
    PROVE  /\ Head(toClient) \in WireEvents /\ Tail(toClient) \in Seq(WireEvents)
           /\ Head(toClient).type \in {"committed", "delta", "completed"} =>
                /\ Head(toClient) \in ItemEvents /\ Head(toClient) # Nothing /\ Head(toClient).id \in Ids
                /\ Head(toClient).text \in Seq(Chars)
<1>1. Head(toClient) \in WireEvents /\ Tail(toClient) \in Seq(WireEvents)
  BY TailIs DEF RealtimeTypes
<1> QED
  BY <1>1, NothingAssumption DEF WireEvents, OtherEvents, ItemEvents

-----------------------------------------------------------------------------
\* Types.
LEMMA TypesInit == RealtimeInit => RealtimeTypes
<1> SUFFICES ASSUME RealtimeInit PROVE RealtimeTypes
  OBVIOUS
<1>1. <<>> \in Seq(WireEvents) /\ <<>> \in Seq(Ids)
  BY EmptySeq
<1>2. <<Message("update", serverVad)>> \in Seq(Messages)
  BY DEF RealtimeInit, Message, Messages
<1> QED
  BY <1>1, <1>2 DEF RealtimeInit, RealtimeTypes

\* Every step keeps them.
LEMMA TypesStep ==
    ASSUME RealtimeTypes, [RealtimeNext]_vars PROVE RealtimeTypes'
<1>1. CASE UNCHANGED vars
  BY <1>1 DEF vars, driverVars, protocolVars, serverVars, wire, RealtimeTypes
<1>2. CASE Receive
  <2> DEFINE e == Head(toClient)
  <2>1. /\ toClient # <<>> /\ toClient' = Tail(toClient)
        /\ UNCHANGED <<recordVars, driver, serverVad, finishing, frames, toServer, serverVars>>
        /\ ready' \in BOOLEAN /\ finishAck' \in BOOLEAN
        /\ event' = event \/ (event' = e /\ e.type \in {"committed", "delta", "completed"})
    BY <1>2, ReceiveDoes DEF RealtimeTypes
  <2>2. toClient' \in Seq(WireEvents) /\ event' \in ItemEvents \cup {Nothing}
    BY <2>1, HeadTyped DEF RealtimeTypes
  <2> QED
    BY <2>1, <2>2 DEF RealtimeTypes, recordVars, serverVars
<1>3. CASE DriverCalls
  BY <1>3, CallsDoNoMore DEF RealtimeTypes, recordVars, serverVars
<1>4. CASE EventHandled
  <2>1. /\ event # Nothing /\ event' = Nothing
        /\ UNCHANGED <<driver, serverVad, ready, finishing, frames, toServer, toClient, serverVars>>
        /\ items' = items \/ items' = [items EXCEPT ![event.id] = index]
        /\ index' = index \/ index' = index + 1
        /\ completedItems' \subseteq completedItems \cup {event.id}
        /\ openDeltas' \subseteq openDeltas \cup {event.id}
        /\ finishAck' \in BOOLEAN
    BY <1>4, HandledDoes DEF RealtimeTypes
  <2>2. event.id \in Ids
    BY <2>1, EventTyped
  <2>3. items' \in [Ids -> Nat \cup {Open}] /\ index' \in Nat
    BY <2>1, <2>2 DEF RealtimeTypes
  <2>4. completedItems' \subseteq Ids /\ openDeltas' \subseteq Ids
    BY <2>1, <2>2 DEF RealtimeTypes
  <2> QED
    BY <2>1, <2>3, <2>4 DEF RealtimeTypes, serverVars
<1>5. CASE DriverMoves
  <2>1. \A type \in {"update", "append", "commit"} : Message(type, FALSE) \in Messages
    BY DEF Message, Messages
  <2>2. \A type \in {"update", "append", "commit"} : Append(toServer, Message(type, FALSE)) \in Seq(Messages)
    BY <2>1, AppendProperties DEF RealtimeTypes
  <2> DEFINE last == <<Message("append", FALSE), Message("commit", FALSE)>>
  <2>3. toServer \o last \in Seq(Messages)
    <3>1. Message("append", FALSE) \in Messages /\ Message("commit", FALSE) \in Messages
      BY <2>1
    <3>2. last \in Seq(Messages)
      <4> DEFINE m1 == Message("append", FALSE)
                 m2 == Message("commit", FALSE)
      <4>1. m1 \in Messages /\ m2 \in Messages /\ last = <<m1, m2>>
        BY <3>1
      <4> HIDE DEF m1, m2, last
      <4> QED
        BY ONLY <4>1
    <3>3. toServer \in Seq(Messages)
      BY DEF RealtimeTypes
    <3> HIDE DEF last
    <3> QED
      BY ONLY <3>2, <3>3, ConcatProperties
  <2>4. /\ UNCHANGED <<recordVars, serverVad, event, toClient, serverVars>>
        /\ driver' \in {"run", "barrier", "finish", "done"}
        /\ ready' \in BOOLEAN /\ finishing' \in BOOLEAN /\ finishAck' \in BOOLEAN
        /\ frames' = frames \/ frames' = frames + 1
        /\ toServer' \in Seq(Messages)
    BY <1>5, <2>2, <2>3, MovesDo DEF RealtimeTypes
  <2>5. frames' \in Nat
    BY <2>4 DEF RealtimeTypes
  <2> QED
    BY <2>4, <2>5 DEF RealtimeTypes, recordVars, serverVars
<1>6. CASE CheckFails \/ DriverFails
  BY <1>6, GivingUpDoes DEF RealtimeTypes, recordVars, serverVars
<1>7. CASE WorkerSettles \/ SessionSettles
  BY <1>7, SettlingDoes DEF RealtimeTypes, recordVars, serverVars
<1>8. CASE ServerNext
  <2>1. /\ UNCHANGED <<recordVars, driver, serverVad, ready, finishing, frames, finishAck, event>>
        /\ toServer' = toServer \/ (toServer # <<>> /\ toServer' = Tail(toServer))
        /\ vadOn' = vadOn \/ (toServer # <<>> /\ vadOn' = Head(toServer).vad)
        /\ heard' = heard \/ heard' \in BOOLEAN
        /\ answered' = answered \/ answered' = TRUE
        /\ toClient' = toClient \/ \E e : ServerSays(e)
        /\ cut' = cut \/ (Len(cut) + 1 \in DOMAIN SpokenItems /\ cut' = Append(cut, SpokenItems[Len(cut) + 1]))
    BY <1>8, ServerDoes
  <2>2. toServer' \in Seq(Messages) /\ vadOn' \in BOOLEAN
    <3>1. toServer \in Seq(Messages) /\ vadOn \in BOOLEAN
      BY DEF RealtimeTypes
    <3>2. toServer # <<>> => Tail(toServer) \in Seq(Messages) /\ Head(toServer) \in Messages
      BY <3>1, TailIs
    <3>3. \A m \in Messages : m.vad \in BOOLEAN
      BY DEF Messages
    <3>4. toServer' \in Seq(Messages)
      BY ONLY <2>1, <3>1, <3>2
    <3>5. vadOn' \in BOOLEAN
      BY ONLY <2>1, <3>1, <3>2, <3>3
    <3> QED
      BY <3>4, <3>5
  <2>3. toClient' \in Seq(WireEvents)
    <3>1. toClient \in Seq(WireEvents)
      BY DEF RealtimeTypes
    <3>2. \A e \in WireEvents : Append(toClient, e) \in Seq(WireEvents)
      BY ONLY <3>1, AppendIs
    <3>3. toClient' = toClient \/ \E e \in WireEvents : toClient' = Append(toClient, e)
      BY <2>1 DEF ServerSays
    <3> QED
      BY ONLY <3>1, <3>2, <3>3
  <2>4. cut' \in Seq(Ids)
    <3>1. SpokenItems \in Seq(Ids)
      BY ServerAssumption
    <3>2. \A k \in DOMAIN SpokenItems : SpokenItems[k] \in Ids
      BY <3>1, LenProperties, ElementOfSeq
    <3>3. cut \in Seq(Ids)
      BY DEF RealtimeTypes
    <3>4. \A id \in Ids : Append(cut, id) \in Seq(Ids)
      BY ONLY <3>3, AppendIs
    <3> DEFINE id == SpokenItems[Len(cut) + 1]
    <3>5. cut' = cut \/ (id \in Ids /\ cut' = Append(cut, id))
      BY ONLY <2>1, <3>2
    <3> HIDE DEF id
    <3> QED
      BY ONLY <3>3, <3>4, <3>5
  <2> QED
    BY <2>1, <2>2, <2>3, <2>4 DEF RealtimeTypes, recordVars
<1> QED
  BY <1>1, <1>2, <1>3, <1>4, <1>5, <1>6, <1>7, <1>8, StepKinds

-----------------------------------------------------------------------------
\* The store and the sink.
\* The store's invariants hold whatever the driver does, and its calls keep to their
\* preflights.
LEMMA StoreSinkStep ==
    ASSUME StoreInv, BudgetInv, SinkInv, RealtimeTypes, [RealtimeNext]_vars
    PROVE  StoreInv' /\ BudgetInv' /\ SinkInv'
<1>1. CASE UNCHANGED vars
  <2>1. UNCHANGED storeVars /\ UNCHANGED <<calls, refused>>
    BY <1>1 DEF vars, sinkVars
  <2> QED
    BY <2>1, StoreStep, BudgetStep, SinkUntouched
<1>2. CASE Receive
  <2> DEFINE e == Head(toClient)
  <2>1. UNCHANGED storeVars
    BY <1>2, ReceiveDoes
  <2>2. StoreInv' /\ BudgetInv'
    BY <2>1, StoreStep, BudgetStep
  <2>3. refused' \in BOOLEAN
    BY <1>2, ReceiveDoes DEF SinkInv, SinkTypes
  <2>4. toClient # <<>> /\ Idle
    BY <1>2, ReceiveDoes
  <2>5. index \in Nat /\ items \in [Ids -> Nat \cup {Open}]
    BY DEF RealtimeTypes
  <2>6. CASE calls' = calls
    <3>1. calls' = <<>>
      BY <2>4, <2>6 DEF Idle
    <3>2. calls' \in Seq(SinkCalls) /\ \A j \in 1..Len(calls') : calls'[j].op \notin {"store commit", "store final"}
      BY <3>1, EmptySeq
    <3> QED
      BY <2>2, <2>3, <3>2, NoneInHand
  <2>7. CASE /\ e.type = "committed"
             /\ calls' = (IF e.previous = Nothing THEN <<>>
                                  ELSE <<Call("register", e.previous, 0, <<>>)>>)
                                 \o <<Call("register", e.id, 0, <<>>)>>
                                 \o (IF e.id \in completedItems
                                     THEN <<Call("index", e.id, index, <<>>)>> ELSE <<>>)
    <3> DEFINE p == calls'
    <3>1. e \in ItemEvents
      BY <2>4, <2>7, HeadTyped
    <3>2. p \in Seq(SinkCalls) /\ \A j \in 1..Len(p) : p[j].op \in {"register", "index"}
      BY <2>5, <2>7, <3>1, CommittedCalls
    <3>3. \A j \in 1..Len(p) : p[j].op \notin {"store commit", "store final"}
      BY <3>2
    <3> QED
      BY <2>2, <2>3, <3>2, <3>3, NoneInHand
  <2>8. CASE /\ e.type \in {"delta", "completed"}
             /\ \/ calls' = <<Call("delta", e.id, 0, e.text)>>
                \/ e.id \in Committed /\ calls' = <<Call("commit", e.id, items[e.id], e.text)>>
                \/ calls' = <<Call("final", e.id, 0, e.text)>>
    <3>1. e.id \in Ids /\ e.text \in Seq(Chars)
      <4>1. Head(toClient).type \in {"committed", "delta", "completed"}
        BY <2>8
      <4> QED
        BY <2>4, <4>1, HeadTyped
    <3> HIDE DEF e
    <3>2. \E c \in SinkCalls : calls' = <<c>> /\ c.op \in {"delta", "commit", "final"}
      <4>1. CASE calls' = <<Call("delta", e.id, 0, e.text)>>
        <5>1. Call("delta", e.id, 0, e.text) \in SinkCalls /\ Call("delta", e.id, 0, e.text).op = "delta"
          BY <3>1 DEF Call, SinkCalls
        <5> QED
          BY <4>1, <5>1
      <4>2. CASE e.id \in Committed /\ calls' = <<Call("commit", e.id, items[e.id], e.text)>>
        <5> DEFINE i == items[e.id]
        <5>1. i \in Nat
          BY <2>5, <3>1, <4>2 DEF Committed
        <5> HIDE DEF i
        <5>2. Call("commit", e.id, i, e.text) \in SinkCalls /\ Call("commit", e.id, i, e.text).op = "commit"
          BY <3>1, <5>1 DEF Call, SinkCalls
        <5> QED
          BY <4>2, <5>2 DEF i
      <4>3. CASE calls' = <<Call("final", e.id, 0, e.text)>>
        <5>1. Call("final", e.id, 0, e.text) \in SinkCalls /\ Call("final", e.id, 0, e.text).op = "final"
          BY <3>1 DEF Call, SinkCalls
        <5> QED
          BY <4>3, <5>1
      <4>4. \/ calls' = <<Call("delta", e.id, 0, e.text)>>
            \/ e.id \in Committed /\ calls' = <<Call("commit", e.id, items[e.id], e.text)>>
            \/ calls' = <<Call("final", e.id, 0, e.text)>>
        BY <2>8
      <4> QED
        BY ONLY <4>1, <4>2, <4>3, <4>4
    <3>3. calls' \in Seq(SinkCalls) /\ \A j \in 1..Len(calls') : calls'[j].op \notin {"store commit", "store final"}
      <4> DEFINE p == calls'
      <4>1. PICK c \in SinkCalls : p = <<c>> /\ c.op \in {"delta", "commit", "final"}
        BY <3>2
      <4> HIDE DEF p
      <4>2. p \in Seq(SinkCalls)
        BY ONLY <4>1
      <4>3. Len(p) = 1 /\ p[1] = c
        BY ONLY <4>1
      <4>4. \A j \in 1..Len(p) : p[j].op \notin {"store commit", "store final"}
        <5>1. \A j \in 1..Len(p) : j = 1
          BY ONLY <4>3
        <5>2. c.op # "store commit" /\ c.op # "store final"
          BY ONLY <4>1
        <5> QED
          BY ONLY <4>3, <5>1, <5>2
      <4> QED
        BY <4>2, <4>4 DEF p
    <3> QED
      BY <2>2, <2>3, <3>3, NoneInHand
  <2> QED
    BY <1>2, <2>6, <2>7, <2>8, ReceiveDoes
<1>3. CASE DriverCalls
  <2>1. SinkStep
    BY <1>3, CallsDoNoMore
  <2>2. SinkInv' /\ [AnyCall]_storeVars
    BY <2>1, SinkKeeps
  <2> QED
    BY <2>2, StoreStep, BudgetStep
<1>4. CASE EventHandled \/ DriverMoves \/ ServerNext
  <2>1. UNCHANGED storeVars /\ UNCHANGED <<calls, refused>>
    BY <1>4, HandledDoes, MovesDo, ServerDoes
  <2> QED
    BY <2>1, StoreStep, BudgetStep, SinkUntouched
<1>5. CASE CheckFails \/ DriverFails
  <2>1. UNCHANGED storeVars /\ calls' = <<>> /\ refused' \in BOOLEAN
    BY <1>5, GivingUpDoes DEF SinkInv, SinkTypes
  <2>2. calls' \in Seq(SinkCalls) /\ \A j \in 1..Len(calls') : calls'[j].op \notin {"store commit", "store final"}
    BY <2>1, EmptySeq
  <2> QED
    BY <2>1, <2>2, StoreStep, BudgetStep, NoneInHand
<1>6. CASE WorkerSettles \/ SessionSettles
  <2>1. AnyCall /\ outcome' # "none" /\ UNCHANGED <<calls, refused>>
    BY <1>6, SettlingDoes DEF AnyCall
  <2> QED
    BY <2>1, StoreStep, BudgetStep, SinkUntouched
<1> QED
  BY <1>1, <1>2, <1>3, <1>4, <1>5, <1>6, StepKinds

-----------------------------------------------------------------------------
\* Items.
\* The number under which the store takes the final the driver calls it for.
Number == IF EventIs("committed") THEN index ELSE FinalOf(event.id)
StoredAs(n) == completed' = completed \/ completed' = [completed EXCEPT ![event.id] = n]
PartialGone == partials' = partials \/ partials' = [partials EXCEPT ![event.id] = NoPartial]

\* What a call of the sink comes to, for the event it is made for.
LEMMA SinkDoes ==
    ASSUME StoreInv, SinkInv, RealtimeTypes, CallsMatch, DriverCalls
    PROVE  /\ event # Nothing /\ event.id \in Ids /\ calls # <<>> /\ ~refused /\ outcome' = outcome
           /\ \/ /\ outcome # "none" /\ UNCHANGED <<completed, partials>>
                 /\ calls' = <<>> \/ (calls' = Tail(calls) /\ refused' = refused)
              \/ refused' = TRUE /\ calls' = <<>> /\ StoredAs(Number)
              \/ /\ refused' = FALSE /\ outcome = "none"
                 /\ \/ /\ EventIs("committed") /\ Head(calls).op = "register"
                       /\ calls' = Tail(calls) /\ UNCHANGED <<completed, partials>>
                    \/ /\ EventIs("committed") /\ event.id \in completedItems /\ calls' = <<>>
                       /\ StoredAs(index) /\ completed'[event.id] = index /\ PartialGone
                    \/ /\ EventIs("delta") /\ calls' = <<>> /\ completed' = completed
                       /\ \A id \in Ids : id # event.id => partials'[id] = partials[id]
                    \/ /\ EventIs("completed") /\ calls' = <<>> /\ UNCHANGED <<completed, partials>>
                       /\ completed[event.id] # Open
                    \/ /\ EventIs("completed") /\ UNCHANGED <<completed, partials>>
                       /\ \E c \in SinkCalls :
                            /\ calls' = <<c>> /\ c.id = event.id
                            /\ IF items[event.id] # Open
                               THEN c.op = "store commit" /\ c.index = items[event.id]
                               ELSE c.op = "store final"
                    \/ /\ EventIs("completed") /\ calls' = <<>> /\ PartialGone
                       /\ StoredAs(FinalOf(event.id))
                       /\ completed[event.id] = Open => completed'[event.id] = FinalOf(event.id)
<1> DEFINE call == Head(calls)
<1>1. SinkStep /\ calls # <<>> /\ UNCHANGED <<items, index, completedItems, event>>
  BY CallsDoNoMore DEF SinkStep, recordVars
<1>2. event # Nothing /\ ~refused
  BY <1>1 DEF CallsMatch
<1>3. /\ event.id \in Ids /\ event.type \in {"committed", "delta", "completed"}
  BY <1>2, EventTyped
<1>4. outcome' = outcome
  BY <1>1, SinkKeeps
<1>5. /\ Len(calls) \in Nat /\ Len(calls) >= 1 /\ call = calls[1] /\ call \in SinkCalls
      /\ Len(calls) = 1 <=> Tail(calls) = <<>>
  BY <1>1, CallsLeft DEF SinkInv
<1>6. call.id \in Ids /\ call.index \in Nat
  BY <1>5 DEF SinkCalls
<1>7. index \in Nat /\ items \in [Ids -> Nat \cup {Open}]
  BY DEF RealtimeTypes
\* the call, by event
<1>8. EventIs("committed") =>
         \/ call.op = "register"
         \/ /\ call.op = "index" /\ call.id = event.id /\ call.index = index /\ event.id \in completedItems
            /\ Tail(calls) = <<>>
  <2> SUFFICES ASSUME EventIs("committed") 
               PROVE  \/ call.op = "register"
                      \/ /\ call.op = "index" /\ call.id = event.id /\ call.index = index
                         /\ event.id \in completedItems /\ Tail(calls) = <<>>
    OBVIOUS
  <2>1. 1 \in 1..Len(calls)
    BY <1>5
  <2>2. IF 1 = Len(calls) /\ event.id \in completedItems
        THEN calls[1].op = "index" /\ calls[1].id = event.id /\ calls[1].index = index
        ELSE calls[1].op = "register"
    BY <2>1 DEF CallsMatch, Registers
  <2> QED
    BY <1>5, <2>2
<1>9. EventIs("delta") => call.op = "delta" /\ call.id = event.id /\ Tail(calls) = <<>>
  BY <1>1, <1>5 DEF CallsMatch
<1>10. EventIs("completed") =>
         /\ call.id = event.id /\ Tail(calls) = <<>> /\ Len(calls) = 1
         /\ IF items[event.id] # Open THEN call.op \in {"commit", "store commit"} /\ call.index = items[event.id]
            ELSE call.op \in {"final", "store final"}
  BY <1>1, <1>5 DEF CallsMatch
<1>11. EventIs("committed") \/ EventIs("delta") \/ EventIs("completed")
  BY <1>2, <1>3 DEF EventIs
<1>12. CASE CallTooLate
  BY <1>2, <1>3, <1>4, <1>1, <1>12 DEF CallTooLate, storeVars, texts
<1>13. CASE StoreCall
  <2>1. /\ calls' = IF reply'.error = "none" THEN Tail(calls) ELSE <<>>
        /\ refused' = (reply'.error # "none")
    BY <1>13 DEF StoreCall, Returned
  <2>2. \/ call.op = "register" /\ RegisterId(call.id)
        \/ call.op = "partial" /\ SetPartial(call.id, call.text)
        \/ call.op = "delta" /\ AppendDelta(call.id, call.text)
        \/ call.op = "index" /\ IndexUnindexed(call.index, call.id)
        \/ call.op = "store commit" /\ Commit(call.index, call.id, call.text)
        \/ call.op = "store final" /\ CompleteUnindexed(call.id, call.text)
    BY <1>13 DEF StoreCall
  <2> DEFINE id == call.id
             i == call.index
             text == call.text
  <2>3. id \in Ids /\ i \in Nat
    BY <1>6
  <2> HIDE DEF id, i, text
  <2>4. /\ RegisterId(id) => UNCHANGED <<completed, partials, outcome>> /\ outcome = "none"
        /\ SetPartial(id, text) \/ AppendDelta(id, text) =>
             /\ UNCHANGED <<completed, outcome>> /\ outcome = "none"
             /\ \A j \in Ids : j # id => partials'[j] = partials[j]
        /\ IndexUnindexed(i, id) \/ Commit(i, id, text) =>
             /\ UNCHANGED outcome /\ outcome = "none"
             /\ completed' = completed \/ completed' = [completed EXCEPT ![id] = i]
             /\ partials' = partials \/ partials' = [partials EXCEPT ![id] = NoPartial]
             /\ reply'.error = "none" => completed'[id] = i
        /\ CompleteUnindexed(id, text) =>
             /\ UNCHANGED outcome /\ outcome = "none"
             /\ completed' = completed \/ completed' = [completed EXCEPT ![id] = Unindexed]
             /\ partials' = partials \/ partials' = [partials EXCEPT ![id] = NoPartial]
             /\ reply'.error = "none" /\ completed[id] = Open => completed'[id] = Unindexed
    BY <2>3, CallsDo
  <2>5. CASE EventIs("committed")
    <3>1. CASE call.op = "register"
      <4>1. UNCHANGED <<completed, partials, outcome>> /\ outcome = "none"
        BY <2>2, <2>4, <3>1 DEF id
      <4> QED
        BY <1>1, <1>2, <1>3, <1>4, <2>1, <2>5, <3>1, <4>1 DEF StoredAs
    <3>2. CASE /\ call.op = "index" /\ call.id = event.id /\ call.index = index
               /\ event.id \in completedItems /\ Tail(calls) = <<>>
      <4>1. /\ outcome = "none" /\ StoredAs(index) /\ PartialGone
            /\ reply'.error = "none" => completed'[event.id] = index
        BY <2>2, <2>4, <3>2 DEF id, i, text, StoredAs, PartialGone
      <4>2. Number = index
        BY <2>5 DEF Number
      <4> QED
        BY <1>1, <1>2, <1>3, <1>4, <2>1, <2>5, <3>2, <4>1, <4>2
    <3> QED
      BY <1>8, <2>5, <3>1, <3>2
  <2>6. CASE EventIs("delta")
    <3>1. /\ completed' = completed /\ outcome = "none"
          /\ \A j \in Ids : j # event.id => partials'[j] = partials[j]
      BY <1>9, <2>2, <2>4, <2>6 DEF id, text
    <3> QED
      BY <1>1, <1>2, <1>3, <1>4, <1>9, <2>1, <2>6, <3>1 DEF StoredAs
  <2>7. CASE EventIs("completed")
    <3>0. Number = FinalOf(event.id)
      BY <2>7 DEF Number, EventIs
    <3>1. CASE items[event.id] # Open
      <4>1. FinalOf(event.id) = items[event.id]
        BY <3>1 DEF FinalOf
      <4>2. call.op = "store commit" /\ call.id = event.id /\ call.index = items[event.id] /\ Tail(calls) = <<>>
        BY <1>10, <2>2, <2>7, <3>1
      <4>3. /\ outcome = "none" /\ StoredAs(FinalOf(event.id)) /\ PartialGone
            /\ reply'.error = "none" => completed'[event.id] = FinalOf(event.id)
        BY <2>2, <2>4, <4>1, <4>2 DEF id, i, text, StoredAs, PartialGone
      <4> QED
        BY <1>1, <1>2, <1>3, <1>4, <2>1, <2>7, <3>0, <4>2, <4>3
    <3>2. CASE items[event.id] = Open
      <4>1. FinalOf(event.id) = Unindexed
        BY <3>2 DEF FinalOf
      <4>2. call.op = "store final" /\ call.id = event.id /\ Tail(calls) = <<>>
        BY <1>10, <2>2, <2>7, <3>2
      <4>3. /\ outcome = "none" /\ StoredAs(FinalOf(event.id)) /\ PartialGone
            /\ reply'.error = "none" /\ completed[event.id] = Open => completed'[event.id] = FinalOf(event.id)
        BY <2>2, <2>4, <4>1, <4>2 DEF id, text, StoredAs, PartialGone
      <4> QED
        BY <1>1, <1>2, <1>3, <1>4, <2>1, <2>7, <3>0, <4>2, <4>3
    <3> QED
      BY <3>1, <3>2
  <2> QED
    BY <1>11, <2>5, <2>6, <2>7
<1>14. CASE Preflight
  <2> DEFINE verdict == IF call.op = "commit" THEN PreflightCommit(call.index, call.id)
                                              ELSE PreflightUnindexed(call.id)
             op == IF call.op = "commit" THEN "store commit" ELSE "store final"
             stored(text) == [call EXCEPT !.op = op, !.text = text]
  <2>1. /\ call.op \in {"commit", "final"} /\ outcome = "none" /\ UNCHANGED storeVars
        /\ \/ verdict = "duplicate" /\ calls' = Tail(calls) /\ UNCHANGED refused
           \/ calls' = <<>> /\ refused' = TRUE
           \/ (\E text \in Seq(Chars) : calls' = <<stored(text)>> \o Tail(calls)) /\ UNCHANGED refused
    <3>1. Processed(call.text) \subseteq Seq(Chars) /\ <<>> \in Seq(Chars)
      BY <1>5, InputsAssumption, EmptySeq DEF Processed, SinkCalls
    <3>2. /\ call.op \in {"commit", "final"} /\ outcome = "none" /\ UNCHANGED storeVars
          /\ \/ verdict = "duplicate" /\ calls' = Tail(calls) /\ UNCHANGED refused
             \/ calls' = <<>> /\ refused' = TRUE
             \/ calls' = <<stored(<<>>)>> \o Tail(calls) /\ UNCHANGED refused
             \/ (\E text \in Processed(call.text) : calls' = <<stored(text)>> \o Tail(calls)) /\ UNCHANGED refused
      BY <1>14 DEF Preflight
    <3> HIDE DEF stored, verdict
    <3> QED
      BY ONLY <3>1, <3>2
  <2>2. UNCHANGED <<completed, partials>>
    BY <2>1 DEF storeVars, texts
  <2>3. EventIs("completed")
    BY <1>8, <1>9, <1>11, <2>1
  <2>4. /\ call.id = event.id /\ Tail(calls) = <<>>
        /\ IF items[event.id] # Open THEN call.op = "commit" /\ call.index = items[event.id]
           ELSE call.op = "final"
    BY <1>10, <2>1, <2>3
  <2>5. CASE verdict = "duplicate" /\ calls' = Tail(calls) /\ UNCHANGED refused
    <3>1. completed[call.id] # Open
      <4>1. completed[call.id] \in Nat \cup {Open, Unindexed}
        BY <1>6 DEF StoreInv, StoreTypes
      <4>2. CASE call.op = "commit"
        <5>1. PreflightCommit(call.index, call.id) = "duplicate"
          BY <2>5, <4>2
        <5> QED
          BY <1>6, <4>1, <5>1, MarksAssumption DEF PreflightCommit
      <4>3. CASE call.op # "commit"
        <5>1. PreflightUnindexed(call.id) = "duplicate"
          BY <2>5, <4>3
        <5> QED
          BY <5>1 DEF PreflightUnindexed
      <4> QED
        BY <4>2, <4>3
    <3>2. calls' = <<>> /\ refused' = FALSE /\ completed[event.id] # Open
      BY <1>2, <2>4, <2>5, <3>1
    <3>3. calls # <<>> /\ outcome = "none"
      BY <1>1, <2>1
    <3> QED
      BY ONLY <1>2, <1>3, <1>4, <2>2, <2>3, <3>2, <3>3
  <2>6. CASE calls' = <<>> /\ refused' = TRUE
    BY <1>1, <1>2, <1>3, <1>4, <2>2, <2>6 DEF StoredAs
  <2>7. CASE (\E text \in Seq(Chars) : calls' = <<stored(text)>> \o Tail(calls)) /\ UNCHANGED refused
    <3>1. PICK text \in Seq(Chars) : calls' = <<stored(text)>> \o Tail(calls)
      BY <2>7
    <3> DEFINE c == stored(text)
    <3>2. c \in SinkCalls /\ c.op = op /\ c.id = event.id /\ c.index = call.index
      BY <1>5, <2>1, <2>4 DEF SinkCalls
    <3>3. /\ IF items[event.id] # Open THEN c.op = "store commit" /\ c.index = items[event.id]
             ELSE c.op = "store final"
      BY <2>4, <3>2
    <3>4. calls' = <<c>>
      <4>1. calls' = <<c>> \o <<>>
        BY <2>4, <3>1
      <4> HIDE DEF c
      <4> QED
        BY ONLY <4>1
    <3> HIDE DEF c
    <3>5. \E d \in SinkCalls :
             /\ calls' = <<d>> /\ d.id = event.id
             /\ IF items[event.id] # Open THEN d.op = "store commit" /\ d.index = items[event.id]
                ELSE d.op = "store final"
      BY <3>2, <3>3, <3>4
    <3>6. calls # <<>> /\ outcome = "none" /\ refused' = FALSE
      <4>1. refused' = refused
        BY <2>7, Zenon
      <4>2. outcome = "none"
        BY <2>1, Zenon
      <4>3. refused = FALSE
        BY <1>2 DEF SinkInv, SinkTypes
      <4> QED
        BY ONLY <1>1, <4>1, <4>2, <4>3
    <3> QED
      BY ONLY <1>2, <1>3, <1>4, <2>2, <2>3, <3>5, <3>6
  <2> QED
    BY <2>1, <2>5, <2>6, <2>7
<1> QED
  BY <1>1, <1>12, <1>13, <1>14 DEF SinkStep

-----------------------------------------------------------------------------
\* Nothing is cut, taken or stored at first.
LEMMA RecordInit == RealtimeInit => RecordInv
<1> SUFFICES ASSUME RealtimeInit PROVE RecordInv
  OBVIOUS
<1>1. /\ cut = <<>> /\ Len(cut) = 0 /\ toClient = <<>> /\ Len(toClient) = 0 /\ calls = <<>> /\ event = Nothing
      /\ index = 0 /\ items = [id \in Ids |-> Open] /\ completedItems = {} /\ openDeltas = {}
      /\ completed = [id \in Ids |-> Open] /\ partials = [id \in Ids |-> NoPartial] /\ Len(SpokenItems) \in Nat
      /\ driver = "start"
  BY ServerAssumption, LenProperties DEF RealtimeInit, SinkInit, Init
<1>2. ItemsAsCut
  BY <1>1, MarksAssumption DEF ItemsAsCut, CutAsSpoken, Numbered, StoredAsCut
<1>3. ~EventIs("committed") /\ ~EventIs("delta") /\ ~EventIs("completed")
  BY <1>1 DEF EventIs
<1>4. CommitsInOrder
  <2>1. NoStranger(toClient, cut) /\ EachAnnounced(toClient, cut, 1) /\ InTurn(toClient, cut, 1)
    BY <1>1 DEF NoStranger, EachAnnounced, InTurn
  <2> QED
    BY <1>1, <1>3, <2>1 DEF CommitsInOrder, NextItem, Announced
<1>5. CallsMatch
  BY <1>1, <1>3 DEF CallsMatch
<1>6. Agreement
  <2>1. \A id \in Ids : ~HasPartial(id) /\ completed[id] = Open
    BY <1>1 DEF HasPartial, NoPartial
  <2> QED
    BY <1>1, <1>3, <2>1 DEF Agreement, Noting
<1> QED
  BY <1>2, <1>4, <1>5, <1>6 DEF RecordInv

\* The items that are cut differ.
LEMMA CutDistinct ==
    ASSUME RealtimeTypes, CutAsSpoken
    PROVE  /\ Len(cut) \in Nat /\ Distinct(cut) /\ \A k \in 1..Len(cut) : cut[k] \in Ids
           /\ Len(cut) + 1 \in DOMAIN SpokenItems =>
                /\ SpokenItems[Len(cut) + 1] \in Ids
                /\ \A k \in 1..Len(cut) : cut[k] # SpokenItems[Len(cut) + 1]
<1>1. cut \in Seq(Ids) /\ SpokenItems \in Seq(Ids)
  BY ServerAssumption DEF RealtimeTypes
<1>2. /\ Len(cut) \in Nat /\ DOMAIN cut = 1..Len(cut)
      /\ Len(SpokenItems) \in Nat /\ DOMAIN SpokenItems = 1..Len(SpokenItems)
      /\ \A k \in 1..Len(SpokenItems) : SpokenItems[k] \in Ids
      /\ \A k \in 1..Len(cut) : cut[k] \in Ids
  BY <1>1, LenProperties, ElementOfSeq
<1>3. \A j, k \in DOMAIN SpokenItems : SpokenItems[j] = SpokenItems[k] => j = k
  BY ServerAssumption DEF IsInjective
<1>4. \A k \in 1..Len(cut) : k \in DOMAIN SpokenItems /\ cut[k] = SpokenItems[k] /\ k # Len(cut) + 1
  BY <1>2 DEF CutAsSpoken
<1>5. Distinct(cut)
  BY <1>3, <1>4 DEF Distinct
<1>6. Len(cut) + 1 \in DOMAIN SpokenItems => \A k \in 1..Len(cut) : cut[k] # SpokenItems[Len(cut) + 1]
  BY <1>3, <1>4
<1> QED
  BY <1>2, <1>5, <1>6

\* What the server does to its items.
LEMMA ServerCutsNext ==
    ASSUME RealtimeTypes, CutAsSpoken, ServerNext
    PROVE  \/ cut' = cut
           \/ /\ Len(cut) + 1 \in DOMAIN SpokenItems /\ cut' = Append(cut, SpokenItems[Len(cut) + 1])
              /\ Len(cut') = Len(cut) + 1 /\ cut'[Len(cut) + 1] = SpokenItems[Len(cut) + 1]
              /\ \A k \in 1..Len(cut) : cut'[k] = cut[k]
<1>1. cut' = cut \/ (Len(cut) + 1 \in DOMAIN SpokenItems /\ cut' = Append(cut, SpokenItems[Len(cut) + 1]))
  BY ServerDoes
<1>2. Len(cut) + 1 \in DOMAIN SpokenItems => SpokenItems[Len(cut) + 1] \in Ids
  BY CutDistinct
<1>3. cut \in Seq(Ids)
  BY DEF RealtimeTypes
<1> DEFINE id == SpokenItems[Len(cut) + 1]
<1>4. id \in Ids => /\ Len(Append(cut, id)) = Len(cut) + 1 /\ Append(cut, id)[Len(cut) + 1] = id
                    /\ \A k \in 1..Len(cut) : Append(cut, id)[k] = cut[k]
  BY <1>3, AppendIs
<1> HIDE DEF id
<1>5. (cut' = Append(cut, id) /\ id \in Ids) =>
         Len(cut') = Len(cut) + 1 /\ cut'[Len(cut) + 1] = id /\ \A k \in 1..Len(cut) : cut'[k] = cut[k]
  BY ONLY <1>4
<1> QED
  BY <1>1, <1>2, <1>5 DEF id

\* A step keeps the order of the items.
LEMMA ItemsStep ==
    ASSUME StoreInv, SinkInv, RealtimeTypes, ItemsAsCut, CallsMatch, [RealtimeNext]_vars
    PROVE  ItemsAsCut'
<1>1. CutAsSpoken /\ Numbered /\ StoredAsCut
  BY DEF ItemsAsCut
<1>2. /\ Len(cut) \in Nat /\ Distinct(cut) /\ \A k \in 1..Len(cut) : cut[k] \in Ids
      /\ index \in Nat /\ items \in [Ids -> Nat \cup {Open}]
      /\ completed \in [Ids -> Nat \cup {Open, Unindexed}]
  BY <1>1, CutDistinct DEF RealtimeTypes, StoreInv, StoreTypes
<1>3. ASSUME UNCHANGED <<index, items, cut, completed>> PROVE ItemsAsCut'
  BY <1>1, <1>3 DEF ItemsAsCut, CutAsSpoken, Numbered, StoredAsCut
<1>4. CASE UNCHANGED vars
  BY <1>3, <1>4 DEF vars, storeVars, texts, driverVars, protocolVars, serverVars
<1>5. CASE Receive \/ DriverMoves \/ CheckFails \/ DriverFails
  <2>1. UNCHANGED <<storeVars, recordVars, serverVars>>
    BY <1>5, ReceiveDoes, MovesDo, GivingUpDoes
  <2> QED
    BY <1>3, <2>1 DEF storeVars, texts, recordVars, serverVars
<1>6. CASE WorkerSettles \/ SessionSettles
  <2>1. UNCHANGED <<completed, recordVars, serverVars>>
    BY <1>6, SettlingDoes
  <2> QED
    BY <1>3, <2>1 DEF recordVars, serverVars
<1>7. CASE DriverCalls
  <2>1. UNCHANGED <<index, items, cut>>
    BY <1>7, CallsDoNoMore DEF recordVars, serverVars
  <2>2. /\ event # Nothing /\ event.id \in Ids
        /\ completed' = completed \/ completed' = [completed EXCEPT ![event.id] = Number]
    <3>1. /\ event # Nothing /\ event.id \in Ids
          /\ \/ completed' = completed
             \/ StoredAs(Number)
             \/ EventIs("committed") /\ StoredAs(index)
             \/ EventIs("completed") /\ StoredAs(FinalOf(event.id))
      BY <1>7, SinkDoes
    <3>2. /\ EventIs("committed") => Number = index
          /\ EventIs("completed") => Number = FinalOf(event.id)
      BY DEF Number, EventIs
    <3> QED
      BY <3>1, <3>2 DEF StoredAs
  <2>3. ASSUME Number \in Nat PROVE Number + 1 \in 1..Len(cut) /\ cut[Number + 1] = event.id
    <3>1. CASE EventIs("committed")
      <4>1. Number = index /\ index + 1 <= Len(cut) /\ event.id = cut[index + 1]
        BY <3>1 DEF CallsMatch, Number
      <4> QED
        BY <1>2, <4>1
    <3>2. CASE ~EventIs("committed")
      <4>1. items[event.id] # Open /\ Number = items[event.id]
        BY <2>3, <3>2, MarksAssumption DEF Number, FinalOf
      <4>2. items[event.id] + 1 \in 1..index /\ cut[items[event.id] + 1] = event.id /\ index <= Len(cut)
        BY <1>1, <2>2, <4>1 DEF Numbered
      <4> QED
        BY <1>2, <2>3, <4>1, <4>2
    <3> QED
      BY <3>1, <3>2
  <2>4. \A id \in Ids : completed'[id] \in Nat => completed'[id] + 1 \in 1..Len(cut) /\ cut[completed'[id] + 1] = id
    <3> SUFFICES ASSUME NEW id \in Ids, completed'[id] \in Nat
                 PROVE  completed'[id] + 1 \in 1..Len(cut) /\ cut[completed'[id] + 1] = id
      OBVIOUS
    <3>1. completed'[id] = completed[id] \/ (id = event.id /\ completed'[id] = Number)
      BY <1>2, <2>2
    <3> QED
      BY <1>1, <2>3, <3>1 DEF StoredAsCut
  <2> QED
    BY <1>1, <2>1, <2>4 DEF ItemsAsCut, CutAsSpoken, Numbered, StoredAsCut
<1>8. CASE EventHandled
  <2>1. /\ event # Nothing /\ UNCHANGED <<completed, cut>>
        /\ \/ event.type = "committed" /\ items' = [items EXCEPT ![event.id] = index] /\ index' = index + 1
           \/ UNCHANGED <<items, index>>
    BY <1>8, HandledDoes DEF storeVars, texts, serverVars
  <2>2. CASE event.type = "committed" /\ items' = [items EXCEPT ![event.id] = index] /\ index' = index + 1
    <3>1. EventIs("committed") /\ event.id \in Ids
      BY <2>1, <2>2, EventTyped DEF EventIs
    <3>2. index + 1 <= Len(cut) /\ event.id = cut[index + 1] /\ items[event.id] = Open
      BY <3>1 DEF CallsMatch
    <3>3. ASSUME NEW k \in 1..(index + 1) PROVE items'[cut[k]] = k - 1
      <4>1. CASE k = index + 1
        BY <1>2, <2>2, <3>1, <3>2, <4>1
      <4>2. CASE k # index + 1
        <5>1. k \in 1..index /\ k \in 1..Len(cut) /\ k - 1 \in Nat
          BY <1>2, <3>2, <4>2
        <5>2. items[cut[k]] = k - 1
          BY <1>1, <5>1 DEF Numbered
        <5>3. cut[k] # event.id /\ cut[k] \in Ids
          BY <1>2, <3>2, <5>1, <5>2, MarksAssumption
        <5> QED
          BY <1>2, <2>2, <5>2, <5>3
      <4> QED
        BY <4>1, <4>2
    <3>4. ASSUME NEW id \in Ids, items'[id] # Open PROVE items'[id] + 1 \in 1..(index + 1) /\ cut[items'[id] + 1] = id
      <4>1. CASE id = event.id
        BY <1>2, <2>2, <3>2, <4>1
      <4>2. CASE id # event.id
        <5>1. items'[id] = items[id]
          BY <1>2, <2>2, <4>2
        <5>2. items[id] + 1 \in 1..index /\ cut[items[id] + 1] = id
          BY <1>1, <3>4, <5>1 DEF Numbered
        <5>3. \A i \in 1..index : i \in 1..(index + 1)
          BY <1>2
        <5> QED
          BY <5>1, <5>2, <5>3
      <4> QED
        BY <4>1, <4>2
    <3>5. Numbered'
      BY <2>1, <2>2, <3>2, <3>3, <3>4 DEF Numbered
    <3> QED
      BY <1>1, <2>1, <3>5 DEF ItemsAsCut, CutAsSpoken, StoredAsCut
  <2> QED
    BY <1>3, <2>1, <2>2
<1>9. CASE ServerNext
  <2>1. UNCHANGED <<index, items, completed>>
    BY <1>9, ServerDoes DEF recordVars, storeVars, texts
  <2>2. CASE cut' = cut
    BY <1>3, <2>1, <2>2
  <2>3. CASE /\ Len(cut) + 1 \in DOMAIN SpokenItems
             /\ Len(cut') = Len(cut) + 1 /\ cut'[Len(cut) + 1] = SpokenItems[Len(cut) + 1]
             /\ \A k \in 1..Len(cut) : cut'[k] = cut[k]
    <3>1. Len(cut) + 1 <= Len(SpokenItems)
      BY <1>2, <2>3, ServerAssumption, LenProperties
    <3>2. /\ \A k \in 1..(Len(cut) + 1) : k \in 1..Len(cut) \/ k = Len(cut) + 1
          /\ \A k \in 1..Len(cut) : k \in 1..(Len(cut) + 1)
          /\ index <= Len(cut) /\ index <= Len(cut) + 1
          /\ \A k \in 1..index : k \in 1..Len(cut)
      BY <1>1, <1>2 DEF Numbered
    <3>3. CutAsSpoken'
      BY <1>1, <2>3, <3>1, <3>2 DEF CutAsSpoken
    <3>4. Numbered'
      BY <1>1, <2>1, <2>3, <3>2 DEF Numbered
    <3>5. StoredAsCut'
      BY <1>1, <2>1, <2>3, <3>2 DEF StoredAsCut
    <3> QED
      BY <3>3, <3>4, <3>5 DEF ItemsAsCut
  <2> QED
    BY <1>1, <1>9, <2>2, <2>3, ServerCutsNext
<1> QED
  BY <1>4, <1>5, <1>6, <1>7, <1>8, <1>9, StepKinds

\* An announcement the driver takes is of the item that is next.
LEMMA NextAnnounced ==
    ASSUME RealtimeTypes, ItemsAsCut, CommitsInOrder, Receive, Head(toClient).type = "committed",
           Head(toClient).id \notin Committed, NEW p, p = Tail(toClient)
    PROVE  /\ index + 1 <= Len(cut) /\ Head(toClient).id = cut[index + 1]
           /\ items[Head(toClient).id] = Open /\ Announced(p, cut, index + 2)
<1> DEFINE e == Head(toClient)
           n == index + 1
<1>1. /\ ~refused /\ event = Nothing /\ toClient # <<>>
  BY ReceiveDoes DEF Idle
<1>2. e.id \in Ids
  BY <1>1, HeadTyped
<1>3. /\ Distinct(cut) /\ cut \in Seq(Ids) /\ toClient \in Seq(WireEvents) /\ n \in Nat \ {0} /\ index \in Nat
      /\ \A k \in 1..Len(cut) : cut[k] \in Ids
  BY CutDistinct DEF ItemsAsCut, RealtimeTypes
<1>4. Announced(toClient, cut, n)
  BY <1>1 DEF CommitsInOrder, NextItem, EventIs
<1>5. items[e.id] = Open
  BY <1>2 DEF Committed
<1>6. ASSUME NEW k \in 1..Len(cut), e.id = cut[k] PROVE k >= n
  <2>1. ~(k \in 1..index)
    <3>1. k \in 1..index => items[cut[k]] = k - 1 /\ k - 1 \in Nat
      BY <1>3 DEF ItemsAsCut, Numbered
    <3> QED
      BY <1>5, <1>6, <3>1, MarksAssumption
  <2> QED
    BY <1>3, <2>1
<1> HIDE DEF n
<1>7. n <= Len(cut) /\ e.id = cut[n] /\ Announced(p, cut, n + 1)
  BY <1>1, <1>3, <1>4, <1>6, AnnouncedNext
<1>8. n + 1 = index + 2
  BY <1>3 DEF n
<1> QED
  BY <1>5, <1>7, <1>8 DEF n

\* A step keeps the order of the announcements.
LEMMA CommitsStep ==
    ASSUME RealtimeTypes, ItemsAsCut, CommitsInOrder, CallsMatch, [RealtimeNext]_vars
    PROVE  CommitsInOrder'
<1>1. /\ Len(cut) \in Nat /\ Distinct(cut) /\ \A k \in 1..Len(cut) : cut[k] \in Ids
      /\ Len(cut) + 1 \in DOMAIN SpokenItems =>
           /\ SpokenItems[Len(cut) + 1] \in Ids
           /\ \A k \in 1..Len(cut) : cut[k] # SpokenItems[Len(cut) + 1]
  BY CutDistinct DEF ItemsAsCut
<1>2. /\ cut \in Seq(Ids) /\ toClient \in Seq(WireEvents) /\ index \in Nat /\ NextItem \in Nat \ {0}
  BY DEF RealtimeTypes, NextItem
<1>3. ASSUME UNCHANGED <<toClient, cut, NextItem>>, ~refused' => ~refused PROVE CommitsInOrder'
  BY <1>3 DEF CommitsInOrder
<1>4. CASE UNCHANGED vars
  BY <1>3, <1>4 DEF vars, driverVars, protocolVars, serverVars, sinkVars, wire, NextItem, EventIs
<1>5. CASE Receive
  <2> DEFINE e == Head(toClient)
  <2>1. /\ Idle /\ toClient # <<>> /\ toClient' = Tail(toClient) /\ UNCHANGED <<index, items, cut>>
        /\ \/ e.type = "committed" /\ e.id \in Committed /\ UNCHANGED event
           \/ refused' = TRUE
           \/ e.type = "committed" /\ e.id \notin Committed /\ event' = e
           \/ e.type \notin {"committed"} /\ (event' = event \/ event' = e)
    BY <1>5, ReceiveDoes DEF recordVars, serverVars
  <2>2. ~refused /\ event = Nothing /\ NextItem = index + 1
    BY <2>1 DEF Idle, NextItem, EventIs
  <2>3. Announced(toClient, cut, NextItem)
    BY <2>2 DEF CommitsInOrder
  <2>4. CASE refused' = TRUE
    BY <2>4 DEF CommitsInOrder
  <2>5. CASE e.type = "committed" /\ e.id \notin Committed /\ event' = e
    <3> DEFINE p == toClient'
    <3>1. Announced(p, cut, index + 2)
      BY <1>5, <2>1, <2>5, NextAnnounced
    <3>2. event' # Nothing /\ event'.type = "committed"
      BY <2>1, <2>5, HeadTyped
    <3>3. NextItem' = index + 2
      BY <2>1, <3>2 DEF NextItem, EventIs
    <3> QED
      BY <2>1, <3>1, <3>3 DEF CommitsInOrder
  <2>6. ASSUME \/ e.type = "committed" /\ e.id \in Committed /\ UNCHANGED event
               \/ e.type \notin {"committed"} /\ (event' = event \/ event' = e)
        PROVE  CommitsInOrder'
    <3> DEFINE p == toClient'
    <3>1. e.type = "committed" => \A k \in NextItem..Len(cut) : e.id # cut[k]
      <4> SUFFICES ASSUME e.type = "committed", NEW k \in NextItem..Len(cut), e.id = cut[k] PROVE FALSE
        OBVIOUS
      <4>1. e.id \in Committed
        BY <2>6
      <4>2. /\ e.id \in Ids /\ items[e.id] + 1 \in 1..index /\ cut[items[e.id] + 1] = e.id /\ index <= Len(cut)
        BY <4>1 DEF Committed, ItemsAsCut, Numbered
      <4> DEFINE j == items[e.id] + 1
      <4>3. j \in 1..index /\ cut[j] = cut[k] /\ index <= Len(cut)
        BY <4>2
      <4> HIDE DEF j, e
      <4>4. j \in 1..Len(cut) /\ k \in 1..Len(cut) /\ j # k
        BY <1>1, <1>2, <2>2, <4>3
      <4> QED
        BY <1>1, <4>3, <4>4 DEF Distinct
    <3>2. Announced(p, cut, NextItem)
      <4>1. p = Tail(toClient) /\ toClient # <<>>
        BY <2>1
      <4> HIDE DEF p
      <4> QED
        BY <1>2, <2>3, <3>1, <4>1, AnnouncedSkip
    <3>3. NextItem' = NextItem
      <4>1. ~EventIs("committed")'
        BY <2>2, <2>6 DEF EventIs
      <4> QED
        BY <2>1, <2>2, <4>1 DEF NextItem
    <3> QED
      BY <2>1, <3>2, <3>3 DEF CommitsInOrder
  <2> QED
    BY <2>1, <2>4, <2>5, <2>6
<1>6. CASE DriverCalls
  <2>1. ~refused /\ UNCHANGED <<toClient, cut, index, event>>
    BY <1>6, CallsDoNoMore DEF SinkStep, CallsMatch, recordVars, serverVars
  <2> QED
    BY <1>3, <2>1 DEF NextItem, EventIs
<1>7. CASE EventHandled
  <2>1. /\ event # Nothing /\ event' = Nothing /\ UNCHANGED <<toClient, cut, refused>>
        /\ \/ event.type = "committed" /\ index' = index + 1
           \/ event.type \in {"delta", "completed"} /\ index' = index
    BY <1>7, HandledDoes DEF serverVars
  <2>2. NextItem' = NextItem
    BY <1>2, <2>1 DEF NextItem, EventIs
  <2> QED
    BY <1>3, <2>1, <2>2
<1>8. CASE DriverMoves \/ WorkerSettles \/ SessionSettles
  <2>1. UNCHANGED <<toClient, cut, index, event, refused>>
    BY <1>8, MovesDo, SettlingDoes DEF recordVars, serverVars
  <2> QED
    BY <1>3, <2>1 DEF NextItem, EventIs
<1>9. CASE CheckFails \/ DriverFails
  <2>1. /\ refused \/ event = Nothing
        /\ event' = Nothing /\ UNCHANGED <<toClient, cut, index, refused>>
    BY <1>9, GivingUpDoes DEF Idle, recordVars, serverVars
  <2>2. CASE refused
    BY <2>1, <2>2 DEF CommitsInOrder
  <2>3. CASE event = Nothing
    BY <1>3, <2>1, <2>3 DEF NextItem, EventIs
  <2> QED
    BY <2>1, <2>2, <2>3
<1>10. CASE ServerNext
  <2>1. /\ UNCHANGED <<index, event, refused>>
        /\ \/ UNCHANGED <<toClient, cut>>
           \/ cut' = cut /\ \E e : ServerSays(e) /\ e.type # "committed"
           \/ cut' = cut /\ \E e : ServerSays(e) /\ e.type = "committed" /\ \E k \in DOMAIN cut : e.id = cut[k]
           \/ \E e : /\ ServerSays(e) /\ e.type = "committed" /\ Len(cut) + 1 \in DOMAIN SpokenItems
                     /\ e.id = SpokenItems[Len(cut) + 1] /\ cut' = Append(cut, e.id)
    BY <1>10, ServerDoes DEF recordVars
  <2>2. NextItem' = NextItem
    BY <2>1 DEF NextItem, EventIs
  <2>3. CASE refused
    BY <2>1, <2>3 DEF CommitsInOrder
  <2>4. ASSUME ~refused, NEW e \in WireEvents, toClient' = Append(toClient, e),
               \/ cut' = cut /\ e.type # "committed"
               \/ cut' = cut /\ e.type = "committed" /\ \E k \in DOMAIN cut : e.id = cut[k]
               \/ /\ e.type = "committed" /\ e.id \in Ids /\ \A k \in 1..Len(cut) : cut[k] # e.id
                  /\ cut' = Append(cut, e.id)
        PROVE  CommitsInOrder'
    <3> DEFINE p == toClient'
               d == cut'
    <3>1. Announced(toClient, cut, NextItem)
      BY <2>4 DEF CommitsInOrder
    <3>2. p = Append(toClient, e) /\ DOMAIN cut = 1..Len(cut)
      BY <1>2, <2>4, LenProperties
    <3>3. CommitsInOrder' = (~refused' => Announced(p, d, NextItem'))
      BY DEF CommitsInOrder
    <3>4. \/ d = cut /\ e.type # "committed"
          \/ d = cut /\ e.type = "committed" /\ \E k \in DOMAIN cut : e.id = cut[k]
          \/ /\ e.type = "committed" /\ e.id \in Ids /\ \A k \in 1..Len(cut) : cut[k] # e.id
             /\ d = Append(cut, e.id)
      BY <2>4
    <3> HIDE DEF p, d
    <3>5. CASE d = cut /\ e.type # "committed"
      <4>1. Announced(p, cut, NextItem)
        BY <1>2, <3>1, <3>2, <3>5, AnnouncedTalk
      <4> QED
        BY <2>2, <3>3, <3>5, <4>1
    <3>6. CASE d = cut /\ e.type = "committed" /\ \E k \in DOMAIN cut : e.id = cut[k]
      <4>1. PICK k \in 1..Len(cut) : e.id = cut[k]
        BY <3>2, <3>6
      <4>2. Announced(p, cut, NextItem)
        BY <1>2, <3>1, <3>2, <3>6, <4>1, AnnouncedAgain
      <4> QED
        BY <2>2, <3>3, <3>6, <4>2
    <3>7. CASE /\ e.type = "committed" /\ e.id \in Ids /\ \A k \in 1..Len(cut) : cut[k] # e.id
               /\ d = Append(cut, e.id)
      <4>1. Announced(p, d, NextItem)
        BY <1>2, <3>1, <3>2, <3>7, AnnouncedCut
      <4> QED
        BY <2>2, <3>3, <4>1
    <3> QED
      BY <3>4, <3>5, <3>6, <3>7
  <2> QED
    BY <1>1, <1>3, <2>1, <2>2, <2>3, <2>4 DEF ServerSays
<1> QED
  BY <1>4, <1>5, <1>6, <1>7, <1>8, <1>9, <1>10, StepKinds

-----------------------------------------------------------------------------
\* Calls and records.
\* Without an event there is nothing to match.
LEMMA NoCalls ==
    ASSUME calls' = <<>>, event' = Nothing, (openDeltas \cap completedItems = {})' PROVE CallsMatch'
BY DEF CallsMatch, EventIs

\* A step keeps the calls to those of the event.
LEMMA CallsStep ==
    ASSUME StoreInv, SinkInv, RealtimeTypes, ItemsAsCut, CommitsInOrder, CallsMatch, [RealtimeNext]_vars
    PROVE  CallsMatch'
<1>1. openDeltas \cap completedItems = {}
  BY DEF CallsMatch
<1>2. CASE UNCHANGED vars
  BY <1>2 DEF vars, driverVars, protocolVars, serverVars, sinkVars, CallsMatch, Registers, EventIs
<1>3. CASE Receive
  <2> DEFINE e == Head(toClient)
  <2>1. /\ calls = <<>> /\ event = Nothing /\ ~refused /\ toClient # <<>>
        /\ driver' = driver /\ driver \notin {"done", "failed"}
        /\ UNCHANGED <<index, items, completedItems, openDeltas, cut>>
    BY <1>3, ReceiveDoes DEF Idle, Waits, recordVars, serverVars
  <2>2. CASE UNCHANGED <<event, calls>>
    BY <1>1, <2>1, <2>2, NoCalls
  <2>3. CASE /\ e.type = "committed" /\ e.id \notin Committed /\ event' = e /\ UNCHANGED refused
             /\ calls' = (IF e.previous = Nothing THEN <<>>
                                  ELSE <<Call("register", e.previous, 0, <<>>)>>)
                                 \o <<Call("register", e.id, 0, <<>>)>>
                                 \o (IF e.id \in completedItems
                                     THEN <<Call("index", e.id, index, <<>>)>> ELSE <<>>)
    <3> DEFINE p == calls'
    <3>1. e \in ItemEvents /\ e # Nothing
      BY <2>1, <2>3, HeadTyped
    <3>2. index \in Nat
      BY DEF RealtimeTypes
    <3>3. Registers(p, e.id)
      <4>1. p = (IF e.previous = Nothing THEN <<>>
                                  ELSE <<Call("register", e.previous, 0, <<>>)>>)
                                 \o <<Call("register", e.id, 0, <<>>)>>
                                 \o (IF e.id \in completedItems
                                     THEN <<Call("index", e.id, index, <<>>)>> ELSE <<>>)
        BY <2>3, Zenon
      <4> QED
        BY ONLY <3>1, <3>2, <4>1, CommittedCalls
    <3>4. index + 1 <= Len(cut) /\ e.id = cut[index + 1] /\ items[e.id] = Open
      BY <1>3, <2>3, NextAnnounced
    <3>5. event' = e /\ refused' = refused
      BY <2>3, Zenon
    <3>6. e.type = "committed"
      BY <2>3, Zenon
    <3> HIDE DEF e
    <3>7. CallsMatch' =
            (/\ refused' \/ event' = Nothing => p = <<>>
             /\ driver' \in {"done", "failed"} => event' = Nothing
             /\ openDeltas' \cap completedItems' = {}
             /\ EventIs("committed")' =>
                  /\ index' + 1 <= Len(cut') /\ event'.id = cut'[index' + 1] /\ items'[event'.id] = Open
                  /\ \A j \in 1..Len(p) :
                       IF j = Len(p) /\ event'.id \in completedItems'
                       THEN p[j].op = "index" /\ p[j].id = event'.id /\ p[j].index = index'
                       ELSE p[j].op = "register"
             /\ EventIs("delta")' =>
                  /\ event'.id \notin completedItems'
                  /\ p # <<>> => Len(p) = 1 /\ Head(p).op = "delta" /\ Head(p).id = event'.id
             /\ EventIs("completed")' =>
                  /\ event'.id \notin completedItems'
                  /\ p # <<>> =>
                       /\ Len(p) = 1 /\ Head(p).id = event'.id
                       /\ IF items'[event'.id] # Open
                          THEN Head(p).op \in {"commit", "store commit"} /\ Head(p).index = items'[event'.id]
                          ELSE Head(p).op \in {"final", "store final"})
      BY DEF CallsMatch, Registers
    <3>8. ~EventIs("delta")' /\ ~EventIs("completed")'
      BY <3>5, <3>6 DEF EventIs
    <3>9. ~refused /\ driver' \notin {"done", "failed"} /\ UNCHANGED <<index, items, completedItems, openDeltas, cut>>
      BY <2>1
    <3> HIDE DEF p
    <3> QED
      BY ONLY <1>1, <3>1, <3>3, <3>4, <3>5, <3>7, <3>8, <3>9 DEF Registers
  <2>4. CASE /\ e.type = "delta" /\ e.id \notin completedItems /\ event' = e /\ UNCHANGED refused
             /\ calls' = <<Call("delta", e.id, 0, e.text)>>
    <3>1. Len(calls') = 1 /\ Head(calls') = Call("delta", e.id, 0, e.text)
      BY <2>4
    <3>2. Head(calls').op = "delta" /\ Head(calls').id = e.id /\ e # Nothing
      BY <2>1, <2>4, <3>1, HeadTyped DEF Call
    <3>3. event' = e /\ refused' = refused /\ e.type = "delta" /\ e.id \notin completedItems
      BY <2>4
    <3> HIDE DEF e
    <3>4. ~EventIs("committed")' /\ ~EventIs("completed")'
      BY <3>3 DEF EventIs
    <3> QED
      BY <1>1, <2>1, <3>1, <3>2, <3>3, <3>4 DEF CallsMatch
  <2>5. CASE /\ e.type = "completed" /\ e.id \notin completedItems /\ event' = e /\ UNCHANGED refused
             /\ calls' = IF e.id \in Committed THEN <<Call("commit", e.id, items[e.id], e.text)>>
                         ELSE <<Call("final", e.id, 0, e.text)>>
    <3>0. e.id \in Ids /\ e # Nothing
      BY <2>1, <2>5, HeadTyped
    <3>1. /\ Len(calls') = 1
          /\ Head(calls') = IF e.id \in Committed THEN Call("commit", e.id, items[e.id], e.text)
                            ELSE Call("final", e.id, 0, e.text)
      BY <2>5
    <3>2. /\ Head(calls').id = e.id
          /\ IF items[e.id] # Open THEN Head(calls').op = "commit" /\ Head(calls').index = items[e.id]
             ELSE Head(calls').op = "final"
      BY <3>0, <3>1 DEF Call, Committed
    <3>3. event' = e /\ refused' = refused /\ e.type = "completed" /\ e.id \notin completedItems
      BY <2>5
    <3> HIDE DEF e
    <3>4. ~EventIs("committed")' /\ ~EventIs("delta")'
      BY <3>3 DEF EventIs
    <3> QED
      BY <1>1, <2>1, <3>0, <3>1, <3>2, <3>3, <3>4 DEF CallsMatch
  <2> QED
    BY <1>3, <2>2, <2>3, <2>4, <2>5, ReceiveDoes
<1>4. CASE DriverCalls
  <2>1. /\ UNCHANGED <<index, items, completedItems, openDeltas, cut, event, driver>>
        /\ event # Nothing /\ ~refused /\ calls # <<>>
    BY <1>4, CallsDoNoMore, SinkDoes DEF recordVars, serverVars
  <2>2. /\ EventIs("committed")' = EventIs("committed") /\ EventIs("delta")' = EventIs("delta")
        /\ EventIs("completed")' = EventIs("completed")
    BY <2>1 DEF EventIs
  <2>3. driver \notin {"done", "failed"}
    BY <2>1 DEF CallsMatch
  <2>4. CASE calls' = <<>>
    <3>1. Len(calls') = 0 /\ \A j \in 1..Len(calls') : FALSE
      BY <2>4
    <3>2. EventIs("committed") => index + 1 <= Len(cut) /\ event.id = cut[index + 1] /\ items[event.id] = Open
      BY DEF CallsMatch
    <3>3. EventIs("delta") \/ EventIs("completed") => event.id \notin completedItems
      BY DEF CallsMatch
    <3> QED
      BY <1>1, <2>1, <2>2, <2>3, <2>4, <3>1, <3>2, <3>3 DEF CallsMatch, Registers
  <2>5. CASE calls' = Tail(calls) /\ calls' # <<>> /\ ~refused'
    <3> DEFINE p == calls'
    <3>1. /\ Len(calls) \in Nat /\ Len(calls) > 1 /\ Len(p) = Len(calls) - 1
          /\ \A j \in 1..(Len(calls) - 1) : p[j] = calls[j + 1]
      BY <2>1, <2>5, CallsLeft DEF SinkInv
    <3>2. EventIs("committed")
      <4>1. EventIs("committed") \/ EventIs("delta") \/ EventIs("completed")
        BY <2>1, EventTyped DEF EventIs
      <4>2. Len(calls) # 1
        BY ONLY <3>1
      <4>3. ~EventIs("delta") /\ ~EventIs("completed")
        BY <2>1, <4>2 DEF CallsMatch
      <4> QED
        BY ONLY <4>1, <4>3
    <3>3. ~EventIs("delta") /\ ~EventIs("completed")
      BY <3>2 DEF EventIs
    <3>4. \A j \in 1..Len(p) :
             IF j = Len(p) /\ event.id \in completedItems
             THEN p[j].op = "index" /\ p[j].id = event.id /\ p[j].index = index
             ELSE p[j].op = "register"
      <4> SUFFICES ASSUME NEW j \in 1..Len(p)
                   PROVE  IF j = Len(p) /\ event.id \in completedItems
                          THEN p[j].op = "index" /\ p[j].id = event.id /\ p[j].index = index
                          ELSE p[j].op = "register"
        OBVIOUS
      <4>1. /\ j + 1 \in 1..Len(calls) /\ (j + 1 = Len(calls) <=> j = Len(p)) /\ j \in 1..(Len(calls) - 1)
        BY ONLY <3>1, j \in 1..Len(p)
      <4>2. IF j + 1 = Len(calls) /\ event.id \in completedItems
            THEN calls[j + 1].op = "index" /\ calls[j + 1].id = event.id /\ calls[j + 1].index = index
            ELSE calls[j + 1].op = "register"
        BY <3>2, <4>1 DEF CallsMatch, Registers
      <4> QED
        BY ONLY <3>1, <4>1, <4>2
    <3>5. /\ index + 1 <= Len(cut) /\ event.id = cut[index + 1] /\ items[event.id] = Open
      BY <3>2 DEF CallsMatch
    <3>6. (refused' \/ event' = Nothing => calls' = <<>>) /\ (driver' \in {"done", "failed"} => event' = Nothing)
      BY <2>1, <2>3, <2>5
    <3>7. ~EventIs("delta")' /\ ~EventIs("completed")'
      BY <2>2, <3>3
    <3> QED
      BY <1>1, <2>1, <3>4, <3>5, <3>6, <3>7 DEF CallsMatch, Registers
  <2>6. ASSUME EventIs("completed"), ~refused', NEW c \in SinkCalls, calls' = <<c>>, c.id = event.id,
               IF items[event.id] # Open THEN c.op = "store commit" /\ c.index = items[event.id]
               ELSE c.op = "store final"
        PROVE  CallsMatch'
    <3>0. calls' = <<c>>
      BY <2>6
    <3>1. Len(calls') = 1 /\ Head(calls') = c
      BY ONLY <3>0
    <3>2. ~EventIs("committed") /\ ~EventIs("delta") /\ event.id \notin completedItems
      BY <2>6 DEF EventIs, CallsMatch
    <3> QED
      BY <1>1, <2>1, <2>2, <2>3, <2>6, <3>1, <3>2 DEF CallsMatch
  <2>7. \/ calls' = <<>>
        \/ calls' = Tail(calls) /\ ~refused'
        \/ /\ EventIs("completed") /\ ~refused'
           /\ \E c \in SinkCalls :
                 /\ calls' = <<c>> /\ c.id = event.id
                 /\ IF items[event.id] # Open THEN c.op = "store commit" /\ c.index = items[event.id]
                    ELSE c.op = "store final"
    BY <1>4, SinkDoes
  <2> QED
    BY <2>4, <2>5, <2>6, <2>7
<1>5. CASE EventHandled
  <2>1. /\ calls' = <<>> /\ event' = Nothing /\ event # Nothing
        /\ \/ UNCHANGED <<completedItems, openDeltas>>
           \/ /\ event.type = "delta" /\ openDeltas' = openDeltas \cup {event.id} /\ UNCHANGED completedItems
           \/ /\ completedItems' = completedItems \cup {event.id} /\ openDeltas' = openDeltas \ {event.id}
    BY <1>5, HandledDoes
  <2>2. EventIs("delta") => event.id \notin completedItems
    BY DEF CallsMatch
  <2>3. (openDeltas \cap completedItems = {})'
    BY <1>1, <2>1, <2>2 DEF EventIs
  <2> QED
    BY <2>1, <2>3, NoCalls
<1>6. CASE DriverMoves
  <2>1. calls' = <<>> /\ event' = Nothing /\ UNCHANGED <<completedItems, openDeltas>>
    BY <1>6, MovesDo DEF Idle, recordVars
  <2> QED
    BY <1>1, <2>1, NoCalls
<1>7. CASE CheckFails \/ DriverFails
  <2>1. calls' = <<>> /\ event' = Nothing /\ UNCHANGED <<completedItems, openDeltas>>
    BY <1>7, GivingUpDoes DEF recordVars
  <2> QED
    BY <1>1, <2>1, NoCalls
<1>8. CASE WorkerSettles \/ SessionSettles
  <2>1. UNCHANGED <<index, items, completedItems, openDeltas, cut, event, driver, calls, refused>>
    BY <1>8, SettlingDoes DEF recordVars, serverVars
  <2> QED
    BY <2>1 DEF CallsMatch, Registers, EventIs
<1>9. CASE ServerNext
  <2>1. UNCHANGED <<index, items, completedItems, openDeltas, event, driver, calls, refused>>
    BY <1>9, ServerDoes DEF recordVars
  <2>2. index + 1 <= Len(cut) => index + 1 <= Len(cut') /\ cut'[index + 1] = cut[index + 1]
    <3>1. Len(cut) \in Nat /\ index \in Nat
      BY CutDistinct DEF RealtimeTypes, ItemsAsCut
    <3>2. index + 1 <= Len(cut) => index + 1 \in 1..Len(cut)
      BY <3>1
    <3>3. \/ cut' = cut
          \/ Len(cut') = Len(cut) + 1 /\ \A k \in 1..Len(cut) : cut'[k] = cut[k]
      BY <1>9, ServerCutsNext DEF ItemsAsCut
    <3> QED
      BY <3>1, <3>2, <3>3
  <2>3. /\ EventIs("committed")' = EventIs("committed") /\ EventIs("delta")' = EventIs("delta")
        /\ EventIs("completed")' = EventIs("completed")
    BY <2>1 DEF EventIs
  <2> QED
    BY <2>1, <2>2, <2>3 DEF CallsMatch, Registers
<1> QED
  BY <1>2, <1>3, <1>4, <1>5, <1>6, <1>7, <1>8, <1>9, StepKinds

\* A final has a number.
LEMMA FinalIsNumbered ==
    ASSUME RealtimeTypes, NEW id \in Ids PROVE FinalOf(id) \in Nat \cup {Unindexed} /\ FinalOf(id) # Open
BY MarksAssumption DEF RealtimeTypes, FinalOf

\* A step keeps the driver's record at one with the store.
LEMMA AgreementStep ==
    ASSUME StoreInv, BudgetInv, SinkInv, RealtimeTypes, CallsMatch, Agreement, [RealtimeNext]_vars
    PROVE  Agreement'
<1>0. /\ completed \in [Ids -> Nat \cup {Open, Unindexed}] /\ items \in [Ids -> Nat \cup {Open}]
      /\ completedItems \subseteq Ids /\ index \in Nat
  BY DEF StoreInv, StoreTypes, RealtimeTypes
<1>2. ASSUME UNCHANGED <<completed, partials, outcome, items, completedItems, openDeltas>>,
             index' = index, calls' = calls, event' = event, refused' = refused
      PROVE  Agreement'
  BY <1>2 DEF Agreement, Noting, FinalOf, EventIs, HasPartial
<1>1. CASE UNCHANGED vars
  <2>1. /\ UNCHANGED <<completed, partials, outcome, items, completedItems, openDeltas>>
        /\ calls' = calls /\ event' = event /\ refused' = refused /\ index' = index
    BY <1>1 DEF vars, storeVars, texts, driverVars, protocolVars, sinkVars
  <2> QED
    BY <1>2, <2>1
<1>3. ASSUME UNCHANGED <<completed, partials, outcome, items, completedItems, openDeltas>>,
             event = Nothing, refused' = refused \/ refused' = TRUE, calls' # <<>> \/ event' = Nothing
      PROVE  Agreement'
  <2>1. CASE refused'
    BY <2>1 DEF Agreement
  <2>2. CASE ~refused'
    <3>1. \A id : /\ ~Noting("committed", id) /\ ~Noting("committed", id)'
                  /\ ~Noting("completed", id) /\ ~Noting("completed", id)'
      BY <1>3 DEF Noting, EventIs
    <3>2. ~EventIs("delta")
      BY <1>3 DEF EventIs
    <3>3. \A id : FinalOf(id)' = FinalOf(id) /\ HasPartial(id)' = HasPartial(id)
      BY <1>3 DEF FinalOf, HasPartial
    <3>4. ~refused
      BY <1>3, <2>2
    <3> QED
      BY <1>3, <3>1, <3>2, <3>3, <3>4 DEF Agreement
  <2> QED
    BY <2>1, <2>2
<1>4. CASE Receive
  <2>1. /\ event = Nothing /\ calls = <<>> /\ ~refused
        /\ UNCHANGED <<completed, partials, outcome, items, completedItems, openDeltas>>
    BY <1>4, ReceiveDoes DEF Idle, storeVars, texts, recordVars
  <2>2. (refused' = refused \/ refused' = TRUE) /\ (calls' # <<>> \/ event' = Nothing)
    <3> DEFINE e == Head(toClient)
    <3>1. CASE UNCHANGED event
      <4>1. refused' = refused \/ refused' = TRUE
        BY <1>4, ReceiveDoes
      <4> QED
        BY <2>1, <3>1, <4>1
    <3>2. CASE e.type = "committed" /\ UNCHANGED refused
               /\ calls' = (IF e.previous = Nothing THEN <<>>
                                  ELSE <<Call("register", e.previous, 0, <<>>)>>)
                                 \o <<Call("register", e.id, 0, <<>>)>>
                                 \o (IF e.id \in completedItems
                                     THEN <<Call("index", e.id, index, <<>>)>> ELSE <<>>)
      <4> DEFINE p == calls'
      <4>1. toClient # <<>> /\ e.type = "committed"
        BY <1>4, <3>2, ReceiveDoes
      <4>2. e \in ItemEvents
        BY <4>1, HeadTyped
      <4>3. p # <<>>
        BY <1>0, <3>2, <4>2, CommittedCalls
      <4>4. refused' = refused
        BY <3>2, Zenon
      <4> QED
        BY <4>3, <4>4
    <3>3. CASE UNCHANGED refused /\ \/ calls' = <<Call("delta", e.id, 0, e.text)>>
                                    \/ calls' = IF e.id \in Committed THEN <<Call("commit", e.id, items[e.id], e.text)>>
                                                ELSE <<Call("final", e.id, 0, e.text)>>
      BY <3>3
    <3> QED
      BY <1>4, <3>1, <3>2, <3>3, ReceiveDoes
  <2> QED
    BY <1>3, <2>1, <2>2
<1>5. CASE DriverCalls
  <2>1. /\ UNCHANGED <<items, index, completedItems, openDeltas, event, outcome>>
        /\ event # Nothing /\ event.id \in Ids /\ ~refused /\ calls # <<>>
    BY <1>5, CallsDoNoMore, SinkDoes DEF recordVars
  <2>2. CASE outcome # "none" \/ refused' = TRUE
    BY <2>1, <2>2 DEF Agreement
  <2>3. ASSUME outcome = "none"
        PROVE  /\ \A id \in completedItems : completed[id] = FinalOf(id)
               /\ \A id \in Ids : completed[id] # Open => id \in completedItems
               /\ \A id \in Ids : HasPartial(id) => id \in openDeltas \/ (EventIs("delta") /\ event.id = id)
    <3>1. \A id : ~Noting("committed", id) /\ ~Noting("completed", id)
      BY <2>1 DEF Noting
    <3> QED
      BY <2>1, <2>3, <3>1 DEF Agreement
  <2>4. \A id : FinalOf(id)' = FinalOf(id)
    BY <2>1 DEF FinalOf
  <2>5. /\ EventIs("committed")' = EventIs("committed") /\ EventIs("delta")' = EventIs("delta")
        /\ EventIs("completed")' = EventIs("completed")
    BY <2>1 DEF EventIs
  <2>6. PartialGone => \A id \in Ids : HasPartial(id)' => HasPartial(id)
    <3>1. ASSUME partials' = partials, NEW id \in Ids, HasPartial(id)' PROVE HasPartial(id)
      BY <3>1 DEF HasPartial
    <3>2. ASSUME partials' = [partials EXCEPT ![event.id] = NoPartial], NEW id \in Ids, HasPartial(id)'
          PROVE  HasPartial(id)
      <4>1. partials \in [Ids -> Partial]
        BY DEF BudgetInv, BudgetTypes
      <4>2. partials'[id] = IF id = event.id THEN NoPartial ELSE partials[id]
        BY <2>1, <3>2, <4>1
      <4>3. partials'[id].revision > 0
        BY <3>2 DEF HasPartial
      <4>4. NoPartial.revision = 0
        BY DEF NoPartial
      <4> QED
        BY <4>2, <4>3, <4>4 DEF HasPartial
    <3> QED
      BY <3>1, <3>2 DEF PartialGone
  <2>7. ASSUME outcome = "none", UNCHANGED <<completed, partials>>, EventIs("committed"),
               Head(calls).op = "register", calls' = Tail(calls)
        PROVE  Agreement'
    <3>1. \A id \in completedItems : ~Noting("committed", id)'
      <4> SUFFICES ASSUME event.id \in completedItems, calls' = <<>> PROVE FALSE
        BY <2>1, <2>5 DEF Noting
      <4>1. Len(calls) = 1 /\ Head(calls) = calls[1]
        BY <2>1, <2>7, CallsLeft DEF SinkInv
      <4>2. 1 \in 1..Len(calls)
        BY <4>1
      <4>3. calls[1].op = "index"
        BY <2>7, <4>1, <4>2 DEF CallsMatch, Registers
      <4> QED
        BY <2>7, <4>1, <4>3
    <3>2. \A id : ~Noting("completed", id)'
      BY <2>1, <2>5, <2>7 DEF Noting, EventIs
    <3>3. \A id : HasPartial(id)' = HasPartial(id)
      BY <2>7 DEF HasPartial
    <3> QED
      BY <2>1, <2>3, <2>4, <2>5, <2>7, <3>1, <3>2, <3>3 DEF Agreement
  <2>8. ASSUME outcome = "none", EventIs("committed"), event.id \in completedItems, calls' = <<>>,
               StoredAs(index), completed'[event.id] = index, PartialGone
        PROVE  Agreement'
    <3>1. \A id \in Ids : id # event.id => completed'[id] = completed[id]
      BY <1>0, <2>8 DEF StoredAs
    <3>2. \A id : Noting("committed", id)' <=> id = event.id
      BY <2>1, <2>5, <2>8 DEF Noting
    <3>3. \A id : ~Noting("completed", id)'
      BY <2>5, <2>8 DEF Noting, EventIs
    <3>4. ~EventIs("delta")
      BY <2>8 DEF EventIs
    <3> QED
      BY <1>0, <2>1, <2>3, <2>4, <2>5, <2>6, <2>8, <3>1, <3>2, <3>3, <3>4 DEF Agreement
  <2>9. ASSUME outcome = "none", EventIs("delta"), completed' = completed,
               \A id \in Ids : id # event.id => partials'[id] = partials[id]
        PROVE  Agreement'
    <3>1. \A id : ~Noting("committed", id)' /\ ~Noting("completed", id)'
      BY <2>5, <2>9 DEF Noting, EventIs
    <3>2. \A id \in Ids : id # event.id => HasPartial(id)' = HasPartial(id)
      BY <2>9 DEF HasPartial
    <3> QED
      BY <2>1, <2>3, <2>4, <2>5, <2>9, <3>1, <3>2 DEF Agreement
  <2>10. ASSUME EventIs("completed") PROVE event.id \notin completedItems
    BY <2>10 DEF CallsMatch
  <2>11. ASSUME outcome = "none", EventIs("completed") PROVE completed[event.id] = Open
    BY <2>1, <2>3, <2>10, <2>11
  <2>12. ASSUME outcome = "none", EventIs("completed"), UNCHANGED <<completed, partials>>, calls' # <<>>
         PROVE  Agreement'
    <3>1. \A id : ~Noting("committed", id)' /\ ~Noting("completed", id)'
      BY <2>12 DEF Noting
    <3>2. \A id : HasPartial(id)' = HasPartial(id)
      BY <2>12 DEF HasPartial
    <3> QED
      BY <2>1, <2>3, <2>4, <2>5, <2>12, <3>1, <3>2 DEF Agreement
  <2>13. ASSUME outcome = "none", EventIs("completed"), calls' = <<>>, PartialGone, StoredAs(FinalOf(event.id)),
                completed'[event.id] = FinalOf(event.id)
         PROVE  Agreement'
    <3>1. \A id \in Ids : id # event.id => completed'[id] = completed[id]
      BY <1>0, <2>13 DEF StoredAs
    <3>2. \A id : Noting("completed", id)' <=> id = event.id
      BY <2>1, <2>5, <2>13 DEF Noting
    <3>3. \A id : ~Noting("committed", id)'
      BY <2>5, <2>13 DEF Noting, EventIs
    <3>4. ~EventIs("delta")
      BY <2>13 DEF EventIs
    <3> QED
      BY <1>0, <2>1, <2>3, <2>4, <2>5, <2>6, <2>10, <2>13, <3>1, <3>2, <3>3, <3>4 DEF Agreement
  <2>14. \/ outcome # "none" \/ refused' = TRUE
         \/ /\ outcome = "none" /\ EventIs("committed") /\ Head(calls).op = "register"
            /\ calls' = Tail(calls) /\ UNCHANGED <<completed, partials>>
         \/ /\ outcome = "none" /\ EventIs("committed") /\ event.id \in completedItems /\ calls' = <<>>
            /\ StoredAs(index) /\ completed'[event.id] = index /\ PartialGone
         \/ /\ outcome = "none" /\ EventIs("delta") /\ completed' = completed
            /\ \A id \in Ids : id # event.id => partials'[id] = partials[id]
         \/ EventIs("completed") /\ completed[event.id] # Open /\ outcome = "none"
         \/ /\ outcome = "none" /\ EventIs("completed") /\ UNCHANGED <<completed, partials>>
            /\ calls' # <<>>
         \/ /\ outcome = "none" /\ EventIs("completed") /\ calls' = <<>> /\ PartialGone
            /\ StoredAs(FinalOf(event.id))
            /\ completed[event.id] = Open => completed'[event.id] = FinalOf(event.id)
    <3>1. \A c : <<c>> # <<>>
      OBVIOUS
    <3> QED
      BY <1>5, <3>1, SinkDoes
  <2> QED
    BY <2>2, <2>7, <2>8, <2>9, <2>11, <2>12, <2>13, <2>14
<1>6. CASE EventHandled
  <2>1. /\ event # Nothing /\ calls = <<>> /\ ~refused /\ event' = Nothing
        /\ UNCHANGED <<completed, partials, outcome, refused>>
        /\ \/ /\ event.type = "committed" /\ items' = [items EXCEPT ![event.id] = index]
              /\ UNCHANGED <<completedItems, openDeltas>>
           \/ /\ event.type = "delta" /\ openDeltas' = openDeltas \cup {event.id}
              /\ UNCHANGED <<items, completedItems>>
           \/ /\ event.type = "completed" /\ completedItems' = completedItems \cup {event.id}
              /\ openDeltas' = openDeltas \ {event.id} /\ UNCHANGED items
    BY <1>6, HandledDoes DEF storeVars, texts
  <2>2. event.id \in Ids
    BY <2>1, EventTyped
  <2>3. CASE outcome # "none"
    BY <2>1, <2>3 DEF Agreement
  <2>4. CASE outcome = "none"
    <3>1. /\ \A id \in completedItems :
               completed[id] = IF Noting("committed", id) THEN index ELSE FinalOf(id)
          /\ \A id \in Ids : completed[id] # Open => id \in completedItems \/ Noting("completed", id)
          /\ \A id \in Ids : Noting("completed", id) => completed[id] = FinalOf(id)
          /\ \A id \in Ids : HasPartial(id) => id \in openDeltas \/ (EventIs("delta") /\ event.id = id)
      BY <2>1, <2>4 DEF Agreement
    <3>2. \A id : ~Noting("committed", id)' /\ ~Noting("completed", id)'
      BY <2>1 DEF Noting, EventIs
    <3>3. \A id : /\ Noting("committed", id) <=> event.type = "committed" /\ event.id = id
                  /\ Noting("completed", id) <=> event.type = "completed" /\ event.id = id
      BY <2>1 DEF Noting, EventIs
    <3>4. \A id : HasPartial(id)' = HasPartial(id)
      BY <2>1 DEF HasPartial
    <3>5. ~EventIs("delta")'
      BY <2>1 DEF EventIs
    <3>6. EventIs("delta") <=> event.type = "delta"
      BY <2>1 DEF EventIs
    <3>7. CASE event.type = "committed" /\ items' = [items EXCEPT ![event.id] = index]
               /\ UNCHANGED <<completedItems, openDeltas>>
      <4>1. \A id \in Ids : FinalOf(id)' = IF id = event.id THEN index ELSE FinalOf(id)
        BY <1>0, <2>2, <3>7, MarksAssumption DEF FinalOf
      <4> QED
        BY <1>0, <2>1, <3>1, <3>2, <3>3, <3>4, <3>5, <3>6, <3>7, <4>1 DEF Agreement
    <3>8. CASE event.type = "delta" /\ openDeltas' = openDeltas \cup {event.id}
               /\ UNCHANGED <<items, completedItems>>
      <4>1. \A id \in Ids : FinalOf(id)' = FinalOf(id)
        BY <3>8 DEF FinalOf
      <4> QED
        BY <1>0, <2>1, <3>1, <3>2, <3>3, <3>4, <3>5, <3>6, <3>8, <4>1 DEF Agreement
    <3>9. CASE event.type = "completed" /\ completedItems' = completedItems \cup {event.id}
               /\ openDeltas' = openDeltas \ {event.id} /\ UNCHANGED items
      <4>1. \A id \in Ids : FinalOf(id)' = FinalOf(id)
        BY <3>9 DEF FinalOf
      <4>2. completed[event.id] = FinalOf(event.id) /\ completed[event.id] # Open
        BY <2>2, <3>1, <3>3, <3>9, FinalIsNumbered
      <4>3. ~HasPartial(event.id)
        BY <2>2, <2>4, <4>2 DEF BudgetInv, IdsAccounted
      <4>4. \A id \in completedItems' : id \in Ids /\ completed'[id] = FinalOf(id)'
        BY <1>0, <2>1, <2>2, <3>1, <3>3, <3>9, <4>1, <4>2
      <4>5. \A id \in Ids : completed'[id] # Open => id \in completedItems'
        BY <2>1, <3>1, <3>3, <3>9
      <4>6. \A id \in Ids : HasPartial(id)' => id \in openDeltas'
        BY <3>1, <3>4, <3>6, <3>9, <4>3
      <4> QED
        BY <3>2, <4>4, <4>5, <4>6 DEF Agreement
    <3> QED
      BY <2>1, <3>7, <3>8, <3>9
  <2> QED
    BY <2>3, <2>4
<1>7. CASE DriverMoves \/ ServerNext
  <2>1. UNCHANGED <<completed, partials, outcome, items, completedItems, openDeltas, index, calls, event, refused>>
    BY <1>7, MovesDo, ServerDoes DEF storeVars, texts, recordVars
  <2> QED
    BY <1>2, <2>1
<1>8. CASE CheckFails \/ DriverFails
  <2>1. /\ UNCHANGED <<completed, partials, outcome, items, completedItems, openDeltas, refused>>
        /\ refused \/ event = Nothing
        /\ event' = Nothing
    BY <1>8, GivingUpDoes DEF storeVars, texts, recordVars, Idle
  <2>2. CASE refused
    BY <2>1, <2>2 DEF Agreement
  <2> QED
    BY <1>3, <2>1, <2>2
<1>9. CASE WorkerSettles \/ SessionSettles
  BY <1>9, SettlingDoes DEF Agreement
<1> QED
  BY <1>1, <1>4, <1>5, <1>6, <1>7, <1>8, <1>9, StepKinds

-----------------------------------------------------------------------------
\* The wire.
\* What is said of the parts of the wire, for the events it is about.
LEMMA ClientTaken ==
    ASSUME RealtimeTypes, toClient # <<>>, toClient' = Tail(toClient)
    PROVE  /\ NoneOf(toClient, {"updated"}) =>
                NoneOf(toClient', {"updated"}) /\ Head(toClient).type # "updated"
           /\ NoneOf(toClient, {"empty"}) => NoneOf(toClient', {"empty"}) /\ Head(toClient).type # "empty"
           /\ NoneOf(toClient, Replies) => NoneOf(toClient', Replies) /\ Head(toClient).type \notin Replies
           /\ AtMostOne(toClient, Replies) =>
                /\ AtMostOne(toClient', Replies)
                /\ Head(toClient).type \in Replies => NoneOf(toClient', Replies)
           /\ \A b \in BOOLEAN : UpdatedOnce(toClient, b) =>
                IF Head(toClient).type = "updated"
                THEN NoneOf(toClient', {"updated"}) /\ (b => NoneOf(toClient', Replies))
                ELSE UpdatedOnce(toClient', b)
<1> DEFINE p == toClient'
<1>1. toClient \in Seq(WireEvents) /\ toClient # <<>> /\ p = Tail(toClient)
  BY DEF RealtimeTypes
<1> HIDE DEF p
<1>2. Len(toClient) \in Nat /\ Len(toClient) >= 1 /\ Head(toClient) = toClient[1]
  BY <1>1, TailIs
<1>3. 1 \in 1..Len(toClient)
  BY ONLY <1>2
<1>4. \A T : NoneOf(toClient, T) => Head(toClient).type \notin T
  BY <1>2, <1>3 DEF NoneOf
<1>5. /\ \A T : NoneOf(toClient, T) => NoneOf(p, T)
      /\ \A T : AtMostOne(toClient, T) => AtMostOne(p, T) /\ (Head(toClient).type \in T => NoneOf(p, T))
      /\ \A b \in BOOLEAN : UpdatedOnce(toClient, b) /\ Head(toClient).type # "updated" => UpdatedOnce(p, b)
      /\ \A b \in BOOLEAN : UpdatedOnce(toClient, b) /\ Head(toClient).type = "updated" =>
           NoneOf(p, {"updated"}) /\ (b => NoneOf(p, Replies))
  BY ONLY <1>1, TakenQuiet
<1>6. NoneOf(toClient, {"updated"}) => NoneOf(p, {"updated"}) /\ Head(toClient).type # "updated"
  <2>1. NoneOf(toClient, {"updated"}) => NoneOf(p, {"updated"}) /\ Head(toClient).type \notin {"updated"}
    BY ONLY <1>4, <1>5
  <2> QED
    BY <2>1
<1>7. NoneOf(toClient, {"empty"}) => NoneOf(p, {"empty"}) /\ Head(toClient).type # "empty"
  <2>1. NoneOf(toClient, {"empty"}) => NoneOf(p, {"empty"}) /\ Head(toClient).type \notin {"empty"}
    BY ONLY <1>4, <1>5
  <2> QED
    BY <2>1
<1>8. NoneOf(toClient, Replies) => NoneOf(p, Replies) /\ Head(toClient).type \notin Replies
  BY ONLY <1>4, <1>5
<1> QED
  BY <1>5, <1>6, <1>7, <1>8 DEF p

\* What the server has said is behind the rest.
LEMMA ClientGrown ==
    ASSUME RealtimeTypes, NEW e, ServerSays(e)
    PROVE  /\ NoneOf(toClient, {"updated"}) =>
                IF e.type # "updated" THEN NoneOf(toClient', {"updated"})
                ELSE \A b \in BOOLEAN : UpdatedOnce(toClient', b)
           /\ NoneOf(toClient, {"empty"}) /\ e.type # "empty" => NoneOf(toClient', {"empty"})
           /\ NoneOf(toClient, Replies) =>
                AtMostOne(toClient', Replies) /\ (e.type \notin Replies => NoneOf(toClient', Replies))
           /\ AtMostOne(toClient, Replies) /\ e.type \notin Replies => AtMostOne(toClient', Replies)
           /\ \A b \in BOOLEAN : UpdatedOnce(toClient, b) /\ e.type # "updated" /\ (b => e.type \notin Replies) =>
                UpdatedOnce(toClient', b)
<1> DEFINE p == toClient'
<1>1. toClient \in Seq(WireEvents) /\ e \in WireEvents /\ p = Append(toClient, e)
  BY DEF RealtimeTypes, ServerSays
<1> HIDE DEF p
<1>20. /\ \A T : NoneOf(toClient, T) /\ e.type \notin T => NoneOf(p, T)
       /\ \A T : AtMostOne(toClient, T) /\ e.type \notin T => AtMostOne(p, T)
       /\ \A T : NoneOf(toClient, T) => AtMostOne(p, T)
  BY ONLY <1>1, GrownQuiet
<1>21. ASSUME NEW b \in BOOLEAN, UpdatedOnce(toClient, b), e.type # "updated", b => e.type \notin Replies
       PROVE  UpdatedOnce(p, b)
  <2>1. \A c \in BOOLEAN : UpdatedOnce(toClient, c) /\ e.type # "updated" /\ (c => e.type \notin Replies)
                             => UpdatedOnce(p, c)
    BY ONLY <1>1, GrownQuiet, Zenon
  <2> QED
    BY <1>21, <2>1
<1>22. ASSUME NEW b \in BOOLEAN, NoneOf(toClient, {"updated"}), e.type = "updated"
       PROVE  UpdatedOnce(p, b)
  BY <1>1, <1>22, UpdateAnswered
<1>2. /\ \A T : NoneOf(toClient, T) /\ e.type \notin T => NoneOf(p, T)
      /\ \A T : AtMostOne(toClient, T) /\ e.type \notin T => AtMostOne(p, T)
      /\ \A T : NoneOf(toClient, T) => AtMostOne(p, T)
      /\ \A b \in BOOLEAN : UpdatedOnce(toClient, b) /\ e.type # "updated" /\ (b => e.type \notin Replies) =>
           UpdatedOnce(p, b)
      /\ \A b \in BOOLEAN : NoneOf(toClient, {"updated"}) /\ e.type = "updated" => UpdatedOnce(p, b)
  BY <1>20, <1>21, <1>22
<1>3. NoneOf(toClient, {"updated"}) /\ e.type \notin {"updated"} => NoneOf(p, {"updated"})
  BY ONLY <1>2
<1>4. NoneOf(toClient, {"empty"}) /\ e.type \notin {"empty"} => NoneOf(p, {"empty"})
  BY ONLY <1>2
<1>5. /\ NoneOf(toClient, Replies) => AtMostOne(p, Replies) /\ (e.type \notin Replies => NoneOf(p, Replies))
      /\ AtMostOne(toClient, Replies) /\ e.type \notin Replies => AtMostOne(p, Replies)
  BY ONLY <1>2
<1> QED
  BY <1>2, <1>3, <1>4, <1>5 DEF p

\* The same of what is on its way to the server.
LEMMA ServerTaken ==
    ASSUME RealtimeTypes, toServer # <<>>, toServer' = Tail(toServer)
    PROVE  /\ NoneOf(toServer, {"update"}) => NoneOf(toServer', {"update"}) /\ Head(toServer).type # "update"
           /\ NoneOf(toServer, {"commit"}) => NoneOf(toServer', {"commit"}) /\ Head(toServer).type # "commit"
           /\ LastOnly(toServer, "commit") =>
                LastOnly(toServer', "commit") /\ (Head(toServer).type = "commit" => toServer' = <<>>)
           /\ LastOnly(toServer, "update") =>
                /\ LastOnly(toServer', "update")
                /\ Head(toServer).type = "update" => toServer' = <<>> /\ toServer[Len(toServer)] = Head(toServer)
           /\ toServer[Len(toServer)].type # Head(toServer).type =>
                toServer' # <<>> /\ toServer'[Len(toServer')] = toServer[Len(toServer)]
           /\ VadsAllowed(toServer) =>
                VadsAllowed(toServer') /\ (Head(toServer).type = "update" /\ Head(toServer).vad => serverVad)
<1> DEFINE p == toServer'
           n == Len(toServer)
<1>1. toServer \in Seq(Messages) /\ toServer # <<>> /\ p = Tail(toServer)
  BY DEF RealtimeTypes
<1> HIDE DEF p
<1>2. /\ n \in Nat /\ n >= 1 /\ Head(toServer) = toServer[1] /\ p \in Seq(Messages) /\ Len(p) = n - 1
      /\ \A j \in 1..(n - 1) : p[j] = toServer[j + 1]
  BY <1>1, TailIs
<1>3. p = <<>> <=> Len(p) = 0
  BY <1>2, EmptySeq
<1> HIDE DEF n
<1>4. /\ 1 \in 1..n /\ \A j \in 1..(n - 1) : j + 1 \in 1..n
      /\ n # 1 => n - 1 \in 1..(n - 1) /\ (n - 1) + 1 = n
  BY ONLY <1>2
<1>5. \A T : NoneOf(toServer, T) => Head(toServer).type \notin T
  BY <1>2, <1>4 DEF NoneOf, n
<1>6. /\ \A T : NoneOf(toServer, T) => NoneOf(p, T)
      /\ \A t : LastOnly(toServer, t) => LastOnly(p, t) /\ (Head(toServer).type = t => p = <<>>)
  BY ONLY <1>1, TakenQuiet
<1>7. NoneOf(toServer, {"update"}) => NoneOf(p, {"update"}) /\ Head(toServer).type # "update"
  <2>1. NoneOf(toServer, {"update"}) => NoneOf(p, {"update"}) /\ Head(toServer).type \notin {"update"}
    BY ONLY <1>5, <1>6
  <2> QED
    BY <2>1
<1>8. NoneOf(toServer, {"commit"}) => NoneOf(p, {"commit"}) /\ Head(toServer).type # "commit"
  <2>1. NoneOf(toServer, {"commit"}) => NoneOf(p, {"commit"}) /\ Head(toServer).type \notin {"commit"}
    BY ONLY <1>5, <1>6
  <2> QED
    BY <2>1
<1>9. p = <<>> => toServer[n] = Head(toServer)
  <2>1. p = <<>> => n = 1
    BY <1>2, <1>3
  <2> QED
    BY <1>2, <2>1
<1>10. /\ LastOnly(toServer, "commit") => LastOnly(p, "commit") /\ (Head(toServer).type = "commit" => p = <<>>)
       /\ LastOnly(toServer, "update") => LastOnly(p, "update") /\ (Head(toServer).type = "update" => p = <<>>)
  BY ONLY <1>6
<1>11. ASSUME toServer[n].type # Head(toServer).type PROVE p # <<>> /\ p[Len(p)] = toServer[n]
  <2>1. n # 1
    BY <1>2, <1>11
  <2> QED
    BY <1>2, <1>3, <1>4, <2>1
<1>12. VadsAllowed(toServer) => VadsAllowed(p) /\ (Head(toServer).type = "update" /\ Head(toServer).vad => serverVad)
  BY <1>2, <1>4 DEF VadsAllowed, n
<1> QED
  BY <1>7, <1>8, <1>9, <1>10, <1>11, <1>12 DEF p, n

\* What the driver has said is behind the rest.
LEMMA ServerGrown ==
    ASSUME NEW q \in Seq(Messages), NEW m \in Messages, m.vad => serverVad, NEW p, p = Append(q, m)
    PROVE  /\ p \in Seq(Messages) /\ p # <<>> /\ p[Len(p)] = m
           /\ NoneOf(q, {"update"}) =>
                LastOnly(p, "update") /\ (m.type # "update" => NoneOf(p, {"update"}))
           /\ NoneOf(q, {"commit"}) =>
                LastOnly(p, "commit") /\ (m.type # "commit" => NoneOf(p, {"commit"}))
           /\ VadsAllowed(q) => VadsAllowed(p)
<1>1. /\ p \in Seq(Messages) /\ p # <<>> /\ Len(q) \in Nat /\ Len(p) = Len(q) + 1
      /\ p[Len(q) + 1] = m /\ \A j \in 1..Len(q) : p[j] = q[j]
  BY AppendIs
<1>2. /\ \A T : NoneOf(q, T) /\ m.type \notin T => NoneOf(p, T)
      /\ \A t : NoneOf(q, {t}) => LastOnly(p, t)
  BY GrownQuiet
<1>3. /\ NoneOf(q, {"update"}) /\ m.type \notin {"update"} => NoneOf(p, {"update"})
      /\ NoneOf(q, {"commit"}) /\ m.type \notin {"commit"} => NoneOf(p, {"commit"})
  BY ONLY <1>2
<1>4. /\ NoneOf(q, {"update"}) => LastOnly(p, "update")
      /\ NoneOf(q, {"commit"}) => LastOnly(p, "commit")
  BY ONLY <1>2
<1>5. \A j \in 1..(Len(q) + 1) : j \in 1..Len(q) \/ j = Len(q) + 1
  <2> DEFINE n == Len(q)
  <2>1. n \in Nat
    BY <1>1
  <2> HIDE DEF n
  <2>2. \A j \in 1..(n + 1) : j \in 1..n \/ j = n + 1
    BY ONLY <2>1
  <2> QED
    BY <2>2 DEF n
<1>6. VadsAllowed(q) => VadsAllowed(p)
  BY <1>1, <1>5 DEF VadsAllowed
<1> QED
  BY <1>1, <1>3, <1>4, <1>6

-----------------------------------------------------------------------------
\* The wire, step by step.
\* As long as the driver waits for the same answer.
LEMMA StillWanted ==
    /\ Barred \in BOOLEAN
    /\ UNCHANGED <<driver, serverVad>> => UpdateWanted' = UpdateWanted
    /\ UNCHANGED driver /\ (repeated' = "committed" <=> repeated = "committed") => Barred' = Barred
    /\ driver # "barrier" \/ repeated = "committed" => Barred = FALSE
<1>1. UNCHANGED <<driver, serverVad>> => UpdateWanted' = UpdateWanted
  BY DEF UpdateWanted
<1>2. UNCHANGED driver /\ (repeated' = "committed" <=> repeated = "committed") => Barred' = Barred
  BY DEF Barred
<1> QED
  BY <1>1, <1>2 DEF Barred

\* The wire at first.
LEMMA WireInit == RealtimeInit => WireInv
<1> SUFFICES ASSUME RealtimeInit PROVE WireInv
  OBVIOUS
<1> DEFINE m == Message("update", serverVad)
<1>1. /\ driver = "start" /\ ready = FALSE /\ finishing = FALSE /\ frames = 0 /\ finishAck = FALSE
      /\ serverVad \in BOOLEAN /\ vadOn = FALSE /\ cut = <<>> /\ answered = FALSE
      /\ toServer = <<m>> /\ toClient = <<>>
  BY DEF RealtimeInit
<1>2. m.type = "update" /\ m.vad = serverVad
  BY DEF Message
<1>3. m = UpdateWanted
  BY <1>1 DEF UpdateWanted
<1> HIDE DEF m
<1>4. toServer # <<>> /\ Len(toServer) = 1 /\ toServer[1] = m
  BY ONLY <1>1
<1>5. \A j \in 1..Len(toServer) : j = 1
  BY ONLY <1>4
<1>6. \A T : NoneOf(toClient, T)
  <2>1. Len(toClient) = 0
    BY <1>1
  <2> QED
    BY <2>1 DEF NoneOf
<1>7. LastOnly(toServer, "update") /\ LastOnly(toServer, "commit") /\ NoneOf(toServer, {"commit"})
  BY <1>2, <1>4, <1>5 DEF LastOnly, NoneOf
<1>8. VadsAllowed(toServer)
  BY <1>2, <1>4, <1>5 DEF VadsAllowed
<1>9. Updates
  BY <1>1, <1>3, <1>4, <1>6, <1>7 DEF Updates, UpdateOnItsWay
<1>10. FinishCommit
  BY <1>1, <1>6, <1>7, <1>8 DEF FinishCommit
<1>11. FinishAnswered /\ DoneSettled
  BY <1>1 DEF FinishAnswered, DoneSettled
<1> QED
  BY <1>9, <1>10, <1>11 DEF WireInv

\* The driver takes an event.
LEMMA WireReceive ==
    ASSUME RealtimeTypes, WireInv, Receive PROVE WireInv'
<1> DEFINE e == Head(toClient)
<1>1. /\ Idle /\ Waits /\ toClient # <<>> /\ toClient' = Tail(toClient)
      /\ UNCHANGED <<driver, serverVad, finishing, frames, toServer, vadOn, heard, cut, answered, repeated>>
      /\ ready \in BOOLEAN /\ finishAck \in BOOLEAN
  BY ReceiveDoes DEF serverVars, RealtimeTypes
<1>2. /\ ready' = (ready \/ e.type = "updated")
      /\ finishAck' = finishAck \/ (finishAck' = TRUE /\ finishing /\ e.type \in Replies)
      /\ \/ event' = event
         \/ event' = e /\ finishAck' = finishAck /\ e.type \in {"committed", "delta", "completed"}
  BY <1>1, ReceiveDoes DEF Replies
<1>3. event = Nothing /\ driver # "done"
  BY <1>1 DEF Idle, Waits
<1>4. /\ NoneOf(toClient, {"updated"}) => NoneOf(toClient', {"updated"}) /\ e.type # "updated"
      /\ NoneOf(toClient, {"empty"}) => NoneOf(toClient', {"empty"}) /\ e.type # "empty"
      /\ NoneOf(toClient, Replies) => NoneOf(toClient', Replies) /\ e.type \notin Replies
      /\ AtMostOne(toClient, Replies) =>
           /\ AtMostOne(toClient', Replies)
           /\ e.type \in Replies => NoneOf(toClient', Replies)
      /\ UpdatedOnce(toClient, Barred) =>
           IF e.type = "updated"
           THEN NoneOf(toClient', {"updated"}) /\ (Barred => NoneOf(toClient', Replies))
           ELSE UpdatedOnce(toClient', Barred)
  BY <1>1, ClientTaken, StillWanted
<1>5. UpdateWanted' = UpdateWanted /\ Barred' = Barred
  BY <1>1, StillWanted
<1> HIDE DEF e
<1>6. toServer = <<>> => NoneOf(toServer, {"update"})
  BY DEF NoneOf
<1>7. Updates'
  <2>1. driver \in {"start", "barrier"} /\ ~ready' => UpdateOnItsWay'
    BY <1>1, <1>2, <1>4, <1>5 DEF WireInv, Updates, UpdateOnItsWay
  <2>2. driver \in {"start", "barrier"} /\ ready' /\ ~ready =>
          /\ Quiet' /\ toServer = <<>> /\ (driver = "barrier" => ~vadOn)
          /\ Barred => NoneOf(toClient', Replies)
    BY <1>1, <1>2, <1>4, <1>6 DEF WireInv, Updates, UpdateOnItsWay, Quiet
  <2>3. Quiet => Quiet'
    BY <1>1, <1>4 DEF Quiet
  <2> QED
    BY <1>1, <1>4, <2>1, <2>2, <2>3 DEF WireInv, Updates, Barred
<1>8. FinishCommit'
  BY <1>1, <1>2, <1>4 DEF WireInv, FinishCommit, VadsAllowed
<1>9. FinishAnswered'
  BY <1>1, <1>2, <1>3, <1>4 DEF WireInv, FinishAnswered, EventIs, Replies
<1>10. DoneSettled'
  BY <1>1, <1>3 DEF DoneSettled
<1> QED
  BY <1>7, <1>8, <1>9, <1>10 DEF WireInv

\* It calls the sink, or finishes with an event.
LEMMA WireHandled ==
    ASSUME RealtimeTypes, CallsMatch, WireInv, DriverCalls \/ EventHandled PROVE WireInv'
<1>1. UNCHANGED <<driver, serverVad, ready, finishing, frames, toServer, toClient, vadOn, heard, cut, answered, repeated>>
  BY CallsDoNoMore, HandledDoes DEF serverVars
<1>2. Updates'
  BY <1>1 DEF WireInv, Updates, UpdateOnItsWay, UpdateWanted, Barred, Quiet
<1>3. CASE DriverCalls
  <2>1. UNCHANGED <<finishAck, event>> /\ calls # <<>>
    BY <1>3, CallsDoNoMore DEF SinkStep
  <2>2. FinishCommit' /\ FinishAnswered'
    BY <1>1, <2>1 DEF WireInv, FinishCommit, VadsAllowed, FinishAnswered, EventIs
  <2>3. DoneSettled'
    BY <1>1, <2>1 DEF WireInv, DoneSettled
  <2> QED
    BY <1>2, <2>2, <2>3 DEF WireInv
<1>4. CASE EventHandled
  <2>1. /\ event # Nothing /\ event' = Nothing
        /\ finishAck' => finishAck \/ (finishing /\ EventIs("committed"))
    <3>1. finishAck \in BOOLEAN /\ finishing \in BOOLEAN
      BY DEF RealtimeTypes
    <3>2. event # Nothing /\ event' = Nothing
      BY <1>4, HandledDoes
    <3>3. \/ event.type = "committed" /\ finishAck' = (finishAck \/ finishing)
          \/ finishAck' = finishAck
      BY <1>4, HandledDoes
    <3> QED
      BY ONLY <3>1, <3>2, <3>3 DEF EventIs
  <2>2. FinishCommit'
    BY <1>1, <2>1 DEF WireInv, FinishCommit, VadsAllowed
  <2>3. FinishAnswered'
    BY <1>1, <2>1 DEF WireInv, FinishAnswered, EventIs
  <2>4. DoneSettled'
    BY <1>1, <2>1 DEF CallsMatch, DoneSettled
  <2> QED
    BY <1>2, <2>2, <2>3, <2>4 DEF WireInv
<1> QED
  BY <1>3, <1>4

\* It gives up, the session settles, or nothing happens.
LEMMA WireIdle ==
    ASSUME RealtimeTypes, WireInv,
           \/ CheckFails \/ DriverFails \/ WorkerSettles \/ SessionSettles
           \/ UNCHANGED vars
    PROVE  WireInv'
<1>1. CASE CheckFails \/ DriverFails
  <2>1. /\ UNCHANGED <<serverVad, ready, finishing, frames, finishAck, toServer, toClient,
                       vadOn, heard, cut, answered, repeated>>
        /\ driver' = "failed" /\ event' = Nothing
    BY <1>1, GivingUpDoes DEF serverVars
  <2>2. Updates'
    BY <2>1 DEF WireInv, Updates, Quiet
  <2>3. FinishCommit'
    BY <2>1 DEF WireInv, FinishCommit, VadsAllowed
  <2>4. FinishAnswered' /\ DoneSettled'
    BY <2>1 DEF WireInv, FinishAnswered, EventIs, DoneSettled
  <2> QED
    BY <2>2, <2>3, <2>4 DEF WireInv
<1>2. CASE WorkerSettles \/ SessionSettles \/ UNCHANGED vars
  <2>1. UNCHANGED <<recordVars, calls, refused, driver, serverVad, ready, finishing, frames, finishAck,
                    event, toServer, toClient, vadOn, heard, cut, answered, repeated>>
    BY <1>2, SettlingDoes DEF vars, sinkVars, driverVars, protocolVars, recordVars, serverVars, wire
  <2>2. Updates'
    BY <2>1 DEF WireInv, Updates, UpdateOnItsWay, UpdateWanted, Barred, Quiet
  <2>3. FinishCommit'
    BY <2>1 DEF WireInv, FinishCommit, VadsAllowed
  <2>4. FinishAnswered'
    BY <2>1 DEF WireInv, FinishAnswered, EventIs
  <2>5. DoneSettled'
    BY <2>1 DEF WireInv, DoneSettled, FinishSettled, Committed, recordVars
  <2> QED
    BY <2>2, <2>3, <2>4, <2>5 DEF WireInv
<1> QED
  BY <1>1, <1>2

\* None is at most one.
LEMMA NoneIsAtMostOne == \A q, T : NoneOf(q, T) => AtMostOne(q, T)
BY DEF NoneOf, AtMostOne

\* Before it has finished, nothing on the wire asks for or is an answer.
LEMMA NotYetAnswered ==
    ASSUME WireInv, ~finishing
    PROVE  NoneOf(toServer, {"commit"}) /\ ~answered /\ NoneOf(toClient, {"empty"}) /\ finishAck # TRUE
BY DEF WireInv, FinishCommit

\* It moves on.
LEMMA WireMoves ==
    ASSUME RealtimeTypes, CommitsInOrder, WireInv, DriverMoves PROVE WireInv'
<1>1. /\ Idle
      /\ UNCHANGED <<recordVars, calls, refused, serverVad, event, toClient, vadOn, heard, cut, answered, repeated>>
  BY MovesDo DEF serverVars
<1>2. /\ toServer \in Seq(Messages) /\ frames \in Nat /\ finishing \in BOOLEAN /\ finishAck \in BOOLEAN
      /\ ready \in BOOLEAN
  BY DEF RealtimeTypes
<1>3. event = Nothing /\ calls = <<>> /\ ~refused
  BY <1>1 DEF Idle
<1>4. Updates /\ FinishCommit /\ FinishAnswered
  BY DEF WireInv
<1> DEFINE append == Message("append", FALSE)
           update == Message("update", FALSE)
           commit == Message("commit", FALSE)
<1>5. /\ append \in Messages /\ update \in Messages /\ commit \in Messages
      /\ append.type = "append" /\ update.type = "update" /\ commit.type = "commit"
      /\ ~append.vad /\ ~update.vad /\ ~commit.vad
  BY DEF Message, Messages
<1> HIDE DEF append, commit
<1>6. CASE driver = "start" /\ ready /\ driver' = "run" /\ UNCHANGED <<ready, finishing, frames, finishAck, toServer>>
  <2>1. Updates'
    BY <1>1, <1>4, <1>6 DEF Updates, Quiet
  <2>2. FinishCommit' /\ FinishAnswered' /\ DoneSettled'
    BY <1>1, <1>4, <1>6 DEF FinishCommit, VadsAllowed, FinishAnswered, EventIs, DoneSettled
  <2> QED
    BY <2>1, <2>2 DEF WireInv
<1>7. CASE /\ driver = "run" /\ driver' = "run" /\ frames' = frames + 1 /\ toServer' = Append(toServer, append)
           /\ UNCHANGED <<ready, finishing, finishAck>>
  <2>1. ~finishing
    BY <1>4, <1>7 DEF FinishCommit
  <2> DEFINE p == toServer'
  <2>2. /\ NoneOf(toServer, {"update"}) => NoneOf(p, {"update"})
        /\ NoneOf(toServer, {"commit"}) => NoneOf(p, {"commit"}) /\ LastOnly(p, "commit")
        /\ VadsAllowed(toServer) => VadsAllowed(p)
    BY <1>2, <1>5, <1>7, ServerGrown
  <2>3. Updates'
    BY <1>1, <1>4, <1>7, <2>1, <2>2 DEF Updates, Quiet
  <2>4. VadsAllowed(p) => VadsAllowed(toServer)'
    BY <1>1 DEF VadsAllowed
  <2>5. NoneOf(p, {"commit"}) /\ LastOnly(p, "commit") /\ VadsAllowed(toServer)' /\ ~answered
    BY <1>4, <2>1, <2>2, <2>4, NotYetAnswered DEF FinishCommit
  <2> HIDE DEF p
  <2>6. FinishCommit'
    BY <1>1, <1>4, <1>7, <2>1, <2>5 DEF FinishCommit, p
  <2>7. FinishAnswered' /\ DoneSettled'
    BY <1>1, <1>7, <2>1 DEF FinishAnswered, DoneSettled
  <2> QED
    BY <2>3, <2>6, <2>7 DEF WireInv
<1>8. CASE /\ driver = "run" /\ driver' = "barrier" /\ ready' = FALSE /\ toServer' = Append(toServer, update)
           /\ UNCHANGED <<finishing, frames, finishAck>>
  <2>1. ~finishing
    BY <1>4, <1>8 DEF FinishCommit
  <2>2. UpdateWanted' = update
    BY <1>8 DEF UpdateWanted
  <2> HIDE DEF update
  <2> DEFINE p == toServer'
  <2>3. /\ p # <<>> /\ p[Len(p)] = update
        /\ NoneOf(toServer, {"update"}) => LastOnly(p, "update")
        /\ NoneOf(toServer, {"commit"}) => NoneOf(p, {"commit"}) /\ LastOnly(p, "commit")
        /\ VadsAllowed(toServer) => VadsAllowed(p)
    BY <1>2, <1>5, <1>8, ServerGrown
  <2>4. Quiet
    BY <1>4, <1>8 DEF Updates
  <2>5. UpdateOnItsWay'
    BY <1>1, <2>2, <2>3, <2>4 DEF UpdateOnItsWay, Quiet
  <2>6. Updates'
    BY <1>1, <1>8, <2>1, <2>5 DEF Updates
  <2>7. VadsAllowed(p) => VadsAllowed(toServer)'
    BY <1>1 DEF VadsAllowed
  <2>8. NoneOf(p, {"commit"}) /\ LastOnly(p, "commit") /\ VadsAllowed(toServer)' /\ ~answered
    BY <1>4, <2>1, <2>3, <2>7, NotYetAnswered DEF FinishCommit
  <2> HIDE DEF p
  <2>9. FinishCommit'
    BY <1>1, <1>4, <1>8, <2>1, <2>8 DEF FinishCommit, p
  <2>10. FinishAnswered' /\ DoneSettled'
    BY <1>1, <1>8, <2>1 DEF FinishAnswered, DoneSettled
  <2> QED
    BY <2>6, <2>9, <2>10 DEF WireInv
<1>9. CASE /\ \/ driver = "run" /\ ~(serverVad /\ frames > 0)
              \/ driver = "barrier" /\ ready
           /\ driver' = "finish" /\ finishing' = TRUE
           /\ finishAck' = (finishAck \/ frames = 0)
           /\ toServer' = IF frames = 0 THEN toServer ELSE toServer \o <<append, commit>>
           /\ UNCHANGED <<ready, frames>>
  <2>1. ~finishing /\ Quiet
    BY <1>4, <1>9 DEF Updates, FinishCommit
  <2>2. NoneOf(toServer, {"commit"}) /\ ~answered /\ NoneOf(toClient, {"empty"}) /\ ~finishAck
    BY <1>2, <2>1, NotYetAnswered
  <2>3. CASE frames = 0
    <3>1. UNCHANGED <<toServer, frames>> /\ driver' = "finish" /\ finishing' = TRUE
      BY <1>9, <2>3
    <3>2. Updates'
      BY <1>1, <2>1, <2>3, <3>1 DEF Updates, Quiet
    <3>3. FinishCommit'
      BY <1>1, <1>4, <2>2, <2>3, <3>1 DEF FinishCommit, VadsAllowed
    <3>4. FinishAnswered' /\ DoneSettled'
      BY <2>3, <3>1 DEF FinishAnswered, DoneSettled
    <3> QED
      BY <3>2, <3>3, <3>4 DEF WireInv
  <2>4. CASE frames # 0
    <3>1. /\ frames > 0 /\ frames' = frames /\ driver' = "finish" /\ finishing' = TRUE /\ ~finishAck'
          /\ toServer' = toServer \o <<append, commit>>
      <4>1. frames > 0
        BY <1>2, <2>4
      <4> QED
        BY <1>9, <2>2, <2>4, <4>1
    <3> DEFINE q == Append(toServer, append)
               p == toServer'
    <3>2. p = Append(q, commit)
      BY ONLY <1>2, <1>5, <3>1
    <3>3. /\ q \in Seq(Messages)
          /\ NoneOf(toServer, {"update"}) => NoneOf(q, {"update"})
          /\ NoneOf(toServer, {"commit"}) => NoneOf(q, {"commit"})
          /\ VadsAllowed(toServer) => VadsAllowed(q)
      BY <1>2, <1>5, ServerGrown
    <3> HIDE DEF p, q
    <3>4. /\ NoneOf(q, {"update"}) => NoneOf(p, {"update"})
          /\ NoneOf(q, {"commit"}) => LastOnly(p, "commit")
          /\ VadsAllowed(q) => VadsAllowed(p)
      BY <1>5, <3>2, <3>3, ServerGrown
    <3>5. VadsAllowed(p) => VadsAllowed(toServer)'
      BY <1>1 DEF VadsAllowed, p
    <3>6. LastOnly(p, "commit") /\ NoneOf(p, {"update"}) /\ VadsAllowed(toServer)'
      BY <1>4, <2>1, <2>2, <3>3, <3>4, <3>5 DEF Quiet, FinishCommit
    <3>7. ~vadOn
      BY <1>4, <1>9, <3>1 DEF Updates, FinishCommit
    <3>8. repeated # "committed" => NoneOf(toClient, Replies)
      <4>1. CASE driver = "barrier" /\ ready
        BY <1>4, <4>1 DEF Updates
      <4>2. CASE driver = "run" /\ ~serverVad
        <5>1. cut = <<>>
          BY <1>4, <2>2, <4>2 DEF FinishCommit
        <5>2. NoStranger(toClient, cut)
          BY <1>3 DEF CommitsInOrder, Announced
        <5>3. Len(cut) = 0
          BY <5>1
        <5>4. \A j \in 1..Len(toClient) : toClient[j].type # "committed"
          BY <5>2, <5>3 DEF NoStranger
        <5> QED
          BY <2>2, <5>4 DEF NoneOf, Replies
      <4> QED
        BY <1>9, <3>1, <4>1, <4>2
    <3>9. Updates'
      BY <1>1, <2>1, <3>1, <3>6, <3>7 DEF Updates, Quiet, p
    <3>10. FinishCommit'
      BY <1>1, <1>4, <2>2, <3>1, <3>6 DEF FinishCommit, p
    <3>11. FinishAnswered'
      BY <1>1, <1>3, <2>2, <3>1, <3>8, NoneIsAtMostOne DEF FinishAnswered, EventIs
    <3>12. DoneSettled'
      BY <3>1 DEF DoneSettled
    <3> QED
      BY <3>9, <3>10, <3>11, <3>12 DEF WireInv
  <2> QED
    BY <2>3, <2>4
<1>10. CASE /\ driver = "finish" /\ FinishSettled /\ driver' = "done"
            /\ UNCHANGED <<ready, finishing, frames, finishAck, toServer>>
  <2>1. Updates'
    BY <1>1, <1>4, <1>10 DEF Updates, Quiet
  <2>2. FinishCommit' /\ FinishAnswered'
    BY <1>1, <1>4, <1>10 DEF FinishCommit, VadsAllowed, FinishAnswered, EventIs
  <2>3. DoneSettled'
    BY <1>1, <1>3, <1>10 DEF DoneSettled, FinishSettled, Committed, recordVars
  <2> QED
    BY <2>1, <2>2, <2>3 DEF WireInv
<1> QED
  BY <1>6, <1>7, <1>8, <1>9, <1>10, MovesDo DEF append, commit

\* An empty wire has nothing on it.
LEMMA NoneOfNothing == \A T : NoneOf(<<>>, T)
BY DEF NoneOf

\* The server reads.
LEMMA WireReads ==
    ASSUME RealtimeTypes, WireInv, ServerNext, toServer # <<>>, toServer' = Tail(toServer) PROVE WireInv'
<1> DEFINE m == Head(toServer)
<1>1. UNCHANGED <<recordVars, calls, refused, driver, serverVad, ready, finishing, frames, finishAck, event>>
  BY ServerDoes
<1>2. Updates /\ FinishCommit /\ FinishAnswered /\ DoneSettled
  BY DEF WireInv
<1>3. DoneSettled'
  BY <1>1, <1>2 DEF DoneSettled, FinishSettled, Committed, recordVars
<1>4. UpdateWanted' = UpdateWanted /\ (repeated' = repeated => Barred' = Barred)
  BY <1>1, StillWanted
<1>5. ~answered
  BY <1>2 DEF FinishCommit
<1>6. /\ NoneOf(toServer, {"update"}) => NoneOf(toServer', {"update"}) /\ m.type # "update"
      /\ NoneOf(toServer, {"commit"}) => NoneOf(toServer', {"commit"}) /\ m.type # "commit"
      /\ LastOnly(toServer', "commit") /\ (m.type = "commit" => toServer' = <<>>)
      /\ LastOnly(toServer, "update") =>
           /\ LastOnly(toServer', "update")
           /\ m.type = "update" => toServer' = <<>> /\ toServer[Len(toServer)] = m
      /\ toServer[Len(toServer)].type # m.type =>
           toServer' # <<>> /\ toServer'[Len(toServer')] = toServer[Len(toServer)]
      /\ VadsAllowed(toServer') /\ (m.type = "update" /\ m.vad => serverVad)
  BY <1>2, ServerTaken DEF FinishCommit
<1>60. VadsAllowed(toServer)'
  BY <1>1, <1>6 DEF VadsAllowed
<1>7. UpdateWanted.type = "update" /\ (UpdateWanted.vad <=> driver = "start" /\ serverVad)
  BY DEF UpdateWanted, Message
<1>8. \/ /\ m.type = "update" /\ vadOn' = m.vad /\ UNCHANGED <<heard, cut, answered, repeated>>
         /\ \E e : ServerSays(e) /\ e.type = "updated"
      \/ m.type = "append" /\ UNCHANGED <<vadOn, cut, answered, repeated, toClient>> /\ heard' = TRUE
      \/ /\ m.type = "commit" /\ answered' = TRUE /\ heard' = FALSE /\ UNCHANGED <<vadOn, repeated>>
         /\ \E e : ServerSays(e) /\ e.type \in {"committed", "empty", "failed"}
  <2>1. toServer' # toServer
    <3>1. toServer \in Seq(Messages)
      BY DEF RealtimeTypes
    <3>2. Len(toServer') = Len(toServer) - 1 /\ Len(toServer) \in Nat
      BY <3>1, TailIs
    <3>3. Len(toServer') # Len(toServer)
      BY ONLY <3>2
    <3> QED
      BY ONLY <3>3
  <2> QED
    BY <2>1, ServerDoes
<1> HIDE DEF m
<1>9. CASE m.type = "update"
  <2>1. vadOn' = m.vad /\ UNCHANGED <<heard, cut, answered, repeated>>
    BY <1>8, <1>9
  <2>2. PICK e : ServerSays(e) /\ e.type = "updated"
    BY <1>8, <1>9
  <2>3. ~NoneOf(toServer, {"update"})
    BY <1>6, <1>9
  <2>4. ~Quiet /\ (driver = "failed" \/ (driver \in {"start", "barrier"} /\ ~ready))
    <3>1. ~Quiet
      BY <2>3 DEF Quiet
    <3>2. driver \in {"start", "run", "barrier", "finish", "done", "failed"}
      BY DEF RealtimeTypes
    <3> QED
      BY <1>2, <3>1, <3>2 DEF Updates
  <2>5. ~(finishing /\ frames > 0)
    BY <1>2, <2>4 DEF Updates
  <2>6. /\ NoneOf(toClient, {"updated"}) => \A b \in BOOLEAN : UpdatedOnce(toClient', b)
        /\ NoneOf(toClient, {"empty"}) => NoneOf(toClient', {"empty"})
    BY <2>2, ClientGrown
  <2>7. driver \in {"start", "barrier"} /\ ~ready => UpdateOnItsWay'
    <3> SUFFICES ASSUME driver \in {"start", "barrier"}, ~ready PROVE UpdateOnItsWay'
      OBVIOUS
    <3>1. /\ toServer[Len(toServer)] = UpdateWanted /\ LastOnly(toServer, "update")
          /\ NoneOf(toClient, {"updated"})
      BY <1>2 DEF Updates, UpdateOnItsWay
    <3>2. toServer' = <<>> /\ m = UpdateWanted
      BY <1>6, <1>9, <3>1
    <3>3. driver = "barrier" => ~vadOn'
      BY <1>7, <2>1, <3>2
    <3>4. UpdatedOnce(toClient', Barred')
      BY <2>1, <2>6, <3>1, <1>4, StillWanted
    <3> QED
      BY <1>1, <3>2, <3>3, <3>4 DEF UpdateOnItsWay
  <2>8. Updates'
    BY <1>1, <2>4, <2>5, <2>7 DEF Updates
  <2>9. FinishCommit'
    <3>1. vadOn' => serverVad
      BY <1>6, <1>9, <2>1
    <3> QED
      BY <1>1, <1>2, <1>5, <1>6, <1>60, <2>1, <2>6, <3>1 DEF FinishCommit
  <2>10. FinishAnswered'
    BY <1>1, <2>5 DEF FinishAnswered
  <2> QED
    BY <1>3, <2>8, <2>9, <2>10 DEF WireInv
<1>10. CASE m.type = "append"
  <2>1. UNCHANGED <<vadOn, cut, answered, repeated, toClient>>
    BY <1>8, <1>10
  <2>2. UpdateOnItsWay => UpdateOnItsWay'
    BY <1>1, <1>4, <1>6, <1>7, <1>10, <2>1 DEF UpdateOnItsWay
  <2>3. Quiet => Quiet'
    BY <1>6, <2>1 DEF Quiet
  <2>4. Updates'
    BY <1>1, <1>2, <2>1, <2>2, <2>3 DEF Updates
  <2>5. FinishCommit'
    BY <1>1, <1>2, <1>5, <1>6, <1>60, <2>1 DEF FinishCommit
  <2>6. FinishAnswered'
    BY <1>1, <1>2, <2>1 DEF FinishAnswered, EventIs
  <2> QED
    BY <1>3, <2>4, <2>5, <2>6 DEF WireInv
<1>11. CASE m.type = "commit"
  <2>1. answered' = TRUE /\ heard' = FALSE /\ UNCHANGED <<vadOn, repeated>>
    BY <1>8, <1>11
  <2>2. PICK e : ServerSays(e) /\ e.type \in {"committed", "empty", "failed"}
    BY <1>8, <1>11
  <2>3. finishing /\ frames > 0 /\ toServer' = <<>> /\ driver \in {"finish", "done", "failed"}
    BY <1>2, <1>6, <1>11 DEF FinishCommit
  <2>4. /\ NoneOf(toClient, {"updated"}) => NoneOf(toClient', {"updated"})
        /\ NoneOf(toClient, Replies) => AtMostOne(toClient', Replies)
    BY <2>2, ClientGrown
  <2>5. NoneOf(toServer', {"update"}) /\ NoneOf(toServer', {"commit"})
    BY <2>3, NoneOfNothing
  <2>6. Updates'
    BY <1>1, <1>2, <2>1, <2>3, <2>4, <2>5 DEF Updates, Quiet
  <2>7. FinishCommit'
    BY <1>1, <1>2, <1>6, <1>60, <2>1, <2>3, <2>5 DEF FinishCommit
  <2>8. FinishAnswered'
    BY <1>1, <1>2, <1>5, <2>1, <2>3, <2>4 DEF FinishAnswered, EventIs
  <2> QED
    BY <1>3, <2>6, <2>7, <2>8 DEF WireInv
<1> QED
  BY <1>8, <1>9, <1>10, <1>11

\* The server speaks of its own accord.
LEMMA WireSays ==
    ASSUME RealtimeTypes, WireInv, ServerNext, toServer' = toServer PROVE WireInv'
<1>1. UNCHANGED <<recordVars, calls, refused, driver, serverVad, ready, finishing, frames, finishAck, event>>
  BY ServerDoes
<1>2. Updates /\ FinishCommit /\ FinishAnswered /\ DoneSettled
  BY DEF WireInv
<1>3. DoneSettled'
  BY <1>1, <1>2 DEF DoneSettled, FinishSettled, Committed, recordVars
<1>4. UpdateWanted' = UpdateWanted
  BY <1>1, StillWanted
<1>5. /\ UNCHANGED <<vadOn, answered>>
      /\ \E e : /\ ServerSays(e) /\ e.type \in {"committed", "delta", "completed"}
               /\ \/ vadOn /\ repeated' = repeated /\ e.type = "committed"
                  \/ /\ UNCHANGED <<cut, heard>> /\ (repeated' = "committed" <=> repeated = "committed")
                     /\ e.type # "committed"
                  \/ UNCHANGED <<cut, heard>> /\ repeated' = "committed"
  <2>1. toServer # <<>> => toServer # Tail(toServer)
    <3>1. toServer \in Seq(Messages)
      BY DEF RealtimeTypes
    <3>2. toServer # <<>> => Len(Tail(toServer)) = Len(toServer) - 1 /\ Len(toServer) \in Nat
      BY <3>1, TailIs
    <3> QED
      BY <3>2
  <2> QED
    BY <2>1, ServerDoes
<1>6. VadsAllowed(toServer)'
  BY <1>1, <1>2 DEF FinishCommit, VadsAllowed
<1>7. PICK e : /\ ServerSays(e) /\ e.type \in {"committed", "delta", "completed"}
               /\ \/ vadOn /\ repeated' = repeated /\ e.type = "committed"
                  \/ /\ UNCHANGED <<cut, heard>> /\ (repeated' = "committed" <=> repeated = "committed")
                     /\ e.type # "committed"
                  \/ UNCHANGED <<cut, heard>> /\ repeated' = "committed"
  BY <1>5
<1>8. /\ NoneOf(toClient, {"updated"}) => NoneOf(toClient', {"updated"})
      /\ NoneOf(toClient, {"empty"}) => NoneOf(toClient', {"empty"})
      /\ NoneOf(toClient, Replies) /\ e.type # "committed" => NoneOf(toClient', Replies)
      /\ AtMostOne(toClient, Replies) /\ e.type # "committed" => AtMostOne(toClient', Replies)
      /\ \A b \in BOOLEAN : UpdatedOnce(toClient, b) /\ (b => e.type # "committed") => UpdatedOnce(toClient', b)
  BY <1>7, ClientGrown DEF Replies
<1>9. Quiet => Quiet'
  BY <1>8 DEF Quiet
<1>10. CASE vadOn /\ repeated' = repeated /\ e.type = "committed"
  <2>1. ~(finishing /\ frames > 0) /\ ~(driver = "barrier" /\ ready)
    BY <1>2, <1>10 DEF Updates
  <2>2. ~answered /\ serverVad
    BY <1>2, <1>10, <2>1 DEF FinishCommit
  <2>3. UpdateOnItsWay => UpdateOnItsWay'
    <3>1. CASE driver = "barrier"
      BY <1>1, <1>4, <1>5, <1>8, <1>10, <3>1 DEF UpdateOnItsWay
    <3>2. CASE driver # "barrier"
      <4>1. Barred = FALSE /\ Barred' = FALSE
        BY <1>1, <3>2 DEF Barred
      <4> QED
        BY <1>1, <1>4, <1>5, <1>8, <3>2, <4>1 DEF UpdateOnItsWay
    <3> QED
      BY <3>1, <3>2
  <2>4. Updates'
    BY <1>1, <1>2, <1>5, <1>9, <2>1, <2>3 DEF Updates
  <2>5. FinishCommit'
    BY <1>1, <1>2, <1>5, <1>6, <1>8, <2>2 DEF FinishCommit
  <2>6. FinishAnswered'
    BY <1>1, <2>1 DEF FinishAnswered
  <2> QED
    BY <1>3, <2>4, <2>5, <2>6 DEF WireInv
<1>11. CASE /\ UNCHANGED <<cut, heard>> /\ (repeated' = "committed" <=> repeated = "committed")
            /\ e.type # "committed"
  <2>1. Barred' = Barred /\ Barred \in BOOLEAN
    BY <1>1, <1>11, StillWanted
  <2>2. UpdateOnItsWay => UpdateOnItsWay'
    BY <1>1, <1>4, <1>5, <1>8, <1>11, <2>1 DEF UpdateOnItsWay
  <2>3. Updates'
    BY <1>1, <1>2, <1>5, <1>8, <1>9, <1>11, <2>2 DEF Updates
  <2>4. FinishCommit'
    BY <1>1, <1>2, <1>5, <1>6, <1>8, <1>11 DEF FinishCommit
  <2>5. FinishAnswered'
    BY <1>1, <1>2, <1>5, <1>8, <1>11 DEF FinishAnswered, EventIs
  <2> QED
    BY <1>3, <2>3, <2>4, <2>5 DEF WireInv
<1>12. CASE UNCHANGED <<cut, heard>> /\ repeated' = "committed"
  <2>1. Barred' = FALSE /\ Barred \in BOOLEAN
    BY <1>12, StillWanted DEF Barred
  <2>2. UpdatedOnce(toClient, Barred) => UpdatedOnce(toClient, FALSE)
    BY DEF UpdatedOnce
  <2>3. UpdateOnItsWay => UpdateOnItsWay'
    BY <1>1, <1>4, <1>5, <1>8, <2>1, <2>2 DEF UpdateOnItsWay
  <2>4. Updates'
    BY <1>1, <1>2, <1>5, <1>9, <1>12, <2>3 DEF Updates
  <2>5. FinishCommit'
    BY <1>1, <1>2, <1>5, <1>6, <1>8, <1>12 DEF FinishCommit
  <2>6. FinishAnswered'
    BY <1>12 DEF FinishAnswered
  <2> QED
    BY <1>3, <2>4, <2>5, <2>6 DEF WireInv
<1> QED
  BY <1>7, <1>10, <1>11, <1>12

\* Every step keeps what is said of the wire.
LEMMA WireStep ==
    ASSUME RealtimeTypes, CommitsInOrder, CallsMatch, WireInv, [RealtimeNext]_vars PROVE WireInv'
<1>1. CASE ServerNext
  <2>1. toServer' = toServer \/ (toServer # <<>> /\ toServer' = Tail(toServer))
    BY <1>1, ServerDoes
  <2> QED
    BY <1>1, <2>1, WireReads, WireSays
<1> QED
  BY <1>1, StepKinds, WireReceive, WireHandled, WireMoves, WireIdle

\* The invariant holds at first.
LEMMA RealtimeInvInit == RealtimeInit => RealtimeInv
<1> SUFFICES ASSUME RealtimeInit PROVE RealtimeInv
  OBVIOUS
<1>1. Init /\ calls = <<>> /\ refused = FALSE
  BY DEF RealtimeInit, SinkInit
<1>2. StoreInv /\ BudgetInv
  BY <1>1, InitStore, InitBudget
<1>3. SinkInv
  BY SinkStarts DEF RealtimeInit
<1>4. RealtimeTypes /\ RecordInv /\ WireInv
  BY TypesInit, RecordInit, WireInit
<1> QED
  BY <1>2, <1>3, <1>4 DEF RealtimeInv

\* Every step keeps it.
LEMMA RealtimeInvStep ==
    ASSUME RealtimeInv, [RealtimeNext]_vars PROVE RealtimeInv'
<1>1. /\ StoreInv /\ BudgetInv /\ SinkInv /\ RealtimeTypes /\ WireInv
      /\ ItemsAsCut /\ CommitsInOrder /\ CallsMatch /\ Agreement
  BY DEF RealtimeInv, RecordInv
<1>2. StoreInv' /\ BudgetInv' /\ SinkInv'
  BY <1>1, StoreSinkStep
<1>3. RealtimeTypes'
  BY <1>1, TypesStep
<1>4. ItemsAsCut'
  BY <1>1, ItemsStep
<1>5. CommitsInOrder'
  BY <1>1, CommitsStep
<1>6. CallsMatch'
  BY <1>1, CallsStep
<1>7. Agreement'
  BY <1>1, <1>2, <1>3, <1>4, <1>6, AgreementStep
<1>8. WireInv'
  BY <1>1, WireStep
<1> QED
  BY <1>2, <1>3, <1>4, <1>5, <1>6, <1>7, <1>8 DEF RealtimeInv, RecordInv

\* The invariant of the driver, the server, the wire and the store holds.
THEOREM RealtimeInvariantHolds == RealtimeSpec => []RealtimeInv
<1>1. RealtimeInv /\ [RealtimeNext]_vars => RealtimeInv'
  BY RealtimeInvStep
<1> QED
  BY <1>1, RealtimeInvInit, PTL DEF RealtimeSpec

\* What the preflight promised still holds when the processed text gets to the store.
THEOREM PreflightIsKept == RealtimeSpec => []PreflightHolds
<1>1. RealtimeInv => PreflightHolds
  BY DEF RealtimeInv, SinkInv
<1> QED
  BY <1>1, RealtimeInvariantHolds, PTL

\* Between two events the driver's record and the store's agree.
THEOREM RecordsAgree == RealtimeSpec => []DriverAgreesWithStore
<1>1. RealtimeInv => DriverAgreesWithStore
  <2> SUFFICES ASSUME RealtimeInv, Idle, outcome = "none"
               PROVE  /\ \A id \in completedItems :
                           completed[id] = IF id \in Committed THEN items[id] ELSE Unindexed
                      /\ \A id \in Ids : completed[id] # Open => id \in completedItems
                      /\ \A id \in Ids : HasPartial(id) => id \in openDeltas
                      /\ openDeltas \cap completedItems = {}
    BY DEF DriverAgreesWithStore
  <2>1. Agreement /\ CallsMatch /\ completedItems \subseteq Ids
    BY DEF RealtimeInv, RecordInv, RealtimeTypes
  <2>2. ~EventIs("committed") /\ ~EventIs("completed") /\ ~EventIs("delta") /\ ~refused
    BY DEF Idle, EventIs
  <2>3. openDeltas \cap completedItems = {}
    BY <2>1 DEF CallsMatch
  <2> QED
    BY <2>1, <2>2, <2>3 DEF Agreement, Noting, FinalOf, Committed
<1> QED
  BY <1>1, RealtimeInvariantHolds, PTL

\* The place of a segment among the items that are cut is its index.
LEMMA PlaceOfSegment ==
    ASSUME RealtimeInv, NEW s \in TranscriptSet \cup pending
    PROVE  /\ s.index \in Nat /\ s.id \in Ids /\ completed[s.id] = s.index
           /\ s.index + 1 \in DOMAIN cut /\ cut[s.index + 1] = s.id /\ Place(s.id) = s.index + 1
<1>1. /\ transcript \in Seq(Segment) /\ pending \subseteq Segment /\ FinalsHome
      /\ RealtimeTypes /\ CutAsSpoken /\ StoredAsCut
  BY DEF RealtimeInv, RecordInv, ItemsAsCut, StoreInv, StoreTypes, FinalsInPlace
<1>2. s \in Segment
  <2>1. \A k \in DOMAIN transcript : transcript[k] \in Segment
    BY <1>1, LenProperties, ElementOfSeq
  <2> QED
    BY <1>1, <2>1 DEF TranscriptSet
<1>3. s.index \in Nat /\ s.id \in Ids
  BY <1>2 DEF Segment
<1>4. completed[s.id] = s.index
  BY <1>1 DEF FinalsHome
<1>5. Distinct(cut) /\ DOMAIN cut = 1..Len(cut)
  BY <1>1, CutDistinct, LenProperties DEF RealtimeTypes
<1> DEFINE k == s.index + 1
<1>6. k \in DOMAIN cut /\ cut[k] = s.id
  BY <1>1, <1>3, <1>4, <1>5 DEF StoredAsCut
<1> HIDE DEF k
<1>7. \A j \in DOMAIN cut : cut[j] = s.id => j = k
  BY <1>5, <1>6 DEF Distinct
<1>8. Place(s.id) = k
  BY <1>6, <1>7 DEF Place
<1> QED
  BY <1>3, <1>4, <1>6, <1>8 DEF k

\* Segments are in the order in which the server cut the audio.
THEOREM SegmentsAreAsSpoken == RealtimeSpec => []TranscriptAsSpoken
<1>1. ASSUME RealtimeInv PROVE TranscriptAsSpoken
  <2>1. \A s \in TranscriptSet \cup pending : s.id \in {cut[k] : k \in DOMAIN cut}
    BY <1>1, PlaceOfSegment
  <2>2. ASSUME NEW j \in DOMAIN transcript, NEW k \in DOMAIN transcript, j < k
        PROVE  Place(transcript[j].id) < Place(transcript[k].id)
    <3>1. transcript[j].index < transcript[k].index
      BY <1>1, <2>2 DEF RealtimeInv, StoreInv, FinalsInPlace, TranscriptOrdered
    <3>2. transcript[j] \in TranscriptSet \cup pending /\ transcript[k] \in TranscriptSet \cup pending
      BY DEF TranscriptSet
    <3>3. /\ transcript[j].index \in Nat /\ Place(transcript[j].id) = transcript[j].index + 1
          /\ transcript[k].index \in Nat /\ Place(transcript[k].id) = transcript[k].index + 1
      BY <1>1, <3>2, PlaceOfSegment
    <3> QED
      BY ONLY <3>1, <3>3
  <2> QED
    BY <2>1, <2>2 DEF TranscriptAsSpoken
<1> QED
  BY <1>1, RealtimeInvariantHolds, PTL

\* A driver that is done has every final in its place in the store.
LEMMA DoneLosesNothing ==
    ASSUME RealtimeInv, driver = "done", outcome = "none"
    PROVE  pending = {} /\ unindexed = {} /\ \A id \in Ids : ~HasPartial(id)
<1>1. /\ UnindexedHome /\ FinalsHome /\ StoreTypes /\ RealtimeTypes /\ Numbered /\ CallsMatch /\ Agreement
      /\ DoneSettled
  BY DEF RealtimeInv, RecordInv, WireInv, ItemsAsCut, StoreInv, FinalsInPlace
<1>2. Committed = completedItems /\ openDeltas = {} /\ ~refused /\ event = Nothing
  BY <1>1 DEF DoneSettled, FinishSettled, CallsMatch
<1>3. \A id : ~Noting("committed", id) /\ ~Noting("completed", id) /\ ~EventIs("delta")
  BY <1>2 DEF Noting, EventIs
<1>4. \A id \in Ids : items[id] # Open => completed[id] = items[id]
  BY <1>1, <1>2, <1>3 DEF Agreement, FinalOf, Committed
<1>5. \A id \in Ids : completed[id] # Open => items[id] # Open /\ completed[id] = items[id]
  BY <1>1, <1>2, <1>3, <1>4 DEF Agreement, Committed
<1>6. /\ items \in [Ids -> Nat \cup {Open}] /\ index \in Nat /\ nextSegment \in Nat
      /\ pending \subseteq Segment /\ \A u \in unindexed : u.id \in Ids
  BY <1>1 DEF RealtimeTypes, StoreTypes
<1>7. \A id \in Ids : ~HasPartial(id)
  BY <1>1, <1>2, <1>3 DEF Agreement
<1>8. unindexed = {}
  <2> SUFFICES ASSUME NEW u \in unindexed PROVE FALSE
    OBVIOUS
  <2>1. u.id \in Ids /\ completed[u.id] = Unindexed
    BY <1>1, <1>6 DEF UnindexedHome
  <2>2. items[u.id] \in Nat /\ completed[u.id] = items[u.id]
    BY <1>5, <1>6, <2>1, MarksAssumption
  <2> QED
    BY <2>1, <2>2, MarksAssumption
<1>9. pending = {}
  <2> SUFFICES ASSUME NEW s \in pending PROVE FALSE
    OBVIOUS
  <2>1. s.id \in Ids /\ s.index \in Nat /\ completed[s.id] = s.index /\ s.index > nextSegment
    BY <1>1, <1>6 DEF FinalsHome, Segment
  <2>2. items[s.id] # Open /\ items[s.id] = s.index
    BY <1>5, <2>1, MarksAssumption
  <2>3. s.index + 1 \in 1..index
    BY <1>1, <2>1, <2>2 DEF Numbered
  <2> DEFINE k == nextSegment + 1
  <2>4. k \in 1..index /\ k - 1 = nextSegment
    BY ONLY <1>6, <2>1, <2>3
  <2> HIDE DEF k
  <2>5. items[cut[k]] = nextSegment
    BY <1>1, <2>4 DEF Numbered
  <2>6. cut[k] \in Ids
    <3>1. k \in 1..Len(cut)
      <4>1. index <= Len(cut) /\ Len(cut) \in Nat
        BY <1>1, LenProperties DEF Numbered, RealtimeTypes
      <4> QED
        BY ONLY <1>6, <2>4, <4>1
    <3> QED
      BY <1>1, <3>1, ElementOfSeq DEF RealtimeTypes
  <2>7. completed[cut[k]] = nextSegment
    BY <1>4, <1>6, <2>5, <2>6, MarksAssumption
  <2>8. ~\E r \in pending : r.id = cut[k]
    BY <1>1, <1>6, <2>7 DEF FinalsHome, Segment
  <2>9. nextSegment < nextSegment
    BY <1>1, <1>6, <2>6, <2>7, <2>8 DEF FinalsHome
  <2> QED
    BY <1>6, <2>9
<1> QED
  BY <1>7, <1>8, <1>9

\* It has heard of every item the server has cut.
LEMMA DoneHasHeard ==
    ASSUME RealtimeInv, driver = "done", repeated # "committed", frames > 0
    PROVE  /\ answered /\ ~heard /\ toServer = <<>>
           /\ \A k \in DOMAIN cut : cut[k] \in completedItems
<1>1. /\ RealtimeTypes /\ Numbered /\ CommitsInOrder /\ CallsMatch /\ FinishCommit /\ FinishAnswered
      /\ DoneSettled
  BY DEF RealtimeInv, RecordInv, WireInv, ItemsAsCut
<1>2. Committed = completedItems /\ finishAck /\ ~refused /\ event = Nothing
  BY <1>1 DEF DoneSettled, FinishSettled, CallsMatch
<1>3. finishing
  BY <1>1, <1>2 DEF FinishCommit
<1>4. answered /\ NoneOf(toClient, Replies)
  BY <1>1, <1>2, <1>3 DEF FinishAnswered
<1>5. ~heard /\ toServer = <<>>
  BY <1>1, <1>4 DEF FinishCommit
<1>6. \A j \in 1..Len(toClient) : toClient[j].type # "committed"
  BY <1>4 DEF NoneOf, Replies
<1>7. EachAnnounced(toClient, cut, index + 1)
  BY <1>1, <1>2 DEF CommitsInOrder, NextItem, Announced, EventIs
<1>8. /\ index \in Nat /\ Len(cut) \in Nat /\ DOMAIN cut = 1..Len(cut)
      /\ \A k \in 1..Len(cut) : cut[k] \in Ids
      /\ items \in [Ids -> Nat \cup {Open}]
  BY <1>1, LenProperties, ElementOfSeq DEF RealtimeTypes
<1> DEFINE n == index + 1
<1>9. \A k \in n..Len(cut) : FALSE
  BY <1>6, <1>7 DEF EachAnnounced, Announces
<1>10. \A k \in 1..Len(cut) : k \in n..Len(cut) \/ k \in 1..index
  BY ONLY <1>8
<1>11. \A k \in 1..Len(cut) : items[cut[k]] = k - 1
  BY <1>1, <1>9, <1>10 DEF Numbered
<1>12. \A k \in 1..Len(cut) : k - 1 \in Nat
  BY ONLY <1>8
<1>13. \A k \in 1..Len(cut) : cut[k] \in Committed
  BY <1>8, <1>11, <1>12, MarksAssumption DEF Committed
<1> QED
  BY <1>2, <1>4, <1>5, <1>8, <1>13

\* A finish that returns has lost nothing, and unless an announcement was repeated it has
\* heard everything.
THEOREM FinishHasEverything == RealtimeSpec => []FinishIsComplete
<1>1. ASSUME RealtimeInv PROVE FinishIsComplete
  BY <1>1, DoneLosesNothing, DoneHasHeard DEF FinishIsComplete, NothingIsLost, AllHeard
<1> QED
  BY <1>1, RealtimeInvariantHolds, PTL

===============================================================================
