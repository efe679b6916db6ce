-------------------------- MODULE MonitoringProofs --------------------------
(***************************************************************************)
(* Proofs about Monitoring: the AF client and the tracker's follow, for    *)
(* any UEs, locations, notifications, and any number of starts, crashes    *)
(* and removals of the file.                                               *)
(***************************************************************************)
EXTENDS Monitoring, WellFoundedInduction, TLAPS

-----------------------------------------------------------------------------
(* Facts about sequences and numbers                                        *)

\* A set of natural numbers has a least one.
LEMMA LeastNatural ==
    ASSUME NEW S, S \subseteq Nat, S # {}
    PROVE  \E x \in S : \A y \in S : x <= y
<1> DEFINE R == OpToRel(<, Nat)
<1>1. IsWellFoundedOn(R, Nat)
  BY NatLessThanWellFounded
<1>2. \A x, y \in Nat : ~(<<y, x>> \in R) => x <= y
  BY DEF OpToRel
<1> HIDE DEF R
<1>3. \E x \in S : \A y \in S : ~(<<y, x>> \in R)
  BY <1>1, WFMin
<1> QED BY <1>2, <1>3

-----------------------------------------------------------------------------
(* Subscriptions                                                            *)

Subs == [start : Nat, type : STRING, url : BOOLEAN]

SubsType ==
    /\ phase \in {"down", "subscribing", "serving", "stopping"}
    /\ starts \in Nat
    /\ mine \in Seq(Subs)
    /\ phase = "subscribing" => todo \in Seq(STRING)
    /\ phase = "stopping" => todo \in Seq(Subs)

\* A subscription at the NEF that nothing excuses is one the AF still knows:
\* it is in _subscriptions, and once lifespan goes on after its yield, among
\* those the loop has yet to remove.  One whose name is no URL, which
\* unsubscribe passes over, is excused from the start.
KnownInv ==
    /\ phase = "down" => subs \subseteq excused /\ mine = <<>>
    /\ phase \in {"subscribing", "serving"} => \A s \in subs : s \in excused \/ Contains(mine, s)
    /\ phase = "stopping" => \A s \in subs : s \in excused \/ Contains(todo, s)
    /\ \A i \in DOMAIN mine : mine[i].url \/ mine[i] \in excused
    /\ phase = "stopping" => \A i \in DOMAIN todo : todo[i].url \/ todo[i] \in excused

SubsInv == SubsType /\ KnownInv

\* Appending keeps what a sequence contains and adds the element.
LEMMA ContainsAppend ==
    ASSUME NEW S, NEW q \in Seq(S), NEW x \in S
    PROVE  /\ Append(q, x) \in Seq(S)
           /\ Contains(Append(q, x), x)
           /\ \A y : Contains(q, y) => Contains(Append(q, x), y)
           /\ \A i \in DOMAIN Append(q, x) : Append(q, x)[i] = x
                                             \/ (i \in DOMAIN q /\ Append(q, x)[i] = q[i])
<1>1. /\ Append(q, x) \in Seq(S) /\ Len(Append(q, x)) = Len(q) + 1
      /\ Append(q, x)[Len(q) + 1] = x
      /\ \A i \in 1 .. Len(q) : Append(q, x)[i] = q[i]
      /\ Len(q) \in Nat
  OBVIOUS
<1>2. DOMAIN Append(q, x) = 1 .. Len(q) + 1 /\ DOMAIN q = 1 .. Len(q)
  BY <1>1
<1>3. Contains(Append(q, x), x)
  BY <1>1 DEF Contains
<1>4. \A y : Contains(q, y) => Contains(Append(q, x), y)
  BY <1>1 DEF Contains
<1>5. \A i \in DOMAIN Append(q, x) : Append(q, x)[i] = x
                                     \/ (i \in DOMAIN q /\ Append(q, x)[i] = q[i])
  BY <1>1, <1>2
<1> QED BY <1>1, <1>3, <1>4, <1>5

\* What a sequence contains is its head or in its tail.
LEMMA ContainsTail ==
    ASSUME NEW S, NEW q \in Seq(S), q # <<>>
    PROVE  /\ Head(q) \in S /\ Tail(q) \in Seq(S)
           /\ 1 \in DOMAIN q /\ Head(q) = q[1]
           /\ \A i \in DOMAIN Tail(q) : i + 1 \in DOMAIN q /\ Tail(q)[i] = q[i + 1]
           /\ \A y : Contains(q, y) => y = Head(q) \/ Contains(Tail(q), y)
<1>1. /\ Head(q) \in S /\ Tail(q) \in Seq(S)
      /\ 1 \in DOMAIN q /\ Head(q) = q[1]
      /\ Len(Tail(q)) = Len(q) - 1 /\ Len(q) \in Nat
  OBVIOUS
<1>2. \A i \in DOMAIN Tail(q) : i + 1 \in DOMAIN q /\ Tail(q)[i] = q[i + 1]
  OBVIOUS
<1>3. ASSUME NEW y, Contains(q, y), y # Head(q)  PROVE Contains(Tail(q), y)
  <2>1. PICK i \in 1 .. Len(q) : q[i] = y
    BY <1>3 DEF Contains
  <2>2. i # 1
    BY <1>1, <1>3, <2>1
  <2>3. i - 1 \in 1 .. Len(Tail(q)) /\ i - 1 \in DOMAIN Tail(q)
    BY <1>1, <2>1, <2>2
  <2>4. Tail(q)[i - 1] = q[(i - 1) + 1]
    BY <1>2, <2>3
  <2>5. (i - 1) + 1 = i
    BY <2>1
  <2>6. Tail(q)[i - 1] = y
    BY <2>1, <2>4, <2>5
  <2> QED BY <2>3, <2>6 DEF Contains
<1> QED BY <1>1, <1>2, <1>3

\* subscribe: whatever became of the POST, the AF knows the subscription or
\* it is excused.
LEMMA SubscribeSubsInv ==
    ASSUME SubsInv, Subscribe
    PROVE  SubsInv'
<1> USE DEF SubsInv
<1>1. /\ phase = "subscribing" /\ todo # <<>> /\ todo' = Tail(todo) /\ phase' = phase
      /\ starts' = starts
  BY DEF Subscribe
<1>2. todo \in Seq(STRING) /\ starts \in Nat /\ mine \in Seq(Subs)
  BY <1>1 DEF SubsType
<1>3. Head(todo) \in STRING /\ todo' \in Seq(STRING)
  BY <1>1, <1>2, ContainsTail
<1>4. \A url \in BOOLEAN : Sub(url) \in Subs /\ Sub(url).url = url
  BY <1>2, <1>3 DEF Sub, Subs
<1>5. /\ \A s \in subs : s \in excused \/ Contains(mine, s)
      /\ \A i \in DOMAIN mine : mine[i].url \/ mine[i] \in excused
  BY <1>1 DEF KnownInv
<1>6. ASSUME NEW url \in BOOLEAN,
             subs' = subs \cup {Sub(url)},
             mine' = Append(mine, Sub(url)),
             excused' = IF url THEN excused ELSE excused \cup {Sub(url)}
      PROVE  SubsInv'
  <2>1. mine' \in Seq(Subs) /\ Contains(mine', Sub(url))
        /\ (\A y : Contains(mine, y) => Contains(mine', y))
        /\ \A i \in DOMAIN mine' : mine'[i] = Sub(url) \/ (i \in DOMAIN mine /\ mine'[i] = mine[i])
    BY <1>2, <1>4, <1>6, ContainsAppend
  <2>2. excused \subseteq excused' /\ (Sub(url).url \/ Sub(url) \in excused')
    BY <1>4, <1>6
  <2>3. \A s \in subs' : s \in excused' \/ Contains(mine', s)
    BY <1>5, <1>6, <2>1, <2>2
  <2>4. \A i \in DOMAIN mine' : mine'[i].url \/ mine'[i] \in excused'
    BY <1>5, <2>1, <2>2
  <2>5. SubsType'
    BY <1>1, <1>2, <1>3, <2>1 DEF SubsType
  <2>6. KnownInv'
    BY <1>1, <2>3, <2>4 DEF KnownInv
  <2> QED BY <2>5, <2>6
<1>7. ASSUME subs' = subs \cup {Sub(FALSE)},
             excused' = excused \cup {Sub(FALSE)},
             mine' = mine
      PROVE  SubsInv'
  <2>1. SubsType'
    BY <1>1, <1>2, <1>3, <1>7 DEF SubsType
  <2>2. KnownInv'
    BY <1>1, <1>5, <1>7 DEF KnownInv
  <2> QED BY <2>1, <2>2
<1>8. ASSUME UNCHANGED <<subs, mine, excused>>
      PROVE  SubsInv'
  <2>1. SubsType'
    BY <1>1, <1>2, <1>3, <1>8 DEF SubsType
  <2>2. KnownInv'
    BY <1>1, <1>5, <1>8 DEF KnownInv
  <2> QED BY <2>1, <2>2
<1> QED BY <1>6, <1>7, <1>8 DEF Subscribe

\* unsubscribe: the subscription is gone, or excused.
LEMMA UnsubscribeSubsInv ==
    ASSUME SubsInv, Unsubscribe
    PROVE  SubsInv'
<1> USE DEF SubsInv
<1>1. /\ phase = "stopping" /\ todo # <<>> /\ todo' = Tail(todo)
      /\ UNCHANGED <<phase, mine, starts>>
  BY DEF Unsubscribe, memory
<1>2. todo \in Seq(Subs)
  BY <1>1 DEF SubsType
<1>3. /\ Tail(todo) \in Seq(Subs)
      /\ 1 \in DOMAIN todo /\ Head(todo) = todo[1]
      /\ \A i \in DOMAIN Tail(todo) : i + 1 \in DOMAIN todo /\ Tail(todo)[i] = todo[i + 1]
      /\ \A y : Contains(todo, y) => y = Head(todo) \/ Contains(Tail(todo), y)
  BY <1>1, <1>2, ContainsTail
<1>4. /\ \A s \in subs : s \in excused \/ Contains(todo, s)
      /\ \A i \in DOMAIN todo : todo[i].url \/ todo[i] \in excused
      /\ \A i \in DOMAIN mine : mine[i].url \/ mine[i] \in excused
  BY <1>1 DEF KnownInv
<1>5. /\ subs' \subseteq subs /\ excused \subseteq excused'
      /\ Head(todo) \in subs' => Head(todo) \in excused'
  <2>1. Head(todo).url \/ Head(todo) \in excused
    BY <1>3, <1>4
  <2>2. \/ subs' = (IF Head(todo).url THEN subs \ {Head(todo)} ELSE subs) /\ excused' = excused
        \/ subs' = subs /\ excused' = excused \cup {Head(todo)}
    BY DEF Unsubscribe
  <2> QED BY <2>1, <2>2
<1>6. \A s \in subs' : s \in excused' \/ Contains(todo', s)
  BY <1>1, <1>3, <1>4, <1>5
<1>7. \A i \in DOMAIN todo' : todo'[i].url \/ todo'[i] \in excused'
  BY <1>1, <1>3, <1>4, <1>5
<1>8. SubsType'
  BY <1>1, <1>3 DEF SubsType
<1>9. KnownInv'
  BY <1>1, <1>4, <1>5, <1>6, <1>7 DEF KnownInv
<1> QED BY <1>8, <1>9

\* Each step of the specification keeps SubsInv.
LEMMA SubsStep ==
    ASSUME SubsInv, [Next]_vars
    PROVE  SubsInv'
<1> USE DEF SubsInv
<1>1. CASE Start
  <2>1. /\ phase = "down" /\ phase' = "subscribing" /\ todo' = Types
        /\ starts' = starts + 1 /\ UNCHANGED <<mine, subs, excused>>
    BY <1>1 DEF Start, memory, nef
  <2>2. SubsType'
    BY <2>1, AFAssumption DEF SubsType
  <2>3. KnownInv'
    BY <2>1 DEF KnownInv
  <2> QED BY <2>2, <2>3
<1>2. CASE Subscribe
  BY <1>2, SubscribeSubsInv
<1>3. CASE Serve
  <2>1. /\ phase = "subscribing" /\ phase' = "serving"
        /\ UNCHANGED <<todo, mine, starts, subs, excused>>
    BY <1>3 DEF Serve, memory, nef
  <2> QED BY <2>1 DEF SubsType, KnownInv
<1>4. CASE Shutdown
  <2>1. /\ phase = "serving" /\ phase' = "stopping" /\ todo' = mine
        /\ UNCHANGED <<mine, starts, subs, excused>>
    BY <1>4 DEF Shutdown, memory, nef
  <2> QED BY <2>1 DEF SubsType, KnownInv
<1>5. CASE Unsubscribe
  BY <1>5, UnsubscribeSubsInv
<1>6. CASE Stopped
  <2>1. /\ phase = "stopping" /\ todo = <<>>
        /\ phase' = "down" /\ mine' = <<>> /\ UNCHANGED <<starts, subs, excused>>
    BY <1>6 DEF Stopped, Gone, nef
  <2>2. subs \subseteq excused
    BY <2>1 DEF KnownInv, Contains
  <2> QED BY <2>1, <2>2 DEF SubsType, KnownInv
<1>7. CASE Crash
  <2>1. /\ phase' = "down" /\ mine' = <<>>
        /\ excused' = excused \cup subs /\ UNCHANGED <<starts, subs>>
    BY <1>7 DEF Crash, Gone
  <2> QED BY <2>1 DEF SubsType, KnownInv
<1>8. ASSUME UNCHANGED <<phase, todo, mine, starts, subs, excused>>  PROVE SubsInv'
  BY <1>8 DEF SubsType, KnownInv
<1>9. CASE (\E b \in Bodies : Receive(b)) \/ WriteRest \/ HandleReport \/ Respond \/ RemoveRaw
  <2>1. UNCHANGED <<phase, todo, mine, starts, subs, excused>>
    BY <1>9 DEF Receive, WriteRest, HandleReport, Respond, RemoveRaw, memory, nef, files
  <2> QED BY <2>1, <1>8
<1>10. CASE UNCHANGED afvars
  BY <1>8, <1>10 DEF afvars
<1>11. AFNext \/ UNCHANGED afvars
  BY DEF Next, vars
<1> QED BY <1>1, <1>2, <1>3, <1>4, <1>5, <1>6, <1>7, <1>9, <1>10, <1>11 DEF AFNext

\* After an orderly stop the NEF has no subscription of the AF but those
\* whose answer was lost, whose name was no URL or whose DELETE failed.
THEOREM StopsUnsubscribed == Spec => []NoStaleSubscription
<1>1. Init => SubsInv
  <2>1. SUFFICES ASSUME Init  PROVE SubsInv
    OBVIOUS
  <2>2. phase = "down" /\ mine = <<>> /\ subs = {} /\ starts = 0
    BY <2>1 DEF Init, AFInit
  <2>3. SubsType
    BY <2>2 DEF SubsType
  <2>4. KnownInv
    BY <2>2 DEF KnownInv
  <2> QED BY <2>3, <2>4 DEF SubsInv
<1>2. SubsInv /\ [Next]_vars => SubsInv'
  BY SubsStep
<1>3. SubsInv => NoStaleSubscription
  BY DEF SubsInv, KnownInv, NoStaleSubscription
<1> QED BY <1>1, <1>2, <1>3, PTL DEF Spec

-----------------------------------------------------------------------------
(* The files the AF writes                                                  *)

Pieces == [body : Nat, part : {"whole", "head", "tail"}]
Rows == [body : Nat, start : Nat, supi : UEs, loc : Locs, kind : {"initial", "sector", "site"}]

\* The types.  The name stands for the newest file or for none, and the file
\* that the AF has open is the newest: another one is made only by a start
\* that does not find the name.
FileType ==
    /\ phase \in {"down", "subscribing", "serving", "stopping"}
    /\ raw \in Seq(Seq(Pieces))
    /\ path \in {NoFile, Len(raw)}
    /\ phase # "down" => out = Len(raw) /\ Len(raw) > 0
    /\ handling \in [body : Nat, left : Seq(Reports), rest : BOOLEAN]
    /\ handling # Idle => phase = "serving"
    /\ handling.body <= sent
    /\ sent \in Nat /\ starts \in Nat
    /\ trail \in Seq(Rows)

\* No piece is of a notification not yet received.
BodiesInv == \A g \in DOMAIN raw : \A i \in DOMAIN raw[g] : raw[g][i].body <= sent

\* What is answered or in the trail is on disk, and so is the notification
\* whose reports are being handled.
DiskInv ==
    /\ \A b \in acked : OnDisk(b)
    /\ \A i \in DOMAIN trail : OnDisk(trail[i].body)
    /\ (handling # Idle /\ ~handling.rest) => OnDisk(handling.body)

\* Behind the end of a payload, in its file or in a newer one, there are only
\* pieces of later notifications.
OrderInv ==
    \A g, h \in DOMAIN raw : \A i \in DOMAIN raw[g], j \in DOMAIN raw[h] :
        /\ raw[g][i].part # "head"
        /\ g < h \/ (g = h /\ i < j)
        => raw[g][i].body < raw[h][j].body

\* The same of the piece that is still to be written.
RestInv ==
    handling.rest =>
      \A g \in DOMAIN raw : \A i \in DOMAIN raw[g] :
        raw[g][i].part # "head" => raw[g][i].body < handling.body

FileInv == FileType /\ BodiesInv /\ DiskInv /\ OrderInv /\ RestInv

\* The files only grow.
Grown ==
    /\ DOMAIN raw \subseteq DOMAIN raw'
    /\ \A g \in DOMAIN raw : \A i \in DOMAIN raw[g] :
        g \in DOMAIN raw' /\ i \in DOMAIN raw'[g] /\ raw'[g][i] = raw[g][i]

\* What a write to the newest file leaves in the files.
LEMMA AppendPiece ==
    ASSUME NEW r \in Seq(Seq(Pieces)), Len(r) > 0, NEW p \in Pieces,
           NEW w, w = [r EXCEPT ![Len(r)] = Append(@, p)]
    PROVE  /\ w \in Seq(Seq(Pieces)) /\ Len(w) = Len(r)
           /\ \A g \in DOMAIN r : \A i \in DOMAIN r[g] :
                g \in DOMAIN w /\ i \in DOMAIN w[g] /\ w[g][i] = r[g][i]
           /\ \A g \in DOMAIN w : \A i \in DOMAIN w[g] :
                \/ g \in DOMAIN r /\ i \in DOMAIN r[g] /\ w[g][i] = r[g][i]
                \/ g = Len(r) /\ i = Len(r[g]) + 1 /\ w[g][i] = p
           /\ Len(r) \in DOMAIN w /\ Len(r[Len(r)]) + 1 \in DOMAIN w[Len(r)]
           /\ w[Len(r)][Len(r[Len(r)]) + 1] = p
<1> DEFINE n == Len(r)
           q == r[n]
           a == Append(q, p)
<1>1. n \in DOMAIN r /\ n \in Nat /\ DOMAIN r = 1 .. n /\ q \in Seq(Pieces)
  OBVIOUS
<1> HIDE DEF q
<1>2. /\ a \in Seq(Pieces) /\ Len(q) \in Nat /\ DOMAIN q = 1 .. Len(q)
      /\ Len(a) = Len(q) + 1 /\ DOMAIN a = 1 .. Len(q) + 1
      /\ a[Len(q) + 1] = p /\ \A i \in 1 .. Len(q) : a[i] = q[i]
  BY <1>1
<1>3. w = [r EXCEPT ![n] = a]
  BY DEF q
<1> HIDE DEF a
<1>4. w \in Seq(Seq(Pieces)) /\ Len(w) = n /\ DOMAIN w = 1 .. n
  BY <1>1, <1>2, <1>3
<1>5. w[n] = a /\ \A g \in DOMAIN r : g # n => w[g] = r[g]
  BY <1>1, <1>3
<1>6. ASSUME NEW g \in DOMAIN r, NEW i \in DOMAIN r[g]
      PROVE  g \in DOMAIN w /\ i \in DOMAIN w[g] /\ w[g][i] = r[g][i]
  <2>1. CASE g # n
    BY <1>1, <1>4, <1>5, <2>1
  <2>2. CASE g = n
    <3>1. i \in 1 .. Len(q)
      BY <1>2, <2>2 DEF q
    <3> QED BY <1>1, <1>2, <1>4, <1>5, <2>2, <3>1 DEF q
  <2> QED BY <2>1, <2>2
<1>7. ASSUME NEW g \in DOMAIN w, NEW i \in DOMAIN w[g]
      PROVE  \/ g \in DOMAIN r /\ i \in DOMAIN r[g] /\ w[g][i] = r[g][i]
             \/ g = n /\ i = Len(r[g]) + 1 /\ w[g][i] = p
  <2>1. CASE g # n
    BY <1>1, <1>4, <1>5, <2>1
  <2>2. CASE g = n
    <3>1. i \in 1 .. Len(q) + 1 /\ w[g][i] = a[i] /\ r[g] = q
      BY <1>2, <1>5, <2>2 DEF q
    <3> QED BY <1>1, <1>2, <2>2, <3>1
  <2> QED BY <2>1, <2>2
<1>8. n \in DOMAIN w /\ Len(r[n]) + 1 \in DOMAIN w[n] /\ w[n][Len(r[n]) + 1] = p
  BY <1>1, <1>2, <1>4, <1>5 DEF q
<1> QED BY <1>4, <1>6, <1>7, <1>8

\* What is on disk stays there.
LEMMA StaysOnDisk ==
    ASSUME Grown
    PROVE  \A b : OnDisk(b) => OnDisk(b)'
<1>1. ASSUME NEW b, OnDisk(b)  PROVE OnDisk(b)'
  <2>0. PICK g \in DOMAIN raw :
            \E i \in DOMAIN raw[g] : raw[g][i] \in {Piece(b, "whole"), Piece(b, "tail")}
    BY <1>1 DEF OnDisk
  <2>1. PICK i \in DOMAIN raw[g] : raw[g][i] \in {Piece(b, "whole"), Piece(b, "tail")}
    BY <2>0
  <2>2. g \in DOMAIN raw' /\ i \in DOMAIN raw'[g] /\ raw'[g][i] = raw[g][i]
    BY <2>1 DEF Grown
  <2> QED BY <2>1, <2>2 DEF OnDisk, Piece
<1> QED BY <1>1

\* Steps that write to no file and begin or end no notification.
LEMMA QuietFileInv ==
    ASSUME FileInv, FileType', UNCHANGED <<raw, handling, sent, trail, acked>>
    PROVE  FileInv' /\ Grown
<1>1. Grown
  BY DEF Grown
<1>2. BodiesInv' /\ OrderInv' /\ RestInv'
  BY DEF FileInv, BodiesInv, OrderInv, RestInv
<1>3. DiskInv'
  BY DEF FileInv, DiskInv, OnDisk
<1> QED BY <1>1, <1>2, <1>3 DEF FileInv

\* The script is run: the newest file is opened, or a newer one is made.
LEMMA StartFileInv ==
    ASSUME FileInv, Start
    PROVE  FileInv' /\ Grown
<1> USE DEF FileInv
<1>1. /\ phase = "down" /\ phase' = "subscribing" /\ starts' = starts + 1
      /\ UNCHANGED <<handling, sent, trail, acked>>
  BY DEF Start
<1>2. CASE path # NoFile
  <2>1. out' = path /\ UNCHANGED <<raw, path>>
    BY <1>2 DEF Start
  <2>2. FileType'
    BY <1>1, <1>2, <2>1 DEF FileType, NoFile
  <2> QED BY <1>1, <2>1, <2>2, QuietFileInv
<1>3. CASE path = NoFile
  <2>1. raw' = Append(raw, <<>>) /\ path' = Len(raw) + 1 /\ out' = Len(raw) + 1
    BY <1>3 DEF Start
  <2>2. /\ raw' \in Seq(Seq(Pieces)) /\ Len(raw') = Len(raw) + 1 /\ Len(raw) \in Nat
        /\ raw'[Len(raw) + 1] = <<>>
        /\ \A g \in DOMAIN raw : g \in DOMAIN raw' /\ raw'[g] = raw[g]
        /\ \A g \in DOMAIN raw' : g \in DOMAIN raw \/ raw'[g] = <<>>
    <3>1. raw \in Seq(Seq(Pieces)) /\ <<>> \in Seq(Pieces)
      BY DEF FileType
    <3> QED BY <2>1, <3>1
  <2>3. FileType'
    BY <1>1, <2>1, <2>2 DEF FileType
  <2>4. Grown
    BY <2>2 DEF Grown
  <2>5. \A g \in DOMAIN raw' : \A i \in DOMAIN raw'[g] : g \in DOMAIN raw /\ raw'[g] = raw[g]
    BY <2>2
  <2>6. BodiesInv'
    BY <1>1, <2>5 DEF BodiesInv
  <2>7. RestInv'
    BY <1>1, <2>5 DEF RestInv
  <2>8. OrderInv'
    BY <2>5 DEF OrderInv
  <2>9. DiskInv'
    BY <1>1, <2>4, StaysOnDisk DEF DiskInv
  <2> QED BY <2>3, <2>4, <2>6, <2>7, <2>8, <2>9
<1> QED BY <1>2, <1>3

\* A piece is written behind everything else.
LEMMA WriteStep ==
    ASSUME FileInv, phase # "down", NEW p \in Pieces, Written(p),
           \A g \in DOMAIN raw : \A i \in DOMAIN raw[g] :
             raw[g][i].part # "head" => raw[g][i].body < p.body,
           sent' \in Nat, sent <= sent', p.body <= sent'
    PROVE  /\ raw' \in Seq(Seq(Pieces)) /\ Len(raw') = Len(raw)
           /\ Grown /\ BodiesInv' /\ OrderInv'
           /\ p.part # "head" => OnDisk(p.body)'
           /\ p.part = "head" => \A g \in DOMAIN raw' : \A i \in DOMAIN raw'[g] :
                raw'[g][i].part # "head" => raw'[g][i].body < p.body
<1> USE DEF FileInv
<1>1. raw \in Seq(Seq(Pieces)) /\ out = Len(raw) /\ Len(raw) > 0
  BY DEF FileType
<1>2. raw' = [raw EXCEPT ![Len(raw)] = Append(@, p)]
  BY <1>1 DEF Written
<1> DEFINE n == Len(raw)
           m == Len(raw[n]) + 1
<1>3. /\ raw' \in Seq(Seq(Pieces)) /\ Len(raw') = n
      /\ \A g \in DOMAIN raw : \A i \in DOMAIN raw[g] :
           g \in DOMAIN raw' /\ i \in DOMAIN raw'[g] /\ raw'[g][i] = raw[g][i]
      /\ \A g \in DOMAIN raw' : \A i \in DOMAIN raw'[g] :
           \/ g \in DOMAIN raw /\ i \in DOMAIN raw[g] /\ raw'[g][i] = raw[g][i]
           \/ g = n /\ i = Len(raw[g]) + 1 /\ raw'[g][i] = p
      /\ n \in DOMAIN raw' /\ m \in DOMAIN raw'[n] /\ raw'[n][m] = p
  BY <1>1, <1>2, AppendPiece
<1>4. Grown
  BY <1>1, <1>3 DEF Grown
<1>5. BodiesInv'
  <2>1. SUFFICES ASSUME NEW g \in DOMAIN raw', NEW i \in DOMAIN raw'[g]
                 PROVE  raw'[g][i].body <= sent'
    BY DEF BodiesInv
  <2>2. CASE g \in DOMAIN raw /\ i \in DOMAIN raw[g] /\ raw'[g][i] = raw[g][i]
    <3>1. raw[g][i].body <= sent /\ raw[g][i] \in Pieces
      BY <1>1, <2>2 DEF BodiesInv
    <3>2. raw[g][i].body \in Nat /\ sent \in Nat
      BY <3>1 DEF Pieces, FileType
    <3> QED BY <2>2, <3>1, <3>2
  <2> QED BY <1>3, <2>2
<1>6. OrderInv'
  <2>1. SUFFICES ASSUME NEW g \in DOMAIN raw', NEW h \in DOMAIN raw',
                        NEW i \in DOMAIN raw'[g], NEW j \in DOMAIN raw'[h],
                        raw'[g][i].part # "head", g < h \/ (g = h /\ i < j)
                 PROVE  raw'[g][i].body < raw'[h][j].body
    BY DEF OrderInv
  <2>2. CASE g \in DOMAIN raw /\ i \in DOMAIN raw[g] /\ raw'[g][i] = raw[g][i]
    <3>1. CASE h \in DOMAIN raw /\ j \in DOMAIN raw[h] /\ raw'[h][j] = raw[h][j]
      BY <2>1, <2>2, <3>1 DEF OrderInv
    <3>2. CASE h = n /\ j = Len(raw[h]) + 1 /\ raw'[h][j] = p
      BY <2>1, <2>2, <3>2
    <3> QED BY <1>3, <3>1, <3>2
  <2>3. CASE g = n /\ i = Len(raw[g]) + 1 /\ raw'[g][i] = p
    <3>1. h \in 1 .. n /\ n \in Nat
      BY <1>1, <1>3
    <3>2. h = g /\ i < j
      BY <2>1, <2>3, <3>1
    <3>3. raw[n] \in Seq(Pieces) /\ Len(raw[n]) \in Nat /\ DOMAIN raw[n] = 1 .. Len(raw[n])
      BY <1>1
    <3>4. j \in DOMAIN raw[n] \/ j = Len(raw[n]) + 1
      BY <1>3, <2>3, <3>2
    <3> QED BY <2>3, <3>2, <3>3, <3>4
  <2> QED BY <1>3, <2>2, <2>3
<1>7. ASSUME p.part # "head"  PROVE OnDisk(p.body)'
  <2>1. p \in {Piece(p.body, "whole"), Piece(p.body, "tail")}
    BY <1>7 DEF Pieces, Piece
  <2> QED BY <1>3, <2>1 DEF OnDisk, Piece
<1>8. ASSUME p.part = "head", NEW g \in DOMAIN raw', NEW i \in DOMAIN raw'[g],
             raw'[g][i].part # "head"
      PROVE  raw'[g][i].body < p.body
  BY <1>3, <1>8
<1> QED BY <1>3, <1>4, <1>5, <1>6, <1>7, <1>8

\* The payload of a new notification, or the first part of it, is written.
LEMMA ReceiveFileInv ==
    ASSUME FileInv, NEW b \in Bodies, Receive(b)
    PROVE  FileInv' /\ Grown
<1> USE DEF FileInv
<1>0. PICK p : p = Piece(sent + 1, IF b.large THEN "head" ELSE "whole")
  OBVIOUS
<1>1. /\ phase = "serving" /\ sent' = sent + 1 /\ Written(p)
      /\ handling' = [body |-> sent + 1, left |-> b.reports, rest |-> b.large]
      /\ UNCHANGED <<phase, path, out, trail, acked, starts>>
  BY <1>0 DEF Receive
<1>2. sent \in Nat /\ b.reports \in Seq(Reports) /\ b.large \in BOOLEAN
  BY AFAssumption DEF FileType
<1>3. p \in Pieces /\ p.body = sent + 1 /\ p.part = IF b.large THEN "head" ELSE "whole"
  BY <1>0, <1>2 DEF Piece, Pieces
<1>4. \A g \in DOMAIN raw : \A i \in DOMAIN raw[g] : raw[g][i].body < p.body
  <2>1. ASSUME NEW g \in DOMAIN raw, NEW i \in DOMAIN raw[g]  PROVE raw[g][i].body < p.body
    <3>1. raw[g][i] \in Pieces
      BY DEF FileType
    <3>2. raw[g][i].body \in Nat /\ raw[g][i].body <= sent
      BY <3>1 DEF Pieces, BodiesInv
    <3> QED BY <1>2, <1>3, <3>2
  <2> QED BY <2>1
<1>5. sent' \in Nat /\ sent <= sent' /\ p.body <= sent'
  BY <1>1, <1>2, <1>3
<1>6. /\ raw' \in Seq(Seq(Pieces)) /\ Len(raw') = Len(raw)
      /\ Grown /\ BodiesInv' /\ OrderInv'
      /\ p.part # "head" => OnDisk(p.body)'
      /\ p.part = "head" => \A g \in DOMAIN raw' : \A i \in DOMAIN raw'[g] :
                raw'[g][i].part # "head" => raw'[g][i].body < p.body
  BY <1>1, <1>3, <1>4, <1>5, WriteStep
<1>7. handling' \in [body : Nat, left : Seq(Reports), rest : BOOLEAN]
      /\ handling'.body = sent + 1 /\ handling'.rest = b.large
  BY <1>1, <1>2
<1>8. FileType'
  BY <1>1, <1>5, <1>6, <1>7 DEF FileType
<1>9. RestInv'
  BY <1>3, <1>6, <1>7 DEF RestInv
<1>10. ~handling'.rest => OnDisk(p.body)' /\ handling'.body = p.body
  BY <1>2, <1>3, <1>6, <1>7
<1>11. DiskInv'
  <2>1. (handling' # Idle /\ ~handling'.rest) => OnDisk(handling.body)'
    BY <1>10 DEF OnDisk, Piece
  <2>2. \A x \in acked' : OnDisk(x)'
    BY <1>1, <1>6, StaysOnDisk DEF DiskInv
  <2>3. \A i \in DOMAIN trail' : OnDisk(trail[i].body)'
    <3>1. \A i \in DOMAIN trail : OnDisk(trail[i].body)
      BY DEF DiskInv
    <3> QED BY <1>1, <1>6, <3>1, StaysOnDisk DEF OnDisk
  <2> QED BY <2>1, <2>2, <2>3 DEF DiskInv
<1> QED BY <1>6, <1>8, <1>9, <1>11

\* The rest of a large payload is written.
LEMMA WriteRestFileInv ==
    ASSUME FileInv, WriteRest
    PROVE  FileInv' /\ Grown
<1> USE DEF FileInv
<1>0. PICK p : p = Piece(handling.body, "tail")
  OBVIOUS
<1>1. /\ handling # Idle /\ handling.rest /\ Written(p)
      /\ handling' = [handling EXCEPT !.rest = FALSE]
      /\ UNCHANGED <<phase, path, out, trail, acked, starts, sent>>
  BY <1>0 DEF WriteRest
<1>2. phase = "serving" /\ sent \in Nat /\ handling.body \in Nat /\ handling.body <= sent
      /\ handling \in [body : Nat, left : Seq(Reports), rest : BOOLEAN]
  BY <1>1 DEF FileType
<1>3. p \in Pieces /\ p.body = handling.body /\ p.part = "tail"
  BY <1>0, <1>2 DEF Piece, Pieces
<1>4. \A g \in DOMAIN raw : \A i \in DOMAIN raw[g] :
        raw[g][i].part # "head" => raw[g][i].body < p.body
  BY <1>1, <1>3 DEF RestInv
<1>5. /\ raw' \in Seq(Seq(Pieces)) /\ Len(raw') = Len(raw)
      /\ Grown /\ BodiesInv' /\ OrderInv'
      /\ p.part # "head" => OnDisk(p.body)'
  BY <1>1, <1>2, <1>3, <1>4, WriteStep
<1>6. /\ handling' \in [body : Nat, left : Seq(Reports), rest : BOOLEAN]
      /\ handling'.body = handling.body /\ handling'.rest = FALSE
  BY <1>1, <1>2
<1>7. FileType'
  BY <1>1, <1>2, <1>5, <1>6 DEF FileType
<1>8. RestInv'
  BY <1>6 DEF RestInv
<1>9. DiskInv'
  <2>1. OnDisk(handling.body)'
    BY <1>3, <1>5, <1>6 DEF OnDisk, Piece
  <2>2. \A x \in acked' : OnDisk(x)'
    BY <1>1, <1>5, StaysOnDisk DEF DiskInv
  <2>3. \A i \in DOMAIN trail' : OnDisk(trail[i].body)'
    <3>1. \A i \in DOMAIN trail : OnDisk(trail[i].body)
      BY DEF DiskInv
    <3> QED BY <1>1, <1>5, <3>1, StaysOnDisk DEF OnDisk
  <2> QED BY <2>1, <2>2, <2>3 DEF DiskInv
<1> QED BY <1>5, <1>7, <1>8, <1>9

\* A report is handled: a row that it adds to the trail is of a notification
\* that is on disk.
LEMMA HandleReportFileInv ==
    ASSUME FileInv, HandleReport
    PROVE  FileInv' /\ Grown
<1> USE DEF FileInv
<1>1. /\ handling # Idle /\ ~handling.rest /\ handling.left # <<>>
      /\ handling' = [handling EXCEPT !.left = Tail(@)]
      /\ UNCHANGED <<phase, raw, path, out, sent, acked, starts>>
  BY DEF HandleReport, nef
<1>2. /\ handling \in [body : Nat, left : Seq(Reports), rest : BOOLEAN]
      /\ phase = "serving" /\ trail \in Seq(Rows) /\ starts \in Nat
  BY <1>1 DEF FileType
<1>3. handling.left \in Seq(Reports) /\ handling.body \in Nat
  BY <1>2
<1>4. Head(handling.left) \in Reports /\ Tail(handling.left) \in Seq(Reports)
  BY <1>1, <1>3, ContainsTail
<1>5. /\ handling' \in [body : Nat, left : Seq(Reports), rest : BOOLEAN]
      /\ handling'.body = handling.body /\ handling'.rest = handling.rest
  BY <1>1, <1>2, <1>4
<1> DEFINE RowsAdded ==
             /\ trail' \in Seq(Rows)
             /\ \A i \in DOMAIN trail' :
                  trail'[i].body = handling.body \/ (i \in DOMAIN trail /\ trail'[i] = trail[i])
<1>6. RowsAdded
  <2>1. CASE trail' = trail
    BY <1>2, <2>1
  <2>2. ASSUME NEW u \in UEs, NEW l \in Locs, trail' = Append(trail, Row(u, l))
        PROVE  RowsAdded
    <3>1. Kind(u, l) \in {"initial", "sector", "site"}
      BY DEF Kind
    <3>2. Row(u, l) \in Rows /\ Row(u, l).body = handling.body
      BY <1>2, <1>3, <3>1 DEF Row, Rows
    <3> QED BY <1>2, <2>2, <3>2, ContainsAppend
  <2>3. CASE Head(handling.left).type = "LOCATION_REPORT"
    <3>1. Head(handling.left).supi \in UEs /\ Head(handling.left).loc \in Locs
      BY <1>4, <2>3 DEF Reports
    <3>2. Located(Head(handling.left).supi, Head(handling.left).loc)
      BY <2>3 DEF HandleReport
    <3>3. trail' = trail \/ trail' = Append(trail, Row(Head(handling.left).supi, Head(handling.left).loc))
      BY <3>2 DEF Located
    <3> QED BY <2>1, <2>2, <3>1, <3>3
  <2>4. CASE Head(handling.left).type # "LOCATION_REPORT"
    BY <2>1, <2>4 DEF HandleReport
  <2> QED BY <2>3, <2>4
<1>7. FileType'
  BY <1>1, <1>2, <1>5, <1>6 DEF FileType
<1>8. Grown
  BY <1>1 DEF Grown
<1>9. BodiesInv' /\ OrderInv' /\ RestInv'
  BY <1>1, <1>5 DEF BodiesInv, OrderInv, RestInv
<1>10. \A b : OnDisk(b) => OnDisk(b)'
  BY <1>8, StaysOnDisk
<1>11. DiskInv'
  <2>1. OnDisk(handling.body)
    BY <1>1 DEF DiskInv
  <2>2. (handling' # Idle /\ ~handling'.rest) => OnDisk(handling.body)'
    BY <1>1, <1>5, <2>1 DEF OnDisk, Piece
  <2>3. \A x \in acked' : OnDisk(x)'
    BY <1>1, <1>10 DEF DiskInv
  <2>4. ASSUME NEW i \in DOMAIN trail'  PROVE OnDisk(trail[i].body)'
    <3>1. PICK b : b = trail'[i].body
      OBVIOUS
    <3>2. OnDisk(b)
      BY <1>6, <2>1, <3>1 DEF DiskInv
    <3>3. OnDisk(b)'
      BY <1>10, <3>2
    <3> QED BY <3>1, <3>3 DEF OnDisk, Piece
  <2> QED BY <2>2, <2>3, <2>4 DEF DiskInv
<1> QED BY <1>7, <1>8, <1>9, <1>11

\* The NEF is told that a notification has been received.
LEMMA RespondFileInv ==
    ASSUME FileInv, Respond
    PROVE  FileInv' /\ Grown
<1> USE DEF FileInv
<1>1. /\ handling # Idle /\ ~handling.rest /\ handling' = Idle
      /\ acked' = acked \cup {handling.body}
      /\ UNCHANGED <<phase, raw, path, out, trail, sent, starts>>
  BY DEF Respond, files
<1>2. Idle \in [body : Nat, left : Seq(Reports), rest : BOOLEAN]
      /\ Idle.body = 0 /\ Idle.rest = FALSE
  BY DEF Idle
<1>3. FileType'
  BY <1>1, <1>2 DEF FileType
<1>4. Grown
  BY <1>1 DEF Grown
<1>5. BodiesInv' /\ OrderInv' /\ RestInv'
  BY <1>1, <1>2 DEF BodiesInv, OrderInv, RestInv
<1>6. \A b : OnDisk(b) => OnDisk(b)'
  BY <1>4, StaysOnDisk
<1>7. \A x \in acked' : OnDisk(x)
  BY <1>1 DEF DiskInv
<1>8. \A x \in acked' : OnDisk(x)'
  BY <1>6, <1>7
<1>9. \A i \in DOMAIN trail' : OnDisk(trail[i].body)'
  BY <1>1 DEF DiskInv, OnDisk
<1>10. DiskInv'
  BY <1>1, <1>8, <1>9 DEF DiskInv, Idle
<1> QED BY <1>3, <1>4, <1>5, <1>10

\* The process ends, in order or not: no notification is being handled then.
LEMMA GoneFileInv ==
    ASSUME FileInv, Gone, UNCHANGED <<raw, path, trail, sent, acked, starts>>
    PROVE  FileInv' /\ Grown
<1> USE DEF FileInv
<1>1. phase' = "down" /\ handling' = Idle
  BY DEF Gone
<1>2. Idle \in [body : Nat, left : Seq(Reports), rest : BOOLEAN]
      /\ Idle.body = 0 /\ Idle.rest = FALSE
  BY DEF Idle
<1>3. FileType'
  BY <1>1, <1>2 DEF FileType
<1>4. Grown
  BY DEF Grown
<1>5. BodiesInv' /\ OrderInv' /\ RestInv'
  BY <1>1, <1>2 DEF BodiesInv, OrderInv, RestInv
<1>6. DiskInv'
  BY <1>1 DEF DiskInv, OnDisk
<1> QED BY <1>3, <1>4, <1>5, <1>6

\* Each step of the specification keeps FileInv, and the files only grow.
LEMMA FileStep ==
    ASSUME FileInv, [Next]_vars
    PROVE  FileInv' /\ Grown
<1>1. CASE Start
  BY <1>1, StartFileInv
<1>2. CASE Subscribe \/ Serve \/ Shutdown \/ Unsubscribe \/ RemoveRaw
  <2>1. UNCHANGED <<raw, handling, sent, trail, acked, starts, out>> /\ path' \in {path, NoFile}
    BY <1>2 DEF Subscribe, Serve, Shutdown, Unsubscribe, RemoveRaw, files, NoFile
  <2>2. \/ phase' = phase
        \/ phase \in {"subscribing", "serving"} /\ phase' \in {"serving", "stopping"}
           /\ (handling # Idle => phase' = "serving")
    BY <1>2 DEF Subscribe, Serve, Shutdown, Unsubscribe, RemoveRaw
  <2>3. FileType'
    BY <2>1, <2>2 DEF FileInv, FileType
  <2> QED BY <2>1, <2>3, QuietFileInv
<1>3. CASE \E b \in Bodies : Receive(b)
  BY <1>3, ReceiveFileInv
<1>4. CASE WriteRest
  BY <1>4, WriteRestFileInv
<1>5. CASE HandleReport
  BY <1>5, HandleReportFileInv
<1>6. CASE Respond
  BY <1>6, RespondFileInv
<1>7. CASE Stopped \/ Crash
  <2>1. Gone /\ UNCHANGED <<raw, path, trail, sent, acked, starts>>
    BY <1>7 DEF Stopped, Crash
  <2> QED BY <2>1, GoneFileInv
<1>8. CASE UNCHANGED afvars
  <2>1. UNCHANGED <<phase, raw, path, out, handling, sent, trail, acked, starts>>
    BY <1>8 DEF afvars
  <2>2. FileType'
    BY <2>1 DEF FileInv, FileType
  <2> QED BY <2>1, <2>2, QuietFileInv
<1>9. AFNext \/ UNCHANGED afvars
  BY DEF Next, vars
<1> QED BY <1>1, <1>2, <1>3, <1>4, <1>5, <1>6, <1>7, <1>8, <1>9 DEF AFNext

\* The invariant of the files holds before the client starts.
LEMMA InitFileInv == Init => FileInv
<1>1. SUFFICES ASSUME Init  PROVE FileInv
  OBVIOUS
<1>2. /\ phase = "down" /\ raw = <<>> /\ path = NoFile /\ out = NoFile /\ trail = <<>>
      /\ handling = Idle /\ sent = 0 /\ acked = {} /\ starts = 0
  BY <1>1 DEF Init, AFInit
<1>3. Idle \in [body : Nat, left : Seq(Reports), rest : BOOLEAN]
      /\ Idle.body = 0 /\ Idle.rest = FALSE
  BY DEF Idle
<1>4. FileType
  BY <1>2, <1>3 DEF FileType, NoFile
<1>5. DOMAIN raw = {}
  BY <1>2
<1>6. BodiesInv /\ OrderInv /\ RestInv
  BY <1>5 DEF BodiesInv, OrderInv, RestInv
<1>7. DiskInv
  BY <1>2 DEF DiskInv
<1> QED BY <1>4, <1>6, <1>7 DEF FileInv

\* FileInv holds of every behaviour.
THEOREM FilesInOrder == Spec => []FileInv
<1>1. FileInv /\ [Next]_vars => FileInv'
  BY FileStep
<1> QED BY <1>1, InitFileInv, PTL DEF Spec

\* receive_notification writes the payload before it acts on it: whatever is
\* in the trail, and whatever the NEF was told is received, is on disk to its
\* end, wherever the process was killed.
THEOREM PayloadFirst == Spec => []RawFirst
<1>1. FileInv => RawFirst
  BY DEF FileInv, DiskInv, RawFirst
<1> QED BY <1>1, FilesInOrder, PTL

-----------------------------------------------------------------------------
(* The trail                                                                *)

\* A set of numbers up to n that is not empty has a largest one.
LEMMA LargestIs ==
    ASSUME NEW n \in Nat, NEW S, S \subseteq 1 .. n, S # {}
    PROVE  Max(S) \in S /\ \A y \in S : y <= Max(S)
<1>1. PICK T : T = {n - i : i \in S}
  OBVIOUS
<1>2. T \subseteq Nat /\ T # {}
  <2>1. \A i \in S : n - i \in Nat
    OBVIOUS
  <2> QED BY <1>1, <2>1
<1>3. PICK t \in T : \A y \in T : t <= y
  BY <1>2, LeastNatural
<1>4. PICK m \in S : t = n - m
  BY <1>1, <1>3
<1>5. \A y \in S : n - m <= n - y
  BY <1>1, <1>3, <1>4
<1>6. \A y \in S : m >= y
  BY <1>5
<1>7. PICK x : x = Max(S)
  OBVIOUS
<1>8. x \in S /\ \A y \in S : x >= y
  BY <1>6, <1>7 DEF Max
<1>9. \A y \in S : y <= x
  BY <1>8
<1> QED BY <1>7, <1>8, <1>9

\* The largest number of a set is what Max gives.
LEMMA LargestOf ==
    ASSUME NEW n \in Nat, NEW S, S \subseteq 1 .. n, NEW m \in S, \A y \in S : y <= m
    PROVE  Max(S) = m
<1>1. PICK x : x = Max(S)
  OBVIOUS
<1>2. x \in S /\ \A y \in S : y <= x
  BY <1>1, LargestIs
<1> QED BY <1>1, <1>2

\* A sequence with one more element at its end.
Extended(x, q, e, n) ==
    /\ n \in Nat /\ n = Len(q) /\ DOMAIN q = 1 .. n
    /\ Len(x) = n + 1 /\ DOMAIN x = 1 .. n + 1
    /\ \A i \in 1 .. n : x[i] = q[i]
    /\ x[n + 1] = e

\* It is what Append makes.
LEMMA OneMore ==
    ASSUME NEW S, NEW q \in Seq(S), NEW x \in S
    PROVE  Append(q, x) \in Seq(S) /\ Extended(Append(q, x), q, x, Len(q))
  BY DEF Extended

\* The locations whose mast is known: the earlier ones, and the new one if its is.
KnownAfter(x, locs, l, n) ==
    /\ \A k \in 0 .. n : Known(x, k) = Known(locs, k) /\ Known(locs, k) \subseteq 1 .. k
    /\ site_group[l] = "" => Known(x, n + 1) = Known(locs, n)
    /\ site_group[l] # "" => Known(x, n + 1) = Known(locs, n) \cup {n + 1}

\* So it is when a location is appended.
LEMMA KnownAppend ==
    ASSUME NEW locs \in Seq(Locs), NEW l \in Locs, NEW n \in Nat, NEW x,
           Extended(x, locs, l, n)
    PROVE  KnownAfter(x, locs, l, n)
<1>1. (\A i \in 1 .. n : x[i] = locs[i]) /\ x[n + 1] = l
  BY DEF Extended
<1>2. ASSUME NEW k \in 0 .. n  PROVE Known(x, k) = Known(locs, k) /\ Known(locs, k) \subseteq 1 .. k
  <2>1. \A i \in 1 .. k : x[i] = locs[i]
    BY <1>1
  <2> QED BY <2>1 DEF Known
<1>3. 1 .. n + 1 = (1 .. n) \cup {n + 1}
  OBVIOUS
<1>4. Known(x, n + 1) = {i \in (1 .. n) \cup {n + 1} : site_group[x[i]] # ""}
  BY <1>3 DEF Known
<1>5. Known(locs, n) = {i \in 1 .. n : site_group[x[i]] # ""}
  BY <1>1 DEF Known
<1>6. site_group[x[n + 1]] = site_group[l]
  BY <1>1
<1> QED BY <1>2, <1>4, <1>5, <1>6 DEF KnownAfter

\* What a process remembers of a UE: its last location, and the mast of the last
\* location whose mast is known.
Remembered(l, g, locs) ==
    /\ locs = <<>> => l = Nowhere
    /\ locs # <<>> => l = locs[Len(locs)]
    /\ Known(locs, Len(locs)) = {} => g = ""
    /\ Known(locs, Len(locs)) # {} => g = site_group[locs[Max(Known(locs, Len(locs)))]]

\* switch_kind, of the mast remembered.
KindOf(g, l) == IF g = "" THEN "initial" ELSE IF site_group[l] = g THEN "sector" ELSE "site"

\* A later report does not change what the earlier moves are called.
LEMMA NamedBefore ==
    ASSUME NEW locs \in Seq(Locs), NEW l \in Locs, NEW n \in Nat, NEW x,
           Extended(x, locs, l, n), NEW i \in 1 .. n
    PROVE  Named(x, i) = Named(locs, i)
<1>1. \A j \in 1 .. n : x[j] = locs[j]
  BY DEF Extended
<1>2. PICK k \in 0 .. n : k = i - 1
  OBVIOUS
<1>3. PICK S : S = Known(locs, k)
  OBVIOUS
<1>K. KnownAfter(x, locs, l, n)
  BY KnownAppend
<1>4. Known(x, k) = S /\ S \subseteq 1 .. k
  BY <1>3, <1>K DEF KnownAfter
<1>5. x[i] = locs[i]
  BY <1>1
<1>6. CASE S = {}
  BY <1>2, <1>3, <1>4, <1>6 DEF Named
<1>7. CASE S # {}
  <2>1. k \in Nat
    BY <1>2
  <2>2. Max(S) \in 1 .. k
    BY <1>4, <1>7, <2>1, LargestIs
  <2>3. Max(S) \in 1 .. n
    BY <1>2, <2>2
  <2>4. x[Max(S)] = locs[Max(S)]
    BY <1>1, <2>3
  <2> QED BY <1>2, <1>3, <1>4, <1>5, <1>7, <2>4 DEF Named
<1> QED BY <1>6, <1>7

\* The new one, if it is a move, is called what switch_kind says.
LEMMA NamedLast ==
    ASSUME NEW locs \in Seq(Locs), NEW l \in Locs, NEW n \in Nat, NEW x,
           Extended(x, locs, l, n), NEW last, NEW g, Remembered(last, g, locs)
    PROVE  Named(x, n + 1) = KindOf(g, l)
<1>1. n = Len(locs) /\ (\A j \in 1 .. n : x[j] = locs[j]) /\ x[n + 1] = l
  BY DEF Extended
<1>2. n \in 0 .. n
  OBVIOUS
<1>I. PICK i \in Nat : i = n + 1 /\ i - 1 = n
  OBVIOUS
<1>3. PICK S : S = Known(locs, n)
  OBVIOUS
<1>K. KnownAfter(x, locs, l, n)
  BY KnownAppend
<1>4. Known(x, n) = S /\ S \subseteq 1 .. n
  BY <1>2, <1>3, <1>K DEF KnownAfter
<1>5. CASE S = {}
  <2>1. g = ""
    BY <1>1, <1>3, <1>5 DEF Remembered
  <2>2. Named(x, i) = "initial"
    BY <1>I, <1>4, <1>5 DEF Named
  <2> QED BY <1>I, <2>1, <2>2 DEF KindOf
<1>6. CASE S # {}
  <2>1. g = site_group[locs[Max(S)]]
    BY <1>1, <1>3, <1>6 DEF Remembered
  <2>2. Max(S) \in S
    BY <1>4, <1>6, LargestIs
  <2>3. x[Max(S)] = locs[Max(S)]
    BY <1>1, <1>4, <2>2
  <2>4. g # ""
    BY <1>3, <2>1, <2>2 DEF Known
  <2>5. Named(x, i) = IF site_group[x[i]] = site_group[x[Max(S)]] THEN "sector" ELSE "site"
    BY <1>I, <1>4, <1>6 DEF Named
  <2>6. x[i] = l
    BY <1>1, <1>I
  <2> QED BY <1>I, <2>1, <2>3, <2>4, <2>5, <2>6 DEF KindOf
<1> QED BY <1>5, <1>6

\* What handle_report remembers then.
LEMMA RememberedAfter ==
    ASSUME NEW locs \in Seq(Locs), NEW l \in Locs, NEW last, NEW g, Remembered(last, g, locs)
    PROVE  Remembered(l, IF site_group[l] = "" THEN g ELSE site_group[l], Append(locs, l))
<1>1. PICK n \in Nat : n = Len(locs)
  OBVIOUS
<1>2. PICK x : x = Append(locs, l)
  OBVIOUS
<1>E. Extended(x, locs, l, n)
  BY <1>1, <1>2, OneMore
<1>3. Len(x) = n + 1 /\ x # <<>> /\ (\A j \in 1 .. n : x[j] = locs[j]) /\ x[n + 1] = l
  BY <1>E DEF Extended
<1>4. PICK S : S = Known(locs, n)
  OBVIOUS
<1>5. n \in 0 .. n
  OBVIOUS
<1>K. KnownAfter(x, locs, l, n)
  BY <1>E, KnownAppend
<1>6. S \subseteq 1 .. n
  BY <1>4, <1>5, <1>K DEF KnownAfter
<1>7. CASE site_group[l] = ""
  <2>1. Known(x, n + 1) = S
    BY <1>K, <1>4, <1>7 DEF KnownAfter
  <2>2. S # {} => x[Max(S)] = locs[Max(S)]
    <3>1. S # {} => Max(S) \in 1 .. n
      BY <1>6, LargestIs
    <3> QED BY <1>3, <3>1
  <2>3. (S = {} => g = "") /\ (S # {} => g = site_group[locs[Max(S)]])
    BY <1>1, <1>4 DEF Remembered
  <2> QED BY <1>2, <1>3, <1>7, <2>1, <2>2, <2>3 DEF Remembered
<1>8. CASE site_group[l] # ""
  <2>1. Known(x, n + 1) = S \cup {n + 1}
    BY <1>K, <1>4, <1>8 DEF KnownAfter
  <2>2. PICK T : T = S \cup {n + 1}
    OBVIOUS
  <2>3. T # {} /\ T \subseteq 1 .. n + 1 /\ n + 1 \in T /\ \A y \in T : y <= n + 1
    BY <1>6, <2>2
  <2>4. PICK m \in Nat : m = n + 1
    OBVIOUS
  <2>5. Max(T) = n + 1
    <3>1. T \subseteq 1 .. m /\ m \in T /\ \A y \in T : y <= m
      BY <2>3, <2>4
    <3> QED BY <2>4, <3>1, LargestOf
  <2> QED BY <1>2, <1>3, <1>8, <2>1, <2>2, <2>3, <2>5 DEF Remembered
<1> QED BY <1>7, <1>8

\* A report of another location than the last is a move, one of the same is none.
LEMMA MovesAfter ==
    ASSUME NEW locs \in Seq(Locs), NEW l \in Locs, NEW n \in Nat, NEW x,
           Extended(x, locs, l, n), NEW last, NEW g, Remembered(last, g, locs)
    PROVE  /\ Moves(locs) \subseteq 1 .. n
           /\ last = l => Moves(x) = Moves(locs)
           /\ last # l => Moves(x) = Moves(locs) \cup {n + 1}
<1>1. /\ (\A j \in 1 .. n : x[j] = locs[j]) /\ x[n + 1] = l
      /\ DOMAIN locs = 1 .. n /\ DOMAIN x = 1 .. n + 1 /\ n = Len(locs)
  BY DEF Extended
<1>2. \A i \in 1 .. n : i \in Moves(x) <=> i \in Moves(locs)
  <2>1. ASSUME NEW i \in 1 .. n, i # 1  PROVE x[i - 1] = locs[i - 1] /\ x[i] = locs[i]
    <3>1. i - 1 \in 1 .. n
      BY <2>1
    <3> QED BY <1>1, <3>1
  <2>2. \A i \in 1 .. n : i \in DOMAIN x /\ i \in DOMAIN locs
    BY <1>1
  <2> QED BY <2>1, <2>2 DEF Moves
<1>3. n + 1 \in Moves(x) <=> last # l
  <2>1. n + 1 \in DOMAIN x
    BY <1>1
  <2>2. CASE locs = <<>>
    <3>1. n = 0 /\ last = Nowhere
      BY <1>1, <2>2 DEF Remembered
    <3>2. last # l
      BY <3>1, AFAssumption DEF AFAssumption
    <3> QED BY <2>1, <3>1, <3>2 DEF Moves
  <2>3. CASE locs # <<>>
    <3>1. n # 0 /\ n + 1 # 1 /\ n \in 1 .. n /\ n + 1 - 1 = n
      BY <1>1, <2>3
    <3>2. last = locs[n]
      BY <1>1, <2>3 DEF Remembered
    <3>3. x[n + 1 - 1] = last /\ x[n + 1] = l
      BY <1>1, <3>1, <3>2
    <3>4. n + 1 \in Moves(x) <=> x[n + 1] # x[n + 1 - 1]
      BY <2>1, <3>1 DEF Moves
    <3> QED BY <3>3, <3>4
  <2> QED BY <2>2, <2>3
<1>4. Moves(x) \subseteq 1 .. n + 1 /\ Moves(locs) \subseteq 1 .. n
  BY <1>1 DEF Moves
<1>5. 1 .. n + 1 = (1 .. n) \cup {n + 1} /\ n + 1 \notin 1 .. n
  OBVIOUS
<1> QED BY <1>2, <1>3, <1>4, <1>5

\* The rows of tr that are at the places rows are the moves in locs.
Listing(row, locs, tr) ==
    \A i \in DOMAIN row :
        /\ tr[row[i]].loc = locs[i] /\ tr[row[i]].kind = Named(locs, i)
        /\ \A j \in DOMAIN row : j < i => row[j] < row[i]
Listed(locs, tr, rows) ==
    \E row \in Surjection(Moves(locs), rows) : Listing(row, locs, tr)

\* Nothing was reported, nothing is listed.
LEMMA ListedNone == ASSUME NEW tr  PROVE Listed(<<>>, tr, {})
<1>1. Moves(<<>>) = {}
  BY DEF Moves
<1>2. PICK row : row = [i \in {} |-> 0]
  OBVIOUS
<1>3. row \in [{} -> {}] /\ DOMAIN row = {}
  BY <1>2
<1>4. row \in Surjection({}, {})
  BY <1>3 DEF Surjection
<1> QED BY <1>1, <1>3, <1>4 DEF Listed, Listing

\* A row about another UE, or of another start, leaves the listing alone.
LEMMA ListedOther ==
    ASSUME NEW locs, NEW tr \in Seq(Rows), NEW r \in Rows, NEW rows, rows \subseteq DOMAIN tr,
           Listed(locs, tr, rows)
    PROVE  Listed(locs, Append(tr, r), rows)
<1>1. PICK row \in Surjection(Moves(locs), rows) : Listing(row, locs, tr)
  BY DEF Listed
<1>2. row \in [Moves(locs) -> rows]
  BY DEF Surjection
<1>3. PICK x : x = Append(tr, r)
  OBVIOUS
<1>4. \A i \in DOMAIN tr : x[i] = tr[i]
  BY <1>3, OneMore DEF Extended
<1>5. \A i \in DOMAIN row : x[row[i]] = tr[row[i]]
  BY <1>2, <1>4
<1>6. Listing(row, locs, x)
  BY <1>1, <1>5 DEF Listing
<1> QED BY <1>3, <1>6 DEF Listed

\* A report of the last location again: no move, no row.
LEMMA ListedAgain ==
    ASSUME NEW locs \in Seq(Locs), NEW l \in Locs, NEW last, NEW g, Remembered(last, g, locs),
           NEW tr, NEW rows, Listed(locs, tr, rows), last = l
    PROVE  Listed(Append(locs, l), tr, rows)
<1>1. PICK n \in Nat : n = Len(locs)
  OBVIOUS
<1>2. PICK x : x = Append(locs, l)
  OBVIOUS
<1>E. Extended(x, locs, l, n)
  BY <1>1, <1>2, OneMore
<1>3. Moves(locs) \subseteq 1 .. n /\ Moves(x) = Moves(locs)
  BY <1>E, MovesAfter
<1>4. PICK row \in Surjection(Moves(locs), rows) : Listing(row, locs, tr)
  BY DEF Listed
<1>5. DOMAIN row = Moves(locs)
  BY DEF Surjection
<1>6. \A i \in 1 .. n : x[i] = locs[i] /\ Named(x, i) = Named(locs, i)
  BY <1>E, NamedBefore DEF Extended
<1>7. Listing(row, x, tr)
  BY <1>3, <1>4, <1>5, <1>6 DEF Listing
<1> QED BY <1>2, <1>3, <1>7 DEF Listed

\* A report of another location: one more move, and a row for it.
LEMMA ListedMove ==
    ASSUME NEW locs \in Seq(Locs), NEW l \in Locs, NEW last, NEW g, Remembered(last, g, locs),
           NEW tr \in Seq(Rows), NEW rows, rows \subseteq DOMAIN tr, Listed(locs, tr, rows),
           last # l, NEW r \in Rows, r.loc = l, r.kind = KindOf(g, l)
    PROVE  Listed(Append(locs, l), Append(tr, r), rows \cup {Len(tr) + 1})
<1>1. PICK n \in Nat : n = Len(locs)
  OBVIOUS
<1>2. PICK x : x = Append(locs, l)
  OBVIOUS
<1>E. Extended(x, locs, l, n)
  BY <1>1, <1>2, OneMore
<1>3. Moves(locs) \subseteq 1 .. n /\ Moves(x) = Moves(locs) \cup {n + 1}
  BY <1>E, MovesAfter
<1>4. PICK row \in Surjection(Moves(locs), rows) : Listing(row, locs, tr)
  BY DEF Listed
<1>5. /\ row \in [Moves(locs) -> rows]
      /\ \A t \in rows : \E i \in Moves(locs) : row[i] = t
  BY DEF Surjection
<1>6. /\ \A i \in 1 .. n : x[i] = locs[i] /\ Named(x, i) = Named(locs, i)
      /\ x[n + 1] = l /\ Named(x, n + 1) = KindOf(g, l)
  BY <1>E, NamedBefore, NamedLast DEF Extended
<1>7. PICK m \in Nat : m = Len(tr)
  OBVIOUS
<1>8. PICK y : y = Append(tr, r)
  OBVIOUS
<1>9. DOMAIN tr = 1 .. m /\ (\A i \in 1 .. m : y[i] = tr[i]) /\ y[m + 1] = r
  BY <1>7, <1>8, OneMore DEF Extended
<1>10. PICK more : more = [i \in Moves(x) |-> IF i = n + 1 THEN m + 1 ELSE row[i]]
  OBVIOUS
<1>11. n + 1 \notin 1 .. n /\ n + 1 \notin Moves(locs)
  BY <1>3
<1>12. /\ DOMAIN more = Moves(locs) \cup {n + 1} /\ more[n + 1] = m + 1
       /\ \A i \in Moves(locs) : more[i] = row[i] /\ row[i] \in rows
  BY <1>3, <1>5, <1>10, <1>11
<1>13. more \in Surjection(Moves(x), rows \cup {m + 1})
  <2>1. more \in [Moves(x) -> rows \cup {m + 1}]
    BY <1>3, <1>10, <1>12
  <2>2. \A t \in rows \cup {m + 1} : \E i \in Moves(x) : more[i] = t
    BY <1>3, <1>5, <1>12
  <2> QED BY <2>1, <2>2 DEF Surjection
<1>14. ASSUME NEW i \in DOMAIN more
       PROVE  y[more[i]].loc = x[i] /\ y[more[i]].kind = Named(x, i)
  <2>1. CASE i = n + 1
    BY <1>6, <1>9, <1>12, <2>1
  <2>2. CASE i \in Moves(locs)
    <3>1. more[i] = row[i] /\ y[row[i]] = tr[row[i]]
      BY <1>9, <1>12, <2>2
    <3>2. tr[row[i]].loc = locs[i] /\ tr[row[i]].kind = Named(locs, i)
      BY <1>4, <1>5, <2>2 DEF Listing
    <3>3. x[i] = locs[i] /\ Named(x, i) = Named(locs, i)
      BY <1>3, <1>6, <2>2
    <3> QED BY <3>1, <3>2, <3>3
  <2> QED BY <1>12, <2>1, <2>2
<1>15. ASSUME NEW i \in DOMAIN more, NEW j \in DOMAIN more, j < i
       PROVE  more[j] < more[i]
  <2>1. j \in Moves(locs)
    BY <1>3, <1>12, <1>15
  <2>2. more[j] = row[j] /\ row[j] \in 1 .. m
    BY <1>9, <1>12, <2>1
  <2>3. CASE i = n + 1
    BY <1>12, <2>2, <2>3
  <2>4. CASE i \in Moves(locs)
    <3>1. row[j] < row[i]
      BY <1>4, <1>5, <1>15, <2>1, <2>4 DEF Listing
    <3> QED BY <1>12, <2>2, <2>4, <3>1
  <2> QED BY <1>12, <2>3, <2>4
<1>16. Listing(more, x, y)
  BY <1>14, <1>15 DEF Listing
<1> QED BY <1>2, <1>7, <1>8, <1>13, <1>16 DEF Listed

\* What TrailIsMoves needs to be inductive: no row is of a start to come, a
\* process begins with nothing seen, and _last_loc and _last_group are what the
\* reports handled so far make them.
TrailInv ==
    /\ seen \in [UEs -> Seq(Locs)]
    /\ last_loc \in [UEs -> Locs \cup {Nowhere}] /\ DOMAIN last_group = UEs
    /\ \A i \in DOMAIN trail : trail[i].start <= starts
    /\ phase = "down" => \A u \in UEs : seen[u] = <<>>
    /\ \A u \in UEs : Remembered(last_loc[u], last_group[u], seen[u])
    /\ TrailIsMoves

\* TrailIsMoves, of one UE.
LEMMA MovesListed ==
    TrailIsMoves <=> (phase # "down" => \A u \in UEs : Listed(seen[u], trail, RowsOf(u)))
  BY DEF TrailIsMoves, Listed, Listing

\* The same of the next state.
LEMMA MovesListedNext ==
    TrailIsMoves' <=> (phase' # "down" => \A u \in UEs : Listed(seen'[u], trail', RowsOf(u)'))
  BY DEF TrailIsMoves, Listed, Listing, Known, Named, Moves

\* Of a UE not heard of nothing is remembered.
LEMMA NothingRemembered == Remembered(Nowhere, "", <<>>)
  BY DEF Remembered, Known

\* A step that handles no report and neither starts nor ends the process.
LEMMA QuietTrailInv ==
    ASSUME TrailInv, UNCHANGED <<seen, last_loc, last_group, trail, starts>>,
           phase' = "down" <=> phase = "down"
    PROVE  TrailInv'
<1>1. \A u : RowsOf(u)' = RowsOf(u)
  BY DEF RowsOf
<1>2. TrailIsMoves'
  BY <1>1, MovesListed, MovesListedNext DEF TrailInv
<1>3. \A u \in UEs : Remembered(last_loc'[u], last_group'[u], seen'[u])
  BY DEF TrailInv
<1>4. \A u \in UEs : Remembered(last_loc[u], last_group[u], seen[u])'
  BY <1>3 DEF Remembered, Known
<1> QED BY <1>2, <1>4 DEF TrailInv

\* A process starts: it has written no row yet.
LEMMA StartTrailInv ==
    ASSUME FileInv, TrailInv, Start
    PROVE  TrailInv'
<1>1. /\ phase = "down" /\ phase' = "subscribing" /\ starts' = starts + 1
      /\ UNCHANGED <<seen, last_loc, last_group, trail>>
  BY DEF Start, memory
<1>2. starts \in Nat /\ trail \in Seq(Rows)
  BY DEF FileInv, FileType
<1>3. \A i \in DOMAIN trail : trail[i].start \in Nat /\ trail[i].start <= starts
  <2>1. \A i \in DOMAIN trail : trail[i] \in Rows
    BY <1>2
  <2> QED BY <2>1 DEF TrailInv, Rows
<1>4. \A u : RowsOf(u)' = {}
  BY <1>1, <1>2, <1>3 DEF RowsOf
<1>5. \A u \in UEs : seen'[u] = <<>>
  BY <1>1 DEF TrailInv
<1>6. \A u \in UEs : Listed(seen'[u], trail', RowsOf(u)')
  BY <1>4, <1>5, ListedNone
<1>7. TrailIsMoves'
  BY <1>6, MovesListedNext
<1>8. \A i \in DOMAIN trail' : trail'[i].start <= starts'
  BY <1>1, <1>2, <1>3
<1>9. \A u \in UEs : Remembered(last_loc[u], last_group[u], seen[u])'
  <2>1. \A u \in UEs : Remembered(last_loc'[u], last_group'[u], seen'[u])
    BY <1>1 DEF TrailInv
  <2> QED BY <2>1 DEF Remembered, Known
<1> QED BY <1>1, <1>7, <1>8, <1>9 DEF TrailInv

\* A process ends, and with it what it remembered.
LEMMA GoneTrailInv ==
    ASSUME TrailInv, Gone, UNCHANGED <<trail, starts>>
    PROVE  TrailInv'
<1>1. /\ phase' = "down" /\ last_loc' = [u \in UEs |-> Nowhere]
      /\ last_group' = [u \in UEs |-> ""] /\ seen' = [u \in UEs |-> <<>>]
  BY DEF Gone
<1>2. TrailIsMoves'
  BY <1>1 DEF TrailIsMoves
<1>3. \A u \in UEs : last_loc'[u] = Nowhere /\ last_group'[u] = "" /\ seen'[u] = <<>>
  BY <1>1
<1>4. \A u \in UEs : Remembered(last_loc'[u], last_group'[u], seen'[u])
  BY <1>3, NothingRemembered
<1>5. \A u \in UEs : Remembered(last_loc[u], last_group[u], seen[u])'
  BY <1>4 DEF Remembered, Known
<1>6. seen' \in [UEs -> Seq(Locs)]
  <2>1. <<>> \in Seq(Locs)
    OBVIOUS
  <2> QED BY <1>1, <2>1
<1>7. last_loc' \in [UEs -> Locs \cup {Nowhere}] /\ DOMAIN last_group' = UEs
  BY <1>1
<1> QED BY <1>2, <1>3, <1>5, <1>6, <1>7 DEF TrailInv

\* handle_report gets a location: a row is added exactly when it is a move.
LEMMA LocatedTrailInv ==
    ASSUME FileInv, TrailInv, phase # "down", UNCHANGED <<phase, starts>>,
           NEW w \in UEs, NEW l \in Locs, Located(w, l),
           seen' = [seen EXCEPT ![w] = Append(@, l)],
           NEW body, body = handling.body, body \in Nat
    PROVE  TrailInv'
<1>1. /\ trail \in Seq(Rows) /\ starts \in Nat /\ seen \in [UEs -> Seq(Locs)]
      /\ last_loc \in [UEs -> Locs \cup {Nowhere}] /\ DOMAIN last_group = UEs
  BY DEF FileInv, FileType, TrailInv
<1>2. PICK locs \in Seq(Locs) : locs = seen[w]
  BY <1>1
<1>3. PICK g : g = last_group[w]
  OBVIOUS
<1>4. PICK last : last = last_loc[w]
  OBVIOUS
<1>5. Remembered(last, g, locs)
  BY <1>2, <1>3, <1>4 DEF TrailInv
<1>6. PICK h : h = IF site_group[l] = "" THEN g ELSE site_group[l]
  OBVIOUS
<1>8. /\ last_loc' = [last_loc EXCEPT ![w] = l]
      /\ last_group' = [last_group EXCEPT ![w] = h]
      /\ seen' = [seen EXCEPT ![w] = Append(locs, l)]
  BY <1>1, <1>2, <1>3, <1>6 DEF Located
<1>9. Append(locs, l) \in Seq(Locs)
  BY OneMore
<1>10. /\ seen' \in [UEs -> Seq(Locs)]
       /\ last_loc' \in [UEs -> Locs \cup {Nowhere}] /\ DOMAIN last_group' = UEs
       /\ seen'[w] = Append(locs, l) /\ last_loc'[w] = l /\ last_group'[w] = h
       /\ \A u \in UEs : u # w => /\ seen'[u] = seen[u] /\ last_loc'[u] = last_loc[u]
                                  /\ last_group'[u] = last_group[u]
  BY <1>1, <1>8, <1>9
<1>11. Remembered(l, h, Append(locs, l))
  BY <1>5, <1>6, RememberedAfter
<1>12. \A u \in UEs : Remembered(last_loc'[u], last_group'[u], seen'[u])
  BY <1>10, <1>11 DEF TrailInv
<1>13. \A u \in UEs : Remembered(last_loc[u], last_group[u], seen[u])'
  BY <1>12 DEF Remembered, Known
<1>14. \A u \in UEs : Listed(seen[u], trail, RowsOf(u))
  BY MovesListed DEF TrailInv
<1>15. \A u : RowsOf(u) \subseteq DOMAIN trail
  BY DEF RowsOf
<1>16. PICK r : r = Row(w, l)
  OBVIOUS
<1>17. /\ r \in Rows /\ r.supi = w /\ r.start = starts /\ r.loc = l
       /\ r.kind = KindOf(g, l)
  <2>1. Kind(w, l) = KindOf(g, l) /\ Kind(w, l) \in {"initial", "sector", "site"}
    BY <1>3 DEF Kind, KindOf
  <2> QED BY <1>1, <1>16, <2>1 DEF Row, Rows
<1>18. CASE last = l
  <2>1. trail' = trail
    BY <1>4, <1>18 DEF Located
  <2>2. \A u : RowsOf(u)' = RowsOf(u)
    BY <2>1 DEF RowsOf
  <2>3. Listed(Append(locs, l), trail, RowsOf(w))
    BY <1>2, <1>5, <1>14, <1>18, ListedAgain
  <2>4. \A u \in UEs : Listed(seen'[u], trail', RowsOf(u)')
    BY <1>10, <1>14, <2>1, <2>2, <2>3
  <2>5. TrailIsMoves'
    BY <2>4, MovesListedNext
  <2> QED BY <1>10, <1>13, <2>1, <2>5 DEF TrailInv
<1>19. CASE last # l
  <2>1. trail' = Append(trail, r)
    BY <1>4, <1>16, <1>19 DEF Located
  <2>2. PICK m \in Nat : m = Len(trail)
    BY <1>1
  <2>3. /\ DOMAIN trail = 1 .. m /\ DOMAIN trail' = 1 .. m + 1
        /\ (\A i \in 1 .. m : trail'[i] = trail[i]) /\ trail'[m + 1] = r
    BY <1>1, <1>17, <2>1, <2>2, OneMore DEF Extended
  <2>4. DOMAIN trail' = DOMAIN trail \cup {m + 1} /\ m + 1 \notin DOMAIN trail
    BY <2>3
  <2>5. RowsOf(w)' = RowsOf(w) \cup {m + 1}
    BY <1>17, <2>3, <2>4 DEF RowsOf
  <2>6. \A u : u # w => RowsOf(u)' = RowsOf(u)
    BY <1>17, <2>3, <2>4 DEF RowsOf
  <2>7. Listed(Append(locs, l), trail', RowsOf(w)')
    <3>1. Listed(locs, trail, RowsOf(w))
      BY <1>2, <1>14
    <3>2. Listed(Append(locs, l), Append(trail, r), RowsOf(w) \cup {Len(trail) + 1})
      BY <1>1, <1>5, <1>15, <1>17, <1>19, <3>1, ListedMove
    <3> QED BY <2>1, <2>2, <2>5, <3>2
  <2>8. ASSUME NEW u \in UEs, u # w  PROVE Listed(seen'[u], trail', RowsOf(u)')
    <3>1. Listed(seen[u], Append(trail, r), RowsOf(u))
      BY <1>1, <1>14, <1>15, <1>17, ListedOther
    <3> QED BY <1>10, <2>1, <2>6, <2>8, <3>1
  <2>9. TrailIsMoves'
    <3>1. \A u \in UEs : Listed(seen'[u], trail', RowsOf(u)')
      BY <1>10, <2>7, <2>8
    <3> QED BY <3>1, MovesListedNext
  <2>10. \A i \in DOMAIN trail' : trail'[i].start <= starts'
    BY <1>1, <1>17, <2>3, <2>4 DEF TrailInv
  <2> QED BY <1>10, <1>13, <2>9, <2>10 DEF TrailInv
<1> QED BY <1>18, <1>19

\* Each step of the specification keeps TrailInv.
LEMMA TrailStep ==
    ASSUME FileInv, TrailInv, [Next]_vars
    PROVE  TrailInv'
<1>1. CASE Start
  BY <1>1, StartTrailInv
<1>2. CASE Subscribe \/ Serve \/ Shutdown \/ Unsubscribe \/ RemoveRaw
  <2>1. /\ UNCHANGED <<seen, last_loc, last_group, trail, starts>>
        /\ phase' = "down" <=> phase = "down"
    BY <1>2 DEF Subscribe, Serve, Shutdown, Unsubscribe, RemoveRaw, files, memory
  <2> QED BY <2>1, QuietTrailInv
<1>3. CASE \E b \in Bodies : Receive(b)
  <2>1. UNCHANGED <<phase, seen, last_loc, last_group, trail, starts>>
    BY <1>3 DEF Receive, memory
  <2> QED BY <2>1, QuietTrailInv
<1>4. CASE WriteRest \/ Respond
  <2>1. UNCHANGED <<phase, seen, last_loc, last_group, trail, starts>>
    BY <1>4 DEF WriteRest, Respond, memory, files
  <2> QED BY <2>1, QuietTrailInv
<1>5. CASE HandleReport
  <2>1. handling # Idle /\ handling.left # <<>> /\ UNCHANGED <<phase, starts>>
    BY <1>5 DEF HandleReport
  <2>2. /\ handling \in [body : Nat, left : Seq(Reports), rest : BOOLEAN]
        /\ phase # "down"
    BY <2>1 DEF FileInv, FileType
  <2>3. handling.left \in Seq(Reports) /\ handling.body \in Nat
    BY <2>2
  <2>4. PICK rep \in Reports : rep = Head(handling.left)
    BY <2>1, <2>3, ContainsTail
  <2>5. CASE rep.type = "LOCATION_REPORT"
    <3>1. /\ Located(rep.supi, rep.loc)
          /\ seen' = [seen EXCEPT ![rep.supi] = Append(@, rep.loc)]
      BY <1>5, <2>4, <2>5 DEF HandleReport
    <3>2. rep.supi \in UEs /\ rep.loc \in Locs
      BY <2>5 DEF Reports
    <3> QED BY <2>1, <2>2, <2>3, <3>1, <3>2, LocatedTrailInv
  <2>6. CASE rep.type # "LOCATION_REPORT"
    <3>1. UNCHANGED <<seen, last_loc, last_group, trail>>
      BY <1>5, <2>4, <2>6 DEF HandleReport
    <3> QED BY <2>1, <3>1, QuietTrailInv
  <2> QED BY <2>5, <2>6
<1>6. CASE Stopped \/ Crash
  <2>1. Gone /\ UNCHANGED <<trail, starts>>
    BY <1>6 DEF Stopped, Crash
  <2> QED BY <2>1, GoneTrailInv
<1>7. CASE UNCHANGED afvars
  <2>1. UNCHANGED <<phase, seen, last_loc, last_group, trail, starts>>
    BY <1>7 DEF afvars
  <2> QED BY <2>1, QuietTrailInv
<1>8. AFNext \/ UNCHANGED afvars
  BY DEF Next, vars
<1> QED BY <1>1, <1>2, <1>3, <1>4, <1>5, <1>6, <1>7, <1>8 DEF AFNext

\* The trail lists the moves, each called what it is: handle_report writes a row
\* of a UE exactly when its location changed, whatever else is reported between.
THEOREM TrailListsMoves == Spec => []TrailIsMoves
<1>1. Init => TrailInv
  <2>1. SUFFICES ASSUME Init  PROVE TrailInv
    OBVIOUS
  <2>2. /\ phase = "down" /\ trail = <<>> /\ last_loc = [u \in UEs |-> Nowhere]
        /\ last_group = [u \in UEs |-> ""] /\ seen = [u \in UEs |-> <<>>]
    BY <2>1 DEF Init, AFInit
  <2>3. TrailIsMoves
    BY <2>2 DEF TrailIsMoves
  <2>4. \A u \in UEs : last_loc[u] = Nowhere /\ last_group[u] = "" /\ seen[u] = <<>>
    BY <2>2
  <2>5. \A u \in UEs : Remembered(last_loc[u], last_group[u], seen[u])
    BY <2>4, NothingRemembered
  <2>6. seen \in [UEs -> Seq(Locs)]
    <3>1. <<>> \in Seq(Locs)
      OBVIOUS
    <3> QED BY <2>2, <3>1
  <2>7. last_loc \in [UEs -> Locs \cup {Nowhere}] /\ DOMAIN last_group = UEs
    BY <2>2
  <2>8. DOMAIN trail = {}
    <3>1. trail = <<>>
      BY <2>2
    <3> QED BY <3>1
  <2> QED BY <2>3, <2>4, <2>5, <2>6, <2>7, <2>8 DEF TrailInv
<1>2. FileInv /\ TrailInv /\ [Next]_vars => TrailInv'
  BY TrailStep
<1>3. TrailInv => TrailIsMoves
  BY DEF TrailInv
<1> QED BY <1>1, <1>2, <1>3, FilesInOrder, PTL DEF Spec

-----------------------------------------------------------------------------
(* The tracker's follow                                                     *)

\* The types.  Until the first file has been opened and skipped, nothing has
\* been handled; a file that follow has closed is older than the newest one.
ReadType ==
    /\ state \in {"waiting", "found", "seeking", "reading", "asleep", "closed", "dead"}
    /\ ino \in 0 .. Len(raw)
    /\ first \in Nat /\ offset \in Nat
    /\ ino # NoFile => first <= offset /\ offset <= Len(raw[ino])
    /\ handled \in Seq(Nat)
    /\ state \in {"waiting", "found"} => ino = NoFile
    /\ state \in {"waiting", "found", "seeking"} => handled = <<>>
    /\ state = "seeking" => ino # NoFile
    /\ state = "closed" => ino < Len(raw)

\* A notification that has been handled ends in front of where follow is.
HandledInv ==
    \A k \in DOMAIN handled :
      \E g \in DOMAIN raw : \E i \in DOMAIN raw[g] :
        /\ raw[g][i].part # "head"
        /\ raw[g][i].body = handled[k]
        /\ g < ino \/ (g = ino /\ i <= offset)

ReadInv == ReadType /\ HandledInv /\ HandledInOrder /\ OnlyTornLinesLost

\* What readline returns: it ends at the first end of a payload that has not
\* been read, or where the file ends if there is none.
LEMMA LineFacts ==
    ASSUME FileInv, ReadInv, Unread # <<>>
    PROVE  /\ ino \in 1 .. Len(raw) /\ raw[ino] \in Seq(Pieces)
           /\ LineLength \in 1 .. Len(raw[ino]) - offset
           /\ Line \in Seq(Pieces) /\ Len(Line) = LineLength
           /\ \A i \in 1 .. LineLength : Line[i] = raw[ino][offset + i]
           /\ \A i \in 1 .. LineLength - 1 : raw[ino][offset + i].part = "head"
<1> DEFINE f == raw[ino]
<1>1. ino \in 1 .. Len(raw) /\ f \in Seq(Pieces) /\ offset \in Nat /\ offset <= Len(f)
  <2>1. ino # NoFile
    BY DEF Unread
  <2>2. ino \in 1 .. Len(raw) /\ raw \in Seq(Seq(Pieces))
    BY <2>1 DEF FileInv, FileType, ReadInv, ReadType, NoFile
  <2> QED BY <2>1, <2>2 DEF ReadInv, ReadType
<1>2. Unread = SubSeq(f, offset + 1, Len(f))
  BY <1>1 DEF Unread, NoFile
<1> HIDE DEF f
<1>3. /\ Unread \in Seq(Pieces) /\ Len(Unread) = Len(f) - offset
      /\ \A i \in 1 .. Len(f) - offset : Unread[i] = f[offset + i]
  <2>1. Len(f) \in Nat /\ DOMAIN f = 1 .. Len(f)
    BY <1>1
  <2>2. SubSeq(f, offset + 1, Len(f)) = [i \in 1 .. Len(f) - offset |-> f[offset + i]]
    BY <1>1, <2>1
  <2>3. \A i \in 1 .. Len(f) - offset : offset + i \in 1 .. Len(f) /\ f[offset + i] \in Pieces
    BY <1>1, <2>1
  <2>4. Unread = [i \in 1 .. Len(f) - offset |-> f[offset + i]]
    BY <1>2, <2>2
  <2>5. Len(f) - offset \in Nat
    BY <1>1, <2>1
  <2> QED BY <2>3, <2>4, <2>5
<1>4. Len(Unread) > 0 /\ DOMAIN Unread = 1 .. Len(Unread) /\ Len(Unread) \in Nat
  BY <1>3
<1>5. /\ LineLength \in 1 .. Len(Unread)
      /\ \A i \in 1 .. LineLength - 1 : Unread[i].part = "head"
  <2>1. CASE LineEnds = {}
    <3>1. LineLength = Len(Unread)
      BY <2>1 DEF LineLength
    <3>2. \A i \in DOMAIN Unread : Unread[i].part = "head"
      BY <2>1 DEF LineEnds
    <3>3. \A i \in 1 .. LineLength - 1 : i \in DOMAIN Unread
      BY <1>4, <3>1
    <3>4. LineLength \in 1 .. Len(Unread)
      BY <1>4, <3>1
    <3> QED BY <3>2, <3>3, <3>4
  <2>2. CASE LineEnds # {}
    <3>1. LineEnds \subseteq 1 .. Len(Unread)
      BY <1>4 DEF LineEnds
    <3>2. \E i \in LineEnds : \A j \in LineEnds : i <= j
      <4>1. LineEnds \subseteq Nat
        BY <3>1
      <4> QED BY <2>2, <4>1, LeastNatural
    <3>3. LineLength \in LineEnds /\ \A j \in LineEnds : LineLength <= j
      BY <2>2, <3>2 DEF LineLength
    <3>4. ASSUME NEW i \in 1 .. LineLength - 1  PROVE Unread[i].part = "head"
      <4>1. i \in 1 .. Len(Unread) /\ ~(LineLength <= i)
        BY <1>4, <3>1, <3>3
      <4>2. i \notin LineEnds
        BY <3>3, <4>1
      <4> QED BY <1>4, <4>1, <4>2 DEF LineEnds
    <3> QED BY <3>1, <3>3, <3>4
  <2> QED BY <2>1, <2>2
<1>6. Line \in Seq(Pieces) /\ Len(Line) = LineLength /\ \A i \in 1 .. LineLength : Line[i] = Unread[i]
  BY <1>3, <1>4, <1>5 DEF Line
<1>7. \A i \in 1 .. LineLength : i \in 1 .. Len(f) - offset /\ Unread[i] = f[offset + i]
  BY <1>3, <1>5
<1>8. \A i \in 1 .. LineLength : Line[i] = f[offset + i]
  BY <1>6, <1>7
<1>9. \A i \in 1 .. LineLength - 1 : f[offset + i].part = "head"
  <2>1. \A i \in 1 .. LineLength - 1 : i \in 1 .. LineLength
    BY <1>4, <1>5
  <2> QED BY <1>5, <1>7, <2>1
<1>10. LineLength \in 1 .. Len(f) - offset
  BY <1>3, <1>5
<1> QED BY <1>1, <1>6, <1>8, <1>9, <1>10 DEF f

\* A line that parse_line accepts ends with the end of a payload; a payload
\* written in one piece that is a line of its own is accepted.
LEMMA JSONFacts ==
    ASSUME NEW line \in Seq(Pieces), Len(line) > 0
    PROVE  /\ IsJSON(line) => line[Len(line)].part # "head"
           /\ Last(line) = line[Len(line)]
           /\ (Len(line) = 1 /\ line[1].part = "whole") => IsJSON(line)
<1>1. Last(line) = line[Len(line)] /\ Last(line) \in Pieces
  BY DEF Last
<1>2. ASSUME line = <<Piece(Last(line).body, "whole")>>  PROVE line[Len(line)].part # "head"
  <2>1. PICK b : line = <<Piece(b, "whole")>>
    BY <1>2
  <2>2. Len(line) = 1 /\ line[1] = Piece(b, "whole")
    BY <2>1
  <2> QED BY <2>2 DEF Piece
<1>3. ASSUME line = <<Piece(Last(line).body, "head"), Piece(Last(line).body, "tail")>>
      PROVE  line[Len(line)].part # "head"
  <2>1. PICK b : line = <<Piece(b, "head"), Piece(b, "tail")>>
    BY <1>3
  <2>2. Len(line) = 2 /\ line[2] = Piece(b, "tail")
    BY <2>1
  <2> QED BY <2>2 DEF Piece
<1>4. ASSUME Len(line) = 1, line[1].part = "whole"  PROVE IsJSON(line)
  <2>1. Last(line) = line[1] /\ line[1] \in Pieces
    BY <1>1, <1>4
  <2>2. line[1] = Piece(Last(line).body, "whole")
    BY <1>4, <2>1 DEF Piece, Pieces
  <2>3. line = <<line[1]>>
    BY <1>4
  <2>4. line = <<Piece(Last(line).body, "whole")>>
    BY <2>2, <2>3
  <2> QED BY <2>4 DEF IsJSON
<1> QED BY <1>1, <1>2, <1>3, <1>4 DEF IsJSON

\* The AF's steps, and stuttering: nothing that follow has read changes.
LEMMA AFReadInv ==
    ASSUME FileInv, FileInv', ReadInv, Grown, UNCHANGED rdvars
    PROVE  ReadInv'
<1> USE DEF ReadInv
<1>1. UNCHANGED <<state, ino, first, offset, handled>>
  BY DEF rdvars
<1>2. /\ raw \in Seq(Seq(Pieces)) /\ raw' \in Seq(Seq(Pieces))
      /\ DOMAIN raw \subseteq DOMAIN raw'
  BY DEF FileInv, FileType, Grown
<1>3. ASSUME NEW g \in DOMAIN raw
      PROVE  /\ raw[g] \in Seq(Pieces) /\ raw'[g] \in Seq(Pieces)
             /\ Len(raw[g]) <= Len(raw'[g])
  <2>1. raw[g] \in Seq(Pieces) /\ raw'[g] \in Seq(Pieces)
    BY <1>2
  <2>2. CASE raw[g] = <<>>
    BY <2>1, <2>2
  <2>3. CASE raw[g] # <<>>
    <3>1. Len(raw[g]) \in DOMAIN raw[g]
      BY <2>1, <2>3
    <3>2. Len(raw[g]) \in DOMAIN raw'[g]
      BY <3>1 DEF Grown
    <3> QED BY <2>1, <3>2
  <2> QED BY <2>1, <2>2, <2>3
<1>4. ino # NoFile => ino \in DOMAIN raw
  BY <1>2 DEF ReadType, NoFile
<1>5. ReadType'
  <2>1. ino' \in 0 .. Len(raw')
    <3>1. ino \in Nat
      BY <1>2 DEF ReadType
    <3> QED BY <1>1, <1>2, <1>4, <3>1 DEF NoFile
  <2>2. ino # NoFile => offset <= Len(raw'[ino])
    <3>1. SUFFICES ASSUME ino # NoFile  PROVE offset <= Len(raw'[ino])
      OBVIOUS
    <3>2. ino \in DOMAIN raw /\ offset <= Len(raw[ino]) /\ offset \in Nat
      BY <1>4, <3>1 DEF ReadType
    <3>3. /\ raw[ino] \in Seq(Pieces) /\ raw'[ino] \in Seq(Pieces)
          /\ Len(raw[ino]) <= Len(raw'[ino])
      BY <1>3, <3>2
    <3> QED BY <3>2, <3>3
  <2>3. state = "closed" => ino < Len(raw')
    <3>1. DOMAIN raw = 1 .. Len(raw) /\ DOMAIN raw' = 1 .. Len(raw')
          /\ Len(raw) \in Nat /\ Len(raw') \in Nat
      BY <1>2
    <3>2. Len(raw) <= Len(raw')
      BY <1>2, <3>1
    <3> QED BY <3>1, <3>2 DEF ReadType
  <2> QED BY <1>1, <2>1, <2>2, <2>3 DEF ReadType
<1>6. HandledInv'
  BY <1>1 DEF HandledInv, Grown
<1>7. HandledInOrder'
  BY <1>1 DEF HandledInOrder
<1>8. OnlyTornLinesLost'
  <2>1. SUFFICES ASSUME ino' # NoFile, NEW i \in first' + 1 .. offset',
                        raw'[ino'][i].part = "whole",
                        i > 1 => raw'[ino'][i - 1].part # "head"
                 PROVE  Contains(handled', raw'[ino'][i].body)
    BY DEF OnlyTornLinesLost
  <2>2. ino \in DOMAIN raw /\ i \in first + 1 .. offset /\ offset <= Len(raw[ino])
        /\ first \in Nat /\ offset \in Nat
    BY <1>1, <1>4, <2>1 DEF ReadType
  <2>3. raw[ino] \in Seq(Pieces) /\ i \in DOMAIN raw[ino] /\ (i > 1 => i - 1 \in DOMAIN raw[ino])
    <3>1. raw[ino] \in Seq(Pieces)
      BY <1>3, <2>2
    <3> QED BY <2>2, <3>1
  <2>4. raw'[ino][i] = raw[ino][i] /\ (i > 1 => raw'[ino][i - 1] = raw[ino][i - 1])
    BY <2>2, <2>3 DEF Grown
  <2>5. Contains(handled, raw[ino][i].body)
    BY <1>1, <2>1, <2>2, <2>4 DEF OnlyTornLinesLost
  <2> QED BY <1>1, <2>4, <2>5
<1> QED BY <1>5, <1>6, <1>7, <1>8

\* Another file, or the first one, is opened: it is newer than the one follow
\* had.
LEMMA OpenedReadInv ==
    ASSUME FileInv, ReadInv, UNCHANGED <<afvars, handled>>,
           path # NoFile, path # ino, ino' = path, first' = 0, offset' = 0,
           state' \in {"reading", "seeking"}, state' = "seeking" => handled = <<>>
    PROVE  ReadInv'
<1> USE DEF ReadInv
<1>1. raw' = raw /\ handled' = handled
  BY DEF afvars
<1>2. path = Len(raw) /\ raw \in Seq(Seq(Pieces))
  BY DEF FileInv, FileType
<1>3. path \in DOMAIN raw /\ raw[path] \in Seq(Pieces) /\ Len(raw[path]) \in Nat
  BY <1>2 DEF NoFile
<1>4. ino \in Nat /\ ino < path
  BY <1>2 DEF ReadType
<1>5. ReadType'
  BY <1>1, <1>2, <1>3 DEF ReadType
<1>6. HandledInv'
  <2>1. SUFFICES ASSUME NEW k \in DOMAIN handled
                 PROVE  \E g \in DOMAIN raw : \E i \in DOMAIN raw[g] :
                          /\ raw[g][i].part # "head"
                          /\ raw[g][i].body = handled[k]
                          /\ g < path \/ (g = path /\ i <= offset')
    BY <1>1 DEF HandledInv
  <2>2. PICK g \in DOMAIN raw : \E i \in DOMAIN raw[g] :
                          /\ raw[g][i].part # "head"
                          /\ raw[g][i].body = handled[k]
                          /\ g < ino \/ (g = ino /\ i <= offset)
    BY <2>1 DEF HandledInv
  <2>3. g < path
    BY <1>2, <1>4, <2>2
  <2> QED BY <2>2, <2>3
<1>7. HandledInOrder'
  BY <1>1 DEF HandledInOrder
<1>8. OnlyTornLinesLost'
  <2>1. \A i \in first' + 1 .. offset' : FALSE
    OBVIOUS
  <2> QED BY <2>1 DEF OnlyTornLinesLost
<1> QED BY <1>5, <1>6, <1>7, <1>8

\* What the first file holds is skipped; nothing has been handled yet.
LEMMA SeekReadInv ==
    ASSUME FileInv, ReadInv, Seek, UNCHANGED afvars
    PROVE  ReadInv'
<1> USE DEF ReadInv
<1>1. /\ state' = "reading" /\ first' = Len(raw[ino]) /\ offset' = Len(raw[ino])
      /\ ino' = ino /\ handled' = handled /\ raw' = raw /\ state = "seeking"
  BY DEF Seek, afvars
<1>2. ino \in 1 .. Len(raw) /\ raw \in Seq(Seq(Pieces)) /\ handled = <<>>
  BY <1>1 DEF ReadType, NoFile, FileInv, FileType
<1>3. raw[ino] \in Seq(Pieces)
  BY <1>2
<1>4. PICK n \in Nat : n = Len(raw[ino])
  BY <1>3
<1>5. ReadType'
  BY <1>1, <1>2, <1>4 DEF ReadType
<1>6. HandledInv' /\ HandledInOrder'
  BY <1>1, <1>2 DEF HandledInv, HandledInOrder
<1>7. OnlyTornLinesLost'
  <2>1. \A i \in n + 1 .. n : FALSE
    OBVIOUS
  <2>2. \A i \in first' + 1 .. offset' : FALSE
    BY <1>1, <1>4, <2>1
  <2> QED BY <2>2 DEF OnlyTornLinesLost
<1> QED BY <1>5, <1>6, <1>7

\* A line is read.  It ends the payload it is accepted for, so that whatever
\* was handled before ends in front of it and is an earlier notification.
LEMMA ReadLineReadInv ==
    ASSUME FileInv, ReadInv, ReadLine, UNCHANGED afvars
    PROVE  ReadInv'
<1> USE DEF ReadInv
<1> DEFINE end == offset + LineLength
           piece == raw[ino][end]
<1>1. /\ state = "reading" /\ Unread # <<>> /\ offset' = end
      /\ handled' = IF IsJSON(Line) THEN Append(handled, Last(Line).body) ELSE handled
      /\ UNCHANGED <<state, ino, first, raw>>
  BY DEF ReadLine, afvars
<1>2. /\ ino \in 1 .. Len(raw) /\ raw[ino] \in Seq(Pieces)
      /\ LineLength \in 1 .. Len(raw[ino]) - offset
      /\ Line \in Seq(Pieces) /\ Len(Line) = LineLength
      /\ \A i \in 1 .. LineLength : Line[i] = raw[ino][offset + i]
      /\ \A i \in 1 .. LineLength - 1 : raw[ino][offset + i].part = "head"
  BY <1>1, LineFacts
<1>3. /\ raw \in Seq(Seq(Pieces)) /\ Len(raw) \in Nat /\ DOMAIN raw = 1 .. Len(raw)
      /\ Len(raw[ino]) \in Nat /\ DOMAIN raw[ino] = 1 .. Len(raw[ino])
      /\ offset \in Nat /\ first \in Nat /\ first <= offset
      /\ handled \in Seq(Nat)
  <2>1. raw \in Seq(Seq(Pieces)) /\ Len(raw) \in Nat /\ DOMAIN raw = 1 .. Len(raw)
    BY DEF FileInv, FileType
  <2>2. Len(raw[ino]) \in Nat /\ DOMAIN raw[ino] = 1 .. Len(raw[ino])
    BY <1>2
  <2>3. offset \in Nat /\ first \in Nat /\ first <= offset /\ handled \in Seq(Nat)
    BY <1>2 DEF ReadType, NoFile
  <2> QED BY <2>1, <2>2, <2>3
<1>4. end \in DOMAIN raw[ino] /\ end > offset /\ end \in Nat /\ piece \in Pieces
  BY <1>2, <1>3
<1>5. Line \in Seq(Pieces) /\ Len(Line) > 0 /\ Line[Len(Line)] = piece
  <2>1. LineLength \in 1 .. LineLength /\ Len(Line) > 0
    BY <1>2, <1>3
  <2>2. Line[LineLength] = raw[ino][offset + LineLength]
    BY <1>2, <2>1
  <2> QED BY <1>2, <2>1, <2>2
<1>6. /\ IsJSON(Line) => piece.part # "head"
      /\ Last(Line) = piece
      /\ (Len(Line) = 1 /\ Line[1].part = "whole") => IsJSON(Line)
  BY <1>5, JSONFacts
<1>7. piece.body \in Nat
  BY <1>4 DEF Pieces
<1> HIDE DEF end, piece
<1>8. /\ handled' \in Seq(Nat)
      /\ \A k \in DOMAIN handled' :
           \/ k \in DOMAIN handled /\ handled'[k] = handled[k]
           \/ k = Len(handled) + 1 /\ handled'[k] = piece.body /\ IsJSON(Line)
      /\ \A y : Contains(handled, y) => Contains(handled', y)
      /\ IsJSON(Line) => Contains(handled', piece.body)
  <2>1. CASE IsJSON(Line)
    <3>1. handled' = Append(handled, piece.body)
      BY <1>1, <1>6, <2>1
    <3>2. DOMAIN handled' = 1 .. Len(handled) + 1 /\ DOMAIN handled = 1 .. Len(handled)
          /\ Len(handled) \in Nat /\ handled'[Len(handled) + 1] = piece.body
          /\ \A k \in 1 .. Len(handled) : handled'[k] = handled[k]
      BY <1>3, <1>7, <3>1
    <3>3. /\ handled' \in Seq(Nat)
          /\ Contains(handled', piece.body)
          /\ \A y : Contains(handled, y) => Contains(handled', y)
      BY <1>3, <1>7, <3>1, ContainsAppend
    <3> QED BY <2>1, <3>2, <3>3
  <2>2. CASE ~IsJSON(Line)
    BY <1>1, <1>3, <2>2
  <2> QED BY <2>1, <2>2
<1>9. ReadType'
  <2>1. ino # NoFile /\ ino' \in 0 .. Len(raw')
    BY <1>1, <1>2, <1>3 DEF NoFile
  <2>2. first' <= offset' /\ offset' <= Len(raw'[ino']) /\ offset' \in Nat
    BY <1>1, <1>3, <1>4
  <2> QED BY <1>1, <1>3, <1>8, <2>1, <2>2 DEF ReadType
<1>10. ASSUME NEW k \in DOMAIN handled, IsJSON(Line)  PROVE handled[k] < piece.body
  <2>1. PICK g \in DOMAIN raw : \E i \in DOMAIN raw[g] :
            /\ raw[g][i].part # "head"
            /\ raw[g][i].body = handled[k]
            /\ g < ino \/ (g = ino /\ i <= offset)
    BY <1>10 DEF HandledInv
  <2>2. PICK i \in DOMAIN raw[g] :
            /\ raw[g][i].part # "head"
            /\ raw[g][i].body = handled[k]
            /\ g < ino \/ (g = ino /\ i <= offset)
    BY <2>1
  <2>3. g < ino \/ (g = ino /\ i < end)
    <3>1. CASE g < ino
      BY <3>1
    <3>2. CASE g = ino /\ i <= offset
      <4>1. i \in Nat
        BY <1>3, <3>2
      <4> QED BY <1>3, <1>4, <3>2, <4>1
    <3> QED BY <2>2, <3>1, <3>2
  <2>4. ino \in DOMAIN raw /\ end \in DOMAIN raw[ino]
    BY <1>2, <1>3, <1>4
  <2>5. raw[g][i].body < raw[ino][end].body
    BY <2>2, <2>3, <2>4 DEF FileInv, OrderInv
  <2> QED BY <2>2, <2>5 DEF piece
<1>11. HandledInOrder'
  <2>1. SUFFICES ASSUME NEW i \in DOMAIN handled', NEW j \in DOMAIN handled', i < j
                 PROVE  handled'[i] < handled'[j]
    BY DEF HandledInOrder
  <2>2. DOMAIN handled = 1 .. Len(handled) /\ Len(handled) \in Nat
        /\ DOMAIN handled' = 1 .. Len(handled')
    BY <1>3, <1>8
  <2>3. i \in DOMAIN handled /\ handled'[i] = handled[i]
    BY <1>8, <2>1, <2>2
  <2>4. CASE j \in DOMAIN handled /\ handled'[j] = handled[j]
    BY <2>1, <2>3, <2>4 DEF HandledInOrder
  <2>5. CASE handled'[j] = piece.body /\ IsJSON(Line)
    BY <1>10, <2>3, <2>5
  <2> QED BY <1>8, <2>4, <2>5
<1>12. HandledInv'
  <2>1. SUFFICES ASSUME NEW k \in DOMAIN handled'
                 PROVE  \E g \in DOMAIN raw : \E i \in DOMAIN raw[g] :
                          /\ raw[g][i].part # "head"
                          /\ raw[g][i].body = handled'[k]
                          /\ g < ino \/ (g = ino /\ i <= end)
    BY <1>1 DEF HandledInv
  <2>2. CASE k \in DOMAIN handled /\ handled'[k] = handled[k]
    <3>1. PICK g \in DOMAIN raw : \E i \in DOMAIN raw[g] :
            /\ raw[g][i].part # "head"
            /\ raw[g][i].body = handled[k]
            /\ g < ino \/ (g = ino /\ i <= offset)
      BY <2>2 DEF HandledInv
    <3>2. PICK i \in DOMAIN raw[g] :
            /\ raw[g][i].part # "head"
            /\ raw[g][i].body = handled[k]
            /\ g < ino \/ (g = ino /\ i <= offset)
      BY <3>1
    <3>3. g < ino \/ (g = ino /\ i <= end)
      <4>1. CASE g < ino
        BY <4>1
      <4>2. CASE g = ino /\ i <= offset
        <5>1. i \in Nat
          BY <1>3, <4>2
        <5> QED BY <1>3, <1>4, <4>2, <5>1
      <4> QED BY <3>2, <4>1, <4>2
    <3> QED BY <2>2, <3>2, <3>3
  <2>3. CASE handled'[k] = piece.body /\ IsJSON(Line)
    <3>1. ino \in DOMAIN raw /\ end \in DOMAIN raw[ino] /\ end <= end
      BY <1>2, <1>3, <1>4
    <3>2. raw[ino][end].part # "head" /\ raw[ino][end].body = handled'[k]
      BY <1>6, <2>3 DEF piece
    <3> QED BY <3>1, <3>2
  <2> QED BY <1>8, <2>2, <2>3
<1>13. OnlyTornLinesLost'
  <2>1. SUFFICES ASSUME NEW i \in first + 1 .. end,
                        raw[ino][i].part = "whole",
                        i > 1 => raw[ino][i - 1].part # "head"
                 PROVE  Contains(handled', raw[ino][i].body)
    BY <1>1 DEF OnlyTornLinesLost
  <2>2. CASE i <= offset
    <3>1. i \in first + 1 .. offset /\ ino # NoFile
      BY <1>2, <1>3, <1>4, <2>2 DEF NoFile
    <3>2. Contains(handled, raw[ino][i].body)
      BY <2>1, <3>1 DEF OnlyTornLinesLost
    <3> QED BY <1>8, <3>2
  <2>3. CASE i > offset
    <3>1. i \in Nat /\ end = offset + LineLength /\ i - offset \in 1 .. LineLength
          /\ offset + (i - offset) = i /\ LineLength \in Nat
      BY <1>2, <1>3, <1>4, <2>3 DEF end
    <3>2. i - offset = LineLength /\ i = end
      <4>1. i - offset \notin 1 .. LineLength - 1
        BY <1>2, <2>1, <3>1
      <4> QED BY <1>3, <3>1, <4>1
    <3>3. LineLength = 1
      <4>1. SUFFICES ASSUME LineLength # 1  PROVE FALSE
        OBVIOUS
      <4>2. LineLength - 1 \in 1 .. LineLength - 1 /\ offset + (LineLength - 1) = i - 1 /\ i > 1
        BY <1>2, <1>3, <3>1, <3>2, <4>1
      <4>3. raw[ino][offset + (LineLength - 1)].part = "head"
        BY <1>2, <4>2
      <4> QED BY <2>1, <4>2, <4>3
    <3>4. Line[1].part = "whole" /\ Len(Line) = 1
      BY <1>2, <2>1, <3>1, <3>2, <3>3
    <3>5. IsJSON(Line)
      BY <1>6, <3>4
    <3> QED BY <1>8, <3>2, <3>5 DEF piece
  <2>4. i \in Int /\ offset \in Int
    BY <1>3, <1>4, <2>1
  <2> QED BY <2>2, <2>3, <2>4
<1> QED BY <1>9, <1>11, <1>12, <1>13

\* Each step of the specification keeps ReadInv.
LEMMA ReadStep ==
    ASSUME FileInv, ReadInv, [Next]_vars
    PROVE  ReadInv'
<1>1. FileInv' /\ Grown
  BY FileStep
<1>2. CASE UNCHANGED rdvars
  BY <1>1, <1>2, AFReadInv
<1>3. ASSUME UNCHANGED <<afvars, ino, first, offset, handled>>,
             state' \in {"found", "reading", "asleep", "closed", "dead"},
             state' = "found" => state = "waiting",
             state' = "closed" => path \notin {NoFile, ino}
      PROVE  ReadInv'
  <2>1. raw' = raw
    BY <1>3 DEF afvars
  <2>2. state' = "closed" => ino < Len(raw)
    <3>1. SUFFICES ASSUME state' = "closed"  PROVE ino < Len(raw)
      OBVIOUS
    <3>2. path = Len(raw) /\ path # ino /\ Len(raw) \in Nat /\ ino \in 0 .. Len(raw)
      BY <1>3, <3>1 DEF FileInv, FileType, ReadInv, ReadType
    <3> QED BY <3>2
  <2>3. ReadType'
    BY <1>3, <2>1, <2>2 DEF ReadInv, ReadType
  <2>4. HandledInv' /\ HandledInOrder'
    BY <1>3, <2>1 DEF ReadInv, HandledInv, HandledInOrder
  <2>5. OnlyTornLinesLost'
    BY <1>3, <2>1 DEF ReadInv, OnlyTornLinesLost
  <2> QED BY <2>3, <2>4, <2>5 DEF ReadInv
<1>4. CASE Found /\ UNCHANGED afvars
  BY <1>3, <1>4 DEF Found
<1>5. CASE Open /\ UNCHANGED afvars
  <2>1. CASE Die
    BY <1>3, <1>5, <2>1 DEF Die
  <2>2. CASE OpenPath(IF from_start THEN "reading" ELSE "seeking")
    <3>1. /\ state = "found" /\ path # NoFile /\ ino' = path /\ first' = 0 /\ offset' = 0
          /\ state' \in {"reading", "seeking"} /\ UNCHANGED <<afvars, handled>>
      BY <1>5, <2>2 DEF Open, OpenPath
    <3>2. path # ino /\ handled = <<>>
      BY <3>1 DEF ReadInv, ReadType
    <3> QED BY <3>1, <3>2, OpenedReadInv
  <2> QED BY <1>5, <2>1, <2>2 DEF Open
<1>6. CASE Seek /\ UNCHANGED afvars
  BY <1>6, SeekReadInv
<1>7. CASE ReadLine /\ UNCHANGED afvars
  BY <1>7, ReadLineReadInv
<1>8. CASE Sleep /\ UNCHANGED afvars
  BY <1>3, <1>8 DEF Sleep
<1>9. CASE Wake /\ UNCHANGED afvars
  BY <1>3, <1>9 DEF Wake
<1>10. CASE Reopen /\ UNCHANGED afvars
  <2>1. CASE Die
    BY <1>3, <1>10, <2>1 DEF Die
  <2>2. CASE OpenPath("reading")
    <3>1. /\ state = "closed" /\ path # NoFile /\ ino' = path /\ first' = 0 /\ offset' = 0
          /\ state' = "reading" /\ UNCHANGED <<afvars, handled>>
      BY <1>10, <2>2 DEF Reopen, OpenPath
    <3>2. path # ino
      <4>1. path = Len(raw) /\ ino < Len(raw) /\ Len(raw) \in Nat
        BY <3>1 DEF FileInv, FileType, ReadInv, ReadType
      <4> QED BY <4>1
    <3> QED BY <3>1, <3>2, OpenedReadInv
  <2> QED BY <1>10, <2>1, <2>2 DEF Reopen
<1> QED BY <1>2, <1>4, <1>5, <1>6, <1>7, <1>8, <1>9, <1>10 DEF Next, Follow, vars

\* ReadInv holds of every behaviour.
THEOREM Reader == Spec => []ReadInv
<1>1. Init => ReadInv
  <2>1. SUFFICES ASSUME Init  PROVE ReadInv
    OBVIOUS
  <2>2. /\ state = "waiting" /\ ino = NoFile /\ first = 0 /\ offset = 0
        /\ handled = <<>> /\ raw = <<>>
    BY <2>1 DEF Init, AFInit
  <2>3. ReadType
    BY <2>2 DEF ReadType, NoFile
  <2>4. HandledInv /\ HandledInOrder /\ OnlyTornLinesLost
    BY <2>2 DEF HandledInv, HandledInOrder, OnlyTornLinesLost
  <2> QED BY <2>3, <2>4 DEF ReadInv
<1>2. FileInv /\ ReadInv /\ [Next]_vars => ReadInv'
  BY ReadStep
<1> QED BY <1>1, <1>2, FilesInOrder, PTL DEF Spec

\* The tracker handles no notification twice and none before an earlier one,
\* whatever was removed, restarted or torn.
THEOREM NeitherTwiceNorEarly == Spec => []HandledInOrder
<1>1. ReadInv => HandledInOrder
  BY DEF ReadInv
<1> QED BY <1>1, Reader, PTL

\* Of the file follow has open it loses no payload written in one piece but
\* one glued to the torn line of a process that was killed.
THEOREM NothingElseLost == Spec => []OnlyTornLinesLost
<1>1. ReadInv => OnlyTornLinesLost
  BY DEF ReadInv
<1> QED BY <1>1, Reader, PTL
=============================================================================
