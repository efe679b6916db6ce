---------------------------- MODULE CodecsProofs ----------------------------
(***************************************************************************)
(* Proofs about the codecs.  ParseOuterHeaderCreation reads no octet its   *)
(* payload does not have, accepts a payload exactly when it has room for   *)
(* the fields its flags announce, and reads each from its place, whatever  *)
(* the flags and however long the payload.  A flow description comes back  *)
(* from Encode and Decode in its normal form, whatever the rule and        *)
(* however many ports it has.  The tokens of Milenage come back from the   *)
(* functions that read them, whatever the cipher; and under what AKA       *)
(* expects of the cipher the USIM and the network hold their sessions      *)
(* together, whatever happens to the messages between them.                *)
(***************************************************************************)
EXTENDS Codecs, TLAPS

\* What InBounds needs to be inductive: a field starts behind the two octets
\* of the flags and, while the parser runs, not behind the end.
IInv ==
    /\ l \in Nat /\ offset \in Nat
    /\ read \in [DOMAIN Layout -> SUBSET Int]
    /\ offset >= 2
    /\ result = "running" => offset <= l
    /\ InBounds

\* The fields have a width: the cursor only goes forward.
LEMMA Widths == \A i \in DOMAIN Layout : Layout[i].width \in Nat \ {0}
  BY DEF Layout

\* Init => IInv: nothing is read yet, and a payload without room for its flags
\* is refused at once.
LEMMA InitIInv == Init => IInv
<1>1. NoHeader => IInv
  BY DEF NoHeader, IInv, InBounds
<1>2. OHInit => IInv
  BY LengthAssumption DEF OHInit, IInv, InBounds
<1> QED BY <1>1, <1>2 DEF Init

\* One field: its octets end where the next field starts, not behind the end.
LEMMA ParseFieldIInv == IInv /\ ParseField => IInv'
<1> SUFFICES ASSUME IInv, ParseField PROVE IInv'
  OBVIOUS
<1> DEFINE w == Layout[next].width
<1>1. next \in DOMAIN Layout /\ w \in Nat \ {0} /\ UNCHANGED <<flags, l>> /\ result = "running"
  BY Widths DEF ParseField
<1>2. CASE UNCHANGED <<offset, read>> /\ result' \in {result, "error"}
  BY <1>1, <1>2 DEF IInv, InBounds
<1>3. CASE /\ l >= offset + w
           /\ read' = [read EXCEPT ![next] = offset .. offset + w - 1]
           /\ offset' = offset + w
  <2> HIDE DEF w
  <2>1. offset .. offset + w - 1 \in SUBSET Int /\ offset .. offset + w - 1 \subseteq 2 .. l - 1
    BY <1>1, <1>3 DEF IInv
  <2>2. read' \in [DOMAIN Layout -> SUBSET Int]
    BY <1>3, <2>1 DEF IInv
  <2>3. InBounds'
    BY <1>1, <1>3, <2>1 DEF IInv, InBounds
  <2>4. offset' \in Nat /\ offset' >= 2 /\ offset' <= l'
    BY <1>1, <1>3 DEF IInv
  <2> QED BY <1>1, <2>2, <2>3, <2>4 DEF IInv
<1> QED BY <1>1, <1>2, <1>3 DEF ParseField

\* Every step preserves the invariant; flow descriptions and AKA leave it alone.
LEMMA NextIInv == IInv /\ [Next]_vars => IInv'
<1> SUFFICES ASSUME IInv, [Next]_vars PROVE IInv'
  OBVIOUS
<1>1. CASE ParseField
  BY <1>1, ParseFieldIInv
<1>2. CASE Finish
  BY <1>2 DEF Finish, IInv, InBounds
<1>3. CASE UNCHANGED ohvars
  BY <1>3 DEF ohvars, IInv, InBounds
<1> QED BY <1>1, <1>2, <1>3 DEF Next, FlowDecode, FlowEncode, FlowDecodeAgain, vars

\* The parser never leaves the invariant.
THEOREM Invariance == Spec => []IInv
  BY InitIInv, NextIInv, PTL DEF Spec

\* ParseOuterHeaderCreation never indexes behind the end of its payload, for
\* any flags and any length.
THEOREM ReadsInBounds == Spec => []InBounds
<1>1. IInv => InBounds
  BY DEF IInv
<1> QED BY <1>1, Invariance, PTL

-----------------------------------------------------------------------------
(* The fields in their places                                               *)

\* How many octets field i takes.
Taken(fl, i) == IF Present(fl, i) THEN Layout[i].width ELSE 0

\* A field takes a number of octets.
LEMMA TakenType == \A fl : \A i \in 1 .. 6 : Taken(fl, i) \in Nat
  BY Widths DEF Taken, Layout

\* Start is what its recursive definition says: the fields follow one another
\* behind the flags.
LEMMA StartStep ==
    ASSUME NEW fl
    PROVE  /\ Start(fl)[1] = 2
           /\ \A i \in 1 .. 6 : Start(fl)[i + 1] = Start(fl)[i] + Taken(fl, i)
<1> DEFINE Body(g) == [i \in 1 .. 7 |-> IF i = 1 THEN 2 ELSE g[i - 1] + Taken(fl, i - 1)]
           w(i) == Taken(fl, i)
           h == [i \in 1 .. 7 |->
                   IF i = 1 THEN 2
                   ELSE IF i = 2 THEN 2 + w(1)
                   ELSE IF i = 3 THEN 2 + w(1) + w(2)
                   ELSE IF i = 4 THEN 2 + w(1) + w(2) + w(3)
                   ELSE IF i = 5 THEN 2 + w(1) + w(2) + w(3) + w(4)
                   ELSE IF i = 6 THEN 2 + w(1) + w(2) + w(3) + w(4) + w(5)
                   ELSE 2 + w(1) + w(2) + w(3) + w(4) + w(5) + w(6)]
<1>1. Start(fl) = CHOOSE g : g = Body(g)
  BY DEF Start, Taken
<1>2. h = Body(h)
  <2> HIDE DEF w
  <2>1. ASSUME NEW i \in 1 .. 7  PROVE h[i] = Body(h)[i]
    <3>1. h[i] = IF i = 1 THEN 2 ELSE h[i - 1] + w(i - 1)
      OBVIOUS
    <3> QED BY <3>1 DEF w
  <2> QED BY <2>1
<1>3. Start(fl) = Body(Start(fl))
  <2> HIDE DEF Body, h
  <2> QED BY <1>1, <1>2
<1>4. Start(fl)[1] = 2
  BY <1>3
<1>5. ASSUME NEW i \in 1 .. 6  PROVE Start(fl)[i + 1] = Start(fl)[i] + Taken(fl, i)
  <2>1. i + 1 \in 1 .. 7 /\ i + 1 # 1 /\ (i + 1) - 1 = i
    OBVIOUS
  <2> QED BY <1>3, <2>1
<1> QED BY <1>4, <1>5

\* No field starts behind the end of the last one.
LEMMA StartType ==
    ASSUME NEW fl
    PROVE  \A i \in 1 .. 7 : Start(fl)[i] \in Nat /\ Start(fl)[i] <= Start(fl)[7]
<1> DEFINE S(i) == Start(fl)[i]
           w(i) == Taken(fl, i)
<1>1. /\ S(1) = 2 /\ S(2) = S(1) + w(1) /\ S(3) = S(2) + w(2) /\ S(4) = S(3) + w(3)
      /\ S(5) = S(4) + w(4) /\ S(6) = S(5) + w(5) /\ S(7) = S(6) + w(6)
  <2>1. 1 \in 1 .. 6 /\ 2 \in 1 .. 6 /\ 3 \in 1 .. 6 /\ 4 \in 1 .. 6 /\ 5 \in 1 .. 6 /\ 6 \in 1 .. 6
        /\ 1 + 1 = 2 /\ 2 + 1 = 3 /\ 3 + 1 = 4 /\ 4 + 1 = 5 /\ 5 + 1 = 6 /\ 6 + 1 = 7
    OBVIOUS
  <2> QED BY <2>1, StartStep
<1>2. w(1) \in Nat /\ w(2) \in Nat /\ w(3) \in Nat /\ w(4) \in Nat /\ w(5) \in Nat /\ w(6) \in Nat
  BY TakenType
<1> HIDE DEF S, w
<1>3. /\ S(1) \in Nat /\ S(2) \in Nat /\ S(3) \in Nat /\ S(4) \in Nat
      /\ S(5) \in Nat /\ S(6) \in Nat /\ S(7) \in Nat
      /\ S(1) <= S(7) /\ S(2) <= S(7) /\ S(3) <= S(7) /\ S(4) <= S(7)
      /\ S(5) <= S(7) /\ S(6) <= S(7) /\ S(7) <= S(7)
  BY <1>1, <1>2
<1>4. ASSUME NEW i \in 1 .. 7  PROVE S(i) \in Nat /\ S(i) <= S(7)
  <2>1. i = 1 \/ i = 2 \/ i = 3 \/ i = 4 \/ i = 5 \/ i = 6 \/ i = 7
    OBVIOUS
  <2> QED BY <1>3, <2>1
<1> QED BY <1>4 DEF S

\* The octets of field i when all fields are in their places.
Place(fl, i) == IF Present(fl, i) THEN Start(fl)[i] .. Start(fl)[i] + Layout[i].width - 1 ELSE {}

\* What FieldsInPlace needs to be inductive: the cursor is where the field
\* whose turn it is starts, and the fields before it have been read from
\* their places.
PlaceInv ==
    /\ l \in Nat
    /\ next \in 1 .. 7
    /\ offset = Start(flags)[next]
    /\ result = "running" => offset <= l
    /\ read \in [1 .. 6 -> SUBSET Int]
    /\ \A i \in 1 .. 6 : read[i] = IF i < next THEN Place(flags, i) ELSE {}
    /\ result = "error" => l < Start(flags)[7]
    /\ result = "ok" => next = 7 /\ offset <= l

\* The header has six optional fields.
LEMMA SixFields == DOMAIN Layout = 1 .. 6
  BY DEF Layout

\* Parsing begins behind the flags.
LEMMA InitPlaceInv == Init => PlaceInv
<1>1. SUFFICES ASSUME Init  PROVE PlaceInv
  OBVIOUS
<1>2. /\ next = 1 /\ offset = 2 /\ l \in Nat
      /\ read = [i \in 1 .. 6 |-> {}]
      /\ result \in {"running", "error"}
      /\ result = "running" => l >= 2
      /\ result = "error" => l < 2
  <2>1. CASE NoHeader
    BY <2>1, SixFields DEF NoHeader
  <2>2. CASE OHInit
    BY <2>2, SixFields, LengthAssumption DEF OHInit
  <2> QED BY <1>1, <2>1, <2>2 DEF Init
<1>3. Start(flags)[1] = 2 /\ 2 <= Start(flags)[7] /\ Start(flags)[7] \in Nat
  BY StartStep, StartType
<1>4. \A i \in 1 .. 6 : ~(i < next)
  BY <1>2
<1> QED BY <1>2, <1>3, <1>4 DEF PlaceInv

\* A field is read where the ones before it end.
LEMMA ParseFieldPlaceInv == PlaceInv /\ ParseField => PlaceInv'
<1> SUFFICES ASSUME PlaceInv, ParseField PROVE PlaceInv'
  OBVIOUS
<1>1. next \in 1 .. 6 /\ result = "running" /\ UNCHANGED <<flags, l>>
  BY SixFields DEF ParseField
<1>2. /\ Start(flags)[next + 1] = Start(flags)[next] + Taken(flags, next)
      /\ Start(flags)[next] \in Nat
      /\ Start(flags)[next + 1] \in Nat /\ Start(flags)[next + 1] <= Start(flags)[7]
      /\ Start(flags)[7] \in Nat
  <2>1. next + 1 \in 1 .. 7 /\ next \in 1 .. 7 /\ 7 \in 1 .. 7
    BY <1>1
  <2> QED BY <1>1, <2>1, StartStep, StartType
<1>3. offset = Start(flags)[next] /\ l \in Nat /\ read \in [1 .. 6 -> SUBSET Int]
      /\ offset <= l
      /\ \A i \in 1 .. 6 : read[i] = IF i < next THEN Place(flags, i) ELSE {}
  BY <1>1 DEF PlaceInv
<1>4. CASE ~Present(flags, next) /\ next' = next + 1 /\ UNCHANGED <<offset, read, result>>
  <2>1. Taken(flags, next) = 0 /\ Place(flags, next) = {}
    BY <1>4 DEF Taken, Place
  <2>2. offset' = Start(flags')[next']
    BY <1>1, <1>2, <1>3, <1>4, <2>1
  <2>3. ASSUME NEW i \in 1 .. 6
        PROVE  read'[i] = IF i < next' THEN Place(flags', i) ELSE {}
    <3>1. i < next' <=> (i < next \/ i = next)
      BY <1>1, <1>4
    <3> QED BY <1>1, <1>3, <1>4, <2>1, <3>1
  <2> QED BY <1>1, <1>3, <1>4, <2>2, <2>3 DEF PlaceInv
<1>5. CASE /\ Present(flags, next) /\ l < offset + Layout[next].width
           /\ result' = "error" /\ UNCHANGED <<next, offset, read>>
  <2>1. Taken(flags, next) = Layout[next].width
    BY <1>5 DEF Taken
  <2>2. l < Start(flags)[7]
    BY <1>2, <1>3, <1>5, <2>1
  <2> QED BY <1>1, <1>5, <2>2 DEF PlaceInv
<1>6. CASE /\ Present(flags, next) /\ l >= offset + Layout[next].width
           /\ read' = [read EXCEPT ![next] = offset .. offset + Layout[next].width - 1]
           /\ offset' = offset + Layout[next].width
           /\ next' = next + 1
           /\ UNCHANGED result
  <2>1. Taken(flags, next) = Layout[next].width /\ Layout[next].width \in Nat
    BY <1>1, <1>6, Widths, SixFields DEF Taken
  <2>2. Place(flags, next) = offset .. offset + Layout[next].width - 1
    BY <1>3, <1>6 DEF Place
  <2>3. offset' = Start(flags')[next'] /\ offset' <= l'
    BY <1>1, <1>2, <1>3, <1>6, <2>1
  <2>4. read' \in [1 .. 6 -> SUBSET Int]
    <3>1. offset .. offset + Layout[next].width - 1 \in SUBSET Int
      BY <1>2, <1>3, <2>1
    <3> QED BY <1>3, <1>6, <3>1
  <2>5. ASSUME NEW i \in 1 .. 6
        PROVE  read'[i] = IF i < next' THEN Place(flags', i) ELSE {}
    <3>1. i < next' <=> (i < next \/ i = next)
      BY <1>1, <1>6
    <3>2. read'[next] = Place(flags, next) /\ (i # next => read'[i] = read[i])
      BY <1>1, <1>3, <1>6, <2>2
    <3> QED BY <1>1, <1>3, <3>1, <3>2
  <2> QED BY <1>1, <1>3, <1>6, <2>3, <2>4, <2>5 DEF PlaceInv
<1> QED BY <1>4, <1>5, <1>6 DEF ParseField

\* So does every step.
LEMMA NextPlaceInv == PlaceInv /\ [Next]_vars => PlaceInv'
<1> SUFFICES ASSUME PlaceInv, [Next]_vars PROVE PlaceInv'
  OBVIOUS
<1>1. CASE ParseField
  BY <1>1, ParseFieldPlaceInv
<1>2. CASE Finish
  <2>1. result = "running" /\ next = 7 /\ result' = "ok"
        /\ UNCHANGED <<flags, l, next, offset, read>>
    BY <1>2, SixFields DEF Finish, PlaceInv
  <2> QED BY <2>1 DEF PlaceInv
<1>3. CASE UNCHANGED ohvars
  BY <1>3 DEF ohvars, PlaceInv
<1> QED BY <1>1, <1>2, <1>3 DEF Next, FlowDecode, FlowEncode, FlowDecodeAgain, vars

\* A payload is accepted exactly when it has room for all the fields its flags
\* announce, and then each field is read from its place.
THEOREM FieldsRead == Spec => []FieldsInPlace
<1>1. PlaceInv => FieldsInPlace
  <2>1. SUFFICES ASSUME PlaceInv  PROVE FieldsInPlace
    OBVIOUS
  <2>2. result = "error" => l < Start(flags)[7]
    BY <2>1 DEF PlaceInv
  <2>3. ASSUME result = "ok"
        PROVE  /\ l >= Start(flags)[7]
               /\ \A i \in 1 .. 6 : read[i] = Place(flags, i)
    <3>1. next = 7 /\ offset <= l /\ offset = Start(flags)[7] /\ l \in Nat
      BY <2>1, <2>3 DEF PlaceInv
    <3>2. \A i \in 1 .. 6 : i < next
      BY <3>1
    <3> QED BY <2>1, <3>1, <3>2, StartType DEF PlaceInv
  <2> QED BY <2>2, <2>3, SixFields DEF FieldsInPlace, Place
<1> QED BY <1>1, InitPlaceInv, NextPlaceInv, PTL DEF Spec

-----------------------------------------------------------------------------
(* Tokens put together, as Encode does                                      *)

\* A tuple of one element.
LEMMA OneToken ==
    ASSUME NEW S, NEW d \in S, NEW t, t = <<d>>
    PROVE  t \in Seq(S) /\ Len(t) = 1 /\ t[1] = d
  OBVIOUS

\* A sequence put behind another one.
LEMMA Joined ==
    ASSUME NEW S, NEW s \in Seq(S), NEW t \in Seq(S), NEW u, u = s \o t
    PROVE  /\ u \in Seq(S) /\ Len(u) = Len(s) + Len(t) /\ Len(s) \in Nat /\ Len(t) \in Nat
           /\ \A k \in 1 .. Len(s) : u[k] = s[k]
           /\ \A k \in 1 .. Len(t) : u[Len(s) + k] = t[k]
  OBVIOUS

\* One element put behind a sequence.
LEMMA JoinedOne ==
    ASSUME NEW S, NEW s \in Seq(S), NEW d \in S, NEW u, u = s \o <<d>>
    PROVE  /\ u \in Seq(S) /\ Len(u) = Len(s) + 1 /\ u[Len(s) + 1] = d
           /\ \A k \in 1 .. Len(s) : u[k] = s[k]
<1>1. PICK t : t = <<d>>
  OBVIOUS
<1>2. t \in Seq(S) /\ Len(t) = 1 /\ t[1] = d
  BY <1>1, OneToken
<1>3. /\ u \in Seq(S) /\ Len(u) = Len(s) + Len(t)
      /\ \A k \in 1 .. Len(s) : u[k] = s[k]
      /\ \A k \in 1 .. Len(t) : u[Len(s) + k] = t[k]
  BY <1>1, <1>2, Joined
<1>4. u[Len(s) + 1] = t[1]
  BY <1>2, <1>3
<1> QED BY <1>2, <1>3, <1>4

\* The parts of a text: five tokens, the ports of the source, two tokens, and
\* the ports of the destination.
HasParts(t, a, b, c, d, e, x, f, g, y) ==
    /\ Len(x) \in Nat /\ Len(y) \in Nat /\ Len(t) = Len(x) + 7 + Len(y)
    /\ t[1] = a /\ t[2] = b /\ t[3] = c /\ t[4] = d /\ t[5] = e
    /\ \A k \in 1 .. Len(x) : t[5 + k] = x[k]
    /\ t[Len(x) + 6] = f /\ t[Len(x) + 7] = g
    /\ \A k \in 1 .. Len(y) : t[Len(x) + 7 + k] = y[k]

\* Joined as Encode joins them, they are its parts.
LEMMA PartsOfText ==
    ASSUME NEW S, NEW a \in S, NEW b \in S, NEW c \in S, NEW d \in S, NEW e \in S,
           NEW f \in S, NEW g \in S, NEW x \in Seq(S), NEW y \in Seq(S),
           NEW t, t = <<a, b>> \o <<c>> \o <<d>> \o <<e>> \o x \o <<f>> \o <<g>> \o y
    PROVE  HasParts(t, a, b, c, d, e, x, f, g, y)
<1>1. PICK t2 : t2 = <<a, b>>
  OBVIOUS
<1>2. t2 \in Seq(S) /\ Len(t2) = 2 /\ t2[1] = a /\ t2[2] = b
  BY <1>1
<1>3. PICK t3 : t3 = t2 \o <<c>>
  OBVIOUS
<1>4. t3 \in Seq(S) /\ Len(t3) = 3 /\ t3[1] = a /\ t3[2] = b /\ t3[3] = c
  <2>0. t2 \in Seq(S)
    BY <1>2
  <2>1. /\ t3 \in Seq(S) /\ Len(t3) = Len(t2) + 1 /\ t3[Len(t2) + 1] = c
        /\ \A k \in 1 .. Len(t2) : t3[k] = t2[k]
    BY <1>3, <2>0, JoinedOne
  <2> QED BY <1>2, <2>1
<1>5. PICK t4 : t4 = t3 \o <<d>>
  OBVIOUS
<1>6. t4 \in Seq(S) /\ Len(t4) = 4 /\ t4[1] = a /\ t4[2] = b /\ t4[3] = c /\ t4[4] = d
  <2>0. t3 \in Seq(S)
    BY <1>4
  <2>1. /\ t4 \in Seq(S) /\ Len(t4) = Len(t3) + 1 /\ t4[Len(t3) + 1] = d
        /\ \A k \in 1 .. Len(t3) : t4[k] = t3[k]
    BY <1>5, <2>0, JoinedOne
  <2> QED BY <1>4, <2>1
<1>7. PICK t5 : t5 = t4 \o <<e>>
  OBVIOUS
<1>8. t5 \in Seq(S) /\ Len(t5) = 5 /\ t5[1] = a /\ t5[2] = b /\ t5[3] = c /\ t5[4] = d /\ t5[5] = e
  <2>0. t4 \in Seq(S)
    BY <1>6
  <2>1. /\ t5 \in Seq(S) /\ Len(t5) = Len(t4) + 1 /\ t5[Len(t4) + 1] = e
        /\ \A k \in 1 .. Len(t4) : t5[k] = t4[k]
    BY <1>7, <2>0, JoinedOne
  <2> QED BY <1>6, <2>1
<1>9. PICK m \in Nat : m = Len(x)
  OBVIOUS
<1>10. PICK tx : tx = t5 \o x
  OBVIOUS
<1>11. /\ tx \in Seq(S) /\ Len(tx) = 5 + m
       /\ \A k \in 1 .. 5 : tx[k] = t5[k]
       /\ \A k \in 1 .. m : tx[5 + k] = x[k]
  <2>0. t5 \in Seq(S)
    BY <1>8
  <2>1. /\ tx \in Seq(S) /\ Len(tx) = Len(t5) + Len(x)
        /\ \A k \in 1 .. Len(t5) : tx[k] = t5[k]
        /\ \A k \in 1 .. Len(x) : tx[Len(t5) + k] = x[k]
    BY <1>10, <2>0, Joined
  <2> QED BY <1>8, <1>9, <2>1
<1>12. PICK tf : tf = tx \o <<f>>
  OBVIOUS
<1>13. /\ tf \in Seq(S) /\ Len(tf) = (5 + m) + 1 /\ tf[(5 + m) + 1] = f
       /\ \A k \in 1 .. 5 + m : tf[k] = tx[k]
  <2>0. tx \in Seq(S)
    BY <1>11
  <2>1. /\ tf \in Seq(S) /\ Len(tf) = Len(tx) + 1 /\ tf[Len(tx) + 1] = f
        /\ \A k \in 1 .. Len(tx) : tf[k] = tx[k]
    BY <1>12, <2>0, JoinedOne
  <2> QED BY <1>11, <2>1
<1>14. PICK tg : tg = tf \o <<g>>
  OBVIOUS
<1>15. /\ tg \in Seq(S) /\ Len(tg) = ((5 + m) + 1) + 1 /\ tg[((5 + m) + 1) + 1] = g
       /\ \A k \in 1 .. (5 + m) + 1 : tg[k] = tf[k]
  <2>0. tf \in Seq(S)
    BY <1>13
  <2>1. /\ tg \in Seq(S) /\ Len(tg) = Len(tf) + 1 /\ tg[Len(tf) + 1] = g
        /\ \A k \in 1 .. Len(tf) : tg[k] = tf[k]
    BY <1>14, <2>0, JoinedOne
  <2> QED BY <1>13, <2>1
<1>16. t = tg \o y
  BY <1>1, <1>3, <1>5, <1>7, <1>10, <1>12, <1>14
<1>17. PICK q \in Nat : q = Len(tg) /\ q = m + 7
  BY <1>15
<1>18. /\ t \in Seq(S) /\ Len(t) = q + Len(y) /\ Len(y) \in Nat
       /\ \A k \in 1 .. q : t[k] = tg[k]
       /\ \A k \in 1 .. Len(y) : t[q + k] = y[k]
  <2>0. tg \in Seq(S)
    BY <1>15
  <2>1. /\ t \in Seq(S) /\ Len(t) = Len(tg) + Len(y)
        /\ \A k \in 1 .. Len(tg) : t[k] = tg[k]
        /\ \A k \in 1 .. Len(y) : t[Len(tg) + k] = y[k]
    <3>1. PICK z : z = tg \o y
      OBVIOUS
    <3>2. /\ z \in Seq(S) /\ Len(z) = Len(tg) + Len(y)
          /\ \A k \in 1 .. Len(tg) : z[k] = tg[k]
          /\ \A k \in 1 .. Len(y) : z[Len(tg) + k] = y[k]
      BY <2>0, <3>1, Joined
    <3> QED BY <1>16, <3>1, <3>2
  <2>2. Len(y) \in Nat
    OBVIOUS
  <2> QED BY <1>17, <2>1, <2>2
<1>19. \A k \in 1 .. 5 : t[k] = t5[k]
  <2>1. \A k \in 1 .. 5 : k \in 1 .. 5 + m /\ k \in 1 .. (5 + m) + 1 /\ k \in 1 .. q
    BY <1>17
  <2> QED BY <1>11, <1>13, <1>15, <1>18, <2>1
<1>20. ASSUME NEW k \in 1 .. m  PROVE t[5 + k] = x[k]
  <2>1. 5 + k \in 1 .. 5 + m /\ 5 + k \in 1 .. (5 + m) + 1 /\ 5 + k \in 1 .. q
    BY <1>17
  <2>2. tx[5 + k] = x[k]
    BY <1>11
  <2>3. tf[5 + k] = tx[5 + k]
    BY <1>13, <2>1
  <2>4. tg[5 + k] = tf[5 + k]
    BY <1>15, <2>1
  <2>5. t[5 + k] = tg[5 + k]
    BY <1>18, <2>1
  <2> QED BY <2>2, <2>3, <2>4, <2>5
<1>21. t[m + 6] = f /\ t[m + 7] = g
  <2>1. /\ m + 6 = (5 + m) + 1 /\ m + 7 = ((5 + m) + 1) + 1
        /\ (5 + m) + 1 \in 1 .. (5 + m) + 1 /\ (5 + m) + 1 \in 1 .. q /\ ((5 + m) + 1) + 1 \in 1 .. q
    BY <1>17
  <2> QED BY <1>13, <1>15, <1>18, <2>1
<1>22. t[1] = a /\ t[2] = b /\ t[3] = c /\ t[4] = d /\ t[5] = e
  <2>1. 1 \in 1 .. 5 /\ 2 \in 1 .. 5 /\ 3 \in 1 .. 5 /\ 4 \in 1 .. 5 /\ 5 \in 1 .. 5
    OBVIOUS
  <2>2. t[1] = t5[1] /\ t[2] = t5[2] /\ t[3] = t5[3] /\ t[4] = t5[4] /\ t[5] = t5[5]
    BY <1>19, <2>1
  <2> QED BY <1>8, <2>2
<1> QED BY <1>9, <1>17, <1>18, <1>20, <1>21, <1>22 DEF HasParts

-----------------------------------------------------------------------------
\* One range of ports, and how it is written: one number when the two ends agree.
RangeWord(r) == IF r[1] = r[2] THEN <<r[1]>> ELSE r
RangeFirst(w) == w[1]
RangeLast(w) == IF Len(w) = 1 THEN w[1] ELSE w[2]

\* Ports of 16 bits are numbers.
LEMMA PortsAreNumbers == Uint16 \subseteq Nat
  BY DEF Uint16

\* A tuple of one number.
LEMMA OneNumber ==
    ASSUME NEW a \in Nat, NEW t, t = <<a>>
    PROVE  t \in Seq(Nat) /\ Len(t) = 1 /\ t[1] = a
  OBVIOUS

\* A tuple of two.
LEMMA TwoNumbers ==
    ASSUME NEW a \in Nat, NEW b \in Nat, NEW t, t = <<a, b>>
    PROVE  t \in Seq(Nat) /\ Len(t) = 2 /\ t[1] = a /\ t[2] = b
  OBVIOUS

\* What is read of a range as it is written is the range.
LEMMA RangeBack ==
    ASSUME NEW r \in PortRange
    PROVE  /\ RangeFirst(RangeWord(r)) \in Uint16
           /\ RangeLast(RangeWord(r)) \in Uint16
           /\ <<RangeFirst(RangeWord(r)), RangeLast(RangeWord(r))>> = r
           /\ RangeWord(r) \in Seq(Nat) \ {<<>>}
<1>1. PICK a \in Uint16, b \in Uint16 : r = <<a, b>>
  BY DEF PortRange
<1>2. a \in Nat /\ b \in Nat
  BY PortsAreNumbers
<1>3. r \in Seq(Nat) /\ Len(r) = 2 /\ r[1] = a /\ r[2] = b
  BY <1>1, <1>2, TwoNumbers
<1>4. PICK w : w = RangeWord(r)
  OBVIOUS
<1>5. w \in Seq(Nat) /\ Len(w) # 0 /\ RangeFirst(w) = a /\ RangeLast(w) = b
  <2>1. CASE a = b
    <3>1. w = <<a>>
      BY <1>3, <1>4, <2>1 DEF RangeWord
    <3>2. w \in Seq(Nat) /\ Len(w) = 1 /\ w[1] = a
      BY <1>2, <3>1, OneNumber
    <3> QED BY <2>1, <3>2 DEF RangeFirst, RangeLast
  <2>2. CASE a # b
    <3>1. w = r
      BY <1>3, <1>4, <2>2 DEF RangeWord
    <3>2. w \in Seq(Nat) /\ Len(w) = 2 /\ w[1] = a /\ w[2] = b
      BY <1>3, <3>1
    <3> QED BY <3>2 DEF RangeFirst, RangeLast
  <2> QED BY <2>1, <2>2
<1>6. w # <<>>
  BY <1>5
<1> QED BY <1>1, <1>4, <1>5, <1>6

PortsWord(ports) == [i \in DOMAIN ports |-> RangeWord(ports[i])]

\* The token of a list of ports is read as that list.
LEMMA PortsBack ==
    ASSUME NEW ports \in Seq(PortRange), ports # <<>>
    PROVE  /\ PortsToken(ports) = <<Numbers(PortsWord(ports))>>
           /\ ParsePorts(Numbers(PortsWord(ports))) = [ok |-> TRUE, ports |-> ports]
<1>1. PICK f : f = PortsWord(ports)
  OBVIOUS
<1>2. DOMAIN ports = 1 .. Len(ports) /\ Len(ports) \in Nat /\ Len(ports) # 0
  OBVIOUS
<1>3. f = [i \in DOMAIN ports |-> RangeWord(ports[i])]
  BY <1>1 DEF PortsWord
<1>4. DOMAIN f = DOMAIN ports /\ \A i \in DOMAIN ports : f[i] = RangeWord(ports[i])
  BY <1>3
<1>5. ASSUME NEW i \in DOMAIN ports
      PROVE  /\ RangeFirst(f[i]) \in Uint16 /\ RangeLast(f[i]) \in Uint16
             /\ <<RangeFirst(f[i]), RangeLast(f[i])>> = ports[i]
             /\ f[i] \in Seq(Nat) \ {<<>>}
  <2>1. ports[i] \in PortRange
    OBVIOUS
  <2> QED BY <1>4, <2>1, RangeBack
<1>6. f \in Seq(Seq(Nat) \ {<<>>}) /\ Len(f) = Len(ports)
  BY <1>2, <1>3, <1>4, <1>5
<1>7. f # <<>>
  BY <1>2, <1>6
<1>8. [i \in DOMAIN f |-> <<RangeFirst(f[i]), RangeLast(f[i])>>] = ports
  <2>1. [i \in DOMAIN f |-> <<RangeFirst(f[i]), RangeLast(f[i])>>] = [i \in DOMAIN ports |-> ports[i]]
    BY <1>4, <1>5
  <2>2. [i \in DOMAIN ports |-> ports[i]] = ports
    BY <1>2
  <2> QED BY <2>1, <2>2
<1>9. PortsToken(ports) = <<Numbers(f)>>
  BY <1>3 DEF PortsToken, RangeWord
<1>10. PICK tok : tok = Numbers(f)
  OBVIOUS
<1>11. tok.nums = f
  BY <1>10 DEF Numbers
<1>12. \A i \in DOMAIN f : {RangeFirst(f[i]), RangeLast(f[i])} \subseteq Uint16
  BY <1>4, <1>5
<1>13. ParsePorts(tok) = [ok |-> TRUE, ports |-> [i \in DOMAIN f |-> <<RangeFirst(f[i]), RangeLast(f[i])>>]]
  BY <1>7, <1>11, <1>12 DEF ParsePorts, RangeFirst, RangeLast
<1> QED BY <1>1, <1>8, <1>9, <1>10, <1>11, <1>13

-----------------------------------------------------------------------------
\* A word is read as itself, and not as ports.
LEMMA WordBack ==
    ASSUME NEW w
    PROVE  Word(w).word = w /\ ~ParsePorts(Word(w)).ok
<1>1. PICK tok : tok = Word(w)
  OBVIOUS
<1>2. tok.word = w /\ tok.nums = <<>>
  BY <1>1 DEF Word
<1>3. ParsePorts(tok) = Refused
  BY <1>2 DEF ParsePorts
<1>4. ~Refused.ok
  BY DEF Refused
<1> QED BY <1>1, <1>2, <1>3, <1>4

ProtoToken(p) == IF p = ProtocolNumberAny THEN Word("ip") ELSE Numbers(<<<<p>>>>)

\* A protocol number that fits its 8 bits is read as it is written.
LEMMA ProtoBack ==
    ASSUME NEW p \in Uint8
    PROVE  IsProto(ProtoToken(p)) /\ ParseProto(ProtoToken(p)) = p
<1>1. CASE p = ProtocolNumberAny
  <2>1. PICK w : w = "ip"
    OBVIOUS
  <2>2. ProtoToken(p) = Word(w)
    BY <1>1, <2>1 DEF ProtoToken
  <2>3. Word(w).word = w
    BY WordBack
  <2> QED BY <1>1, <2>1, <2>2, <2>3 DEF IsProto, ParseProto
<1>2. CASE p # ProtocolNumberAny
  <2>1. p \in Nat /\ p % 256 = p
    BY DEF Uint8
  <2>2. PICK in : in = <<p>>
    OBVIOUS
  <2>3. in \in Seq(Nat) /\ Len(in) = 1 /\ in[1] = p
    BY <2>1, <2>2, OneNumber
  <2>4. in \in Seq(Nat)
    BY <2>3
  <2>5. PICK ns : ns = <<in>>
    OBVIOUS
  <2>6. Len(ns) = 1 /\ ns[1] = in
    BY <2>4, <2>5, OneToken
  <2>7. PICK tok : tok = ProtoToken(p)
    OBVIOUS
  <2>8. tok.word = "" /\ tok.nums = ns
    BY <1>2, <2>2, <2>5, <2>7 DEF ProtoToken, Numbers
  <2>9. Len(tok.nums) = 1 /\ Len(tok.nums[1]) = 1 /\ tok.nums[1][1] = p
    BY <2>3, <2>6, <2>8
  <2>10. IsProto(tok)
    BY <2>9 DEF IsProto
  <2>11. ParseProto(tok) = p
    BY <2>1, <2>8, <2>9 DEF ParseProto
  <2> QED BY <2>7, <2>10, <2>11
<1> QED BY <1>1, <1>2

AddrsWord(w) == IF w = "" THEN "any" ELSE w
NormalAddrs(w) == IF w \in DOMAIN normal THEN normal[w] ELSE IF w = "" THEN "any" ELSE w

\* An address comes back in its normal form.
LEMMA AddrsBack ==
    ASSUME NEW w \in STRING, w = "" \/ IsAddrs(w)
    PROVE  /\ AddrsToken(w) = <<Word(AddrsWord(w))>>
           /\ IsAddrs(AddrsWord(w)) /\ ParseAddrs(AddrsWord(w)) = NormalAddrs(w)
<1>1. CASE w = ""
  <2>1. AddrsToken(w) = <<Word("any")>> /\ AddrsWord(w) = "any"
    BY <1>1 DEF AddrsToken, AddrsWord
  <2>2. IsAddrs("any") /\ ParseAddrs("any") = "any"
    BY DEF IsAddrs, ParseAddrs, Wildcards
  <2>3. w \notin DOMAIN normal
    BY <1>1, NormalAssumption
  <2>4. NormalAddrs(w) = "any"
    BY <1>1, <2>3 DEF NormalAddrs
  <2> QED BY <2>1, <2>2, <2>4
<1>2. CASE w # ""
  BY <1>2, NormalAssumption DEF AddrsToken, AddrsWord, IsAddrs, ParseAddrs, NormalAddrs, Wildcards
<1> QED BY <1>1, <1>2

\* The tokens of t are those of a rule: `to' stands at its place, the ports of
\* the two sides are read as sp and dp.
Readable(t, to, sp, dp) ==
    /\ LET src == ParsePorts(t[6])
           dst == ParsePorts(t[to + 2])
       IN  /\ to = IF src.ok THEN 7 ELSE 6
           /\ sp = IF src.ok THEN src.ports ELSE <<>>
           /\ dp = IF Len(t) >= to + 2 /\ dst.ok THEN dst.ports ELSE <<>>
    /\ Len(t) >= 6 /\ Len(t) >= to + 1
    /\ t[1].word \in {"permit", "deny"} /\ t[2].word = "out" /\ IsProto(t[3])
    /\ t[4].word = "from" /\ IsAddrs(t[5].word) /\ t[to].word = "to" /\ IsAddrs(t[to + 1].word)

\* Then Decode gives the rule of these tokens.
LEMMA DecodeIs ==
    ASSUME NEW t, NEW to, NEW sp, NEW dp, Readable(t, to, sp, dp)
    PROVE  Decode(t) = [ok |-> TRUE,
              rule |-> [Action |-> t[1].word, Dir |-> t[2].word, Proto |-> ParseProto(t[3]),
                        Src |-> ParseAddrs(t[5].word), SrcPorts |-> sp,
                        Dst |-> ParseAddrs(t[to + 1].word), DstPorts |-> dp]]
  BY DEF Decode, Readable

\* What Encode writes of a rule.
LEMMA EncodeIs ==
    ASSUME NEW r \in IPFilterRule, Encode(r).ok
    PROVE  /\ r.Action \in {"permit", "deny"} /\ r.Dir = "out"
           /\ r.Src = "" \/ IsAddrs(r.Src)
           /\ r.Dst = "" \/ IsAddrs(r.Dst)
           /\ Encode(r).text = <<Word(r.Action), Word(r.Dir)>> \o <<ProtoToken(r.Proto)>>
                \o <<Word("from")>> \o <<Word(AddrsWord(r.Src))>> \o PortsToken(r.SrcPorts)
                \o <<Word("to")>> \o <<Word(AddrsWord(r.Dst))>> \o PortsToken(r.DstPorts)
<1>1. ~Refused.ok
  BY DEF Refused
<1>2. Encode(r) # Refused
  BY <1>1
<1>3. /\ r.Action \in {"permit", "deny"} /\ r.Dir = "out"
      /\ r.Src = "" \/ IsAddrs(r.Src)
      /\ r.Dst = "" \/ IsAddrs(r.Dst)
  BY <1>2 DEF Encode
<1>4. AddrsToken(r.Src) = <<Word(AddrsWord(r.Src))>> /\ AddrsToken(r.Dst) = <<Word(AddrsWord(r.Dst))>>
  BY DEF AddrsToken, AddrsWord
<1>5. Encode(r).text = <<Word(r.Action), Word(r.Dir)>> \o <<ProtoToken(r.Proto)>>
                \o <<Word("from")>> \o AddrsToken(r.Src) \o PortsToken(r.SrcPorts)
                \o <<Word("to")>> \o AddrsToken(r.Dst) \o PortsToken(r.DstPorts)
  BY <1>2 DEF Encode, ProtoToken
<1> QED BY <1>3, <1>4, <1>5

\* The ports as a part of the text: no token or one that is read as they are.
LEMMA PortsPart ==
    ASSUME NEW ports \in Seq(PortRange), NEW part, part = PortsToken(ports),
           NEW S, Numbers(PortsWord(ports)) \in S
    PROVE  /\ part \in Seq(S)
           /\ ports = <<>> => Len(part) = 0
           /\ ports # <<>> => Len(part) = 1 /\ ParsePorts(part[1]) = [ok |-> TRUE, ports |-> ports]
<1>1. CASE ports = <<>>
  <2>1. part = <<>>
    BY <1>1 DEF PortsToken
  <2>2. part \in Seq(S) /\ Len(part) = 0
    BY <2>1
  <2> QED BY <1>1, <2>2
<1>2. CASE ports # <<>>
  <2>1. PICK tok : tok = Numbers(PortsWord(ports))
    OBVIOUS
  <2>2. part = <<tok>> /\ tok \in S /\ ParsePorts(tok) = [ok |-> TRUE, ports |-> ports]
    BY <1>2, <2>1, PortsBack
  <2>3. part \in Seq(S) /\ Len(part) = 1 /\ part[1] = tok
    BY <2>2, OneToken
  <2> QED BY <1>2, <2>2, <2>3
<1> QED BY <1>1, <1>2

\* A rule, field by field, and what Normal makes of it.
LEMMA NormalIs ==
    ASSUME NEW r \in IPFilterRule
    PROVE  /\ r.Proto \in Uint8 /\ r.SrcPorts \in Seq(PortRange) /\ r.DstPorts \in Seq(PortRange)
           /\ Normal(r) = [Action |-> r.Action, Dir |-> r.Dir, Proto |-> r.Proto,
                           Src |-> NormalAddrs(r.Src), SrcPorts |-> r.SrcPorts,
                           Dst |-> NormalAddrs(r.Dst), DstPorts |-> r.DstPorts]
<1>1. PICK P : P = Seq(PortRange)
  OBVIOUS
<1>2. r \in [Action : STRING, Dir : STRING, Proto : Uint8, Src : STRING, SrcPorts : P,
             Dst : STRING, DstPorts : P]
  BY <1>1 DEF IPFilterRule
<1>3. Normal(r) = [r EXCEPT !.Src = NormalAddrs(@), !.Dst = NormalAddrs(@)]
  BY DEF Normal, NormalAddrs
<1> QED BY <1>1, <1>2, <1>3

\* What Encode writes, Decode reads: the rule comes back in its normal form.
LEMMA RoundTrip ==
    ASSUME NEW r \in IPFilterRule, Encode(r).ok, NEW t, t = Encode(r).text
    PROVE  Decode(t).ok /\ Decode(t).rule = Normal(r)
<1>1. /\ r.Action \in {"permit", "deny"} /\ r.Dir = "out"
      /\ r.Src = "" \/ IsAddrs(r.Src)
      /\ r.Dst = "" \/ IsAddrs(r.Dst)
      /\ t = <<Word(r.Action), Word(r.Dir)>> \o <<ProtoToken(r.Proto)>>
                \o <<Word("from")>> \o <<Word(AddrsWord(r.Src))>> \o PortsToken(r.SrcPorts)
                \o <<Word("to")>> \o <<Word(AddrsWord(r.Dst))>> \o PortsToken(r.DstPorts)
  BY EncodeIs
<1>2. r.Proto \in Uint8 /\ r.SrcPorts \in Seq(PortRange) /\ r.DstPorts \in Seq(PortRange)
      /\ r.Src \in STRING /\ r.Dst \in STRING
  BY NormalIs DEF IPFilterRule
<1>3. PICK a, b, c, d, e, f, g :
        /\ a = Word(r.Action) /\ b = Word(r.Dir) /\ c = ProtoToken(r.Proto) /\ d = Word("from")
        /\ e = Word(AddrsWord(r.Src)) /\ f = Word("to") /\ g = Word(AddrsWord(r.Dst))
  OBVIOUS
<1>4. PICK x, y : x = PortsToken(r.SrcPorts) /\ y = PortsToken(r.DstPorts)
  OBVIOUS
<1>5. PICK S : S = {a, b, c, d, e, f, g, Numbers(PortsWord(r.SrcPorts)), Numbers(PortsWord(r.DstPorts))}
  OBVIOUS
<1>6. a \in S /\ b \in S /\ c \in S /\ d \in S /\ e \in S /\ f \in S /\ g \in S
      /\ Numbers(PortsWord(r.SrcPorts)) \in S /\ Numbers(PortsWord(r.DstPorts)) \in S
  BY <1>5
<1>7. /\ x \in Seq(S)
      /\ r.SrcPorts = <<>> => Len(x) = 0
      /\ r.SrcPorts # <<>> => Len(x) = 1 /\ ParsePorts(x[1]) = [ok |-> TRUE, ports |-> r.SrcPorts]
  BY <1>2, <1>4, <1>6, PortsPart
<1>8. /\ y \in Seq(S)
      /\ r.DstPorts = <<>> => Len(y) = 0
      /\ r.DstPorts # <<>> => Len(y) = 1 /\ ParsePorts(y[1]) = [ok |-> TRUE, ports |-> r.DstPorts]
  BY <1>2, <1>4, <1>6, PortsPart
<1>9. t = <<a, b>> \o <<c>> \o <<d>> \o <<e>> \o x \o <<f>> \o <<g>> \o y
  BY <1>1, <1>3, <1>4
<1>10. /\ Len(x) \in Nat /\ Len(y) \in Nat /\ Len(t) = Len(x) + 7 + Len(y)
       /\ t[1] = a /\ t[2] = b /\ t[3] = c /\ t[4] = d /\ t[5] = e
       /\ \A k \in 1 .. Len(x) : t[5 + k] = x[k]
       /\ t[Len(x) + 6] = f /\ t[Len(x) + 7] = g
       /\ \A k \in 1 .. Len(y) : t[Len(x) + 7 + k] = y[k]
  <2>1. x \in Seq(S) /\ y \in Seq(S)
    BY <1>7, <1>8
  <2>2. HasParts(t, a, b, c, d, e, x, f, g, y)
    BY <1>6, <1>9, <2>1, PartsOfText
  <2> QED BY <2>2 DEF HasParts
<1>11. /\ a.word \in {"permit", "deny"} /\ a.word = r.Action /\ b.word = "out" /\ d.word = "from" /\ f.word = "to"
       /\ e.word = AddrsWord(r.Src) /\ g.word = AddrsWord(r.Dst) /\ ~ParsePorts(f).ok
       /\ IsProto(c) /\ ParseProto(c) = r.Proto
  BY <1>1, <1>2, <1>3, WordBack, ProtoBack
<1>12. /\ IsAddrs(e.word) /\ ParseAddrs(e.word) = NormalAddrs(r.Src)
       /\ IsAddrs(g.word) /\ ParseAddrs(g.word) = NormalAddrs(r.Dst)
  BY <1>1, <1>2, <1>11, AddrsBack
<1>13. PICK src : src = ParsePorts(t[6])
  OBVIOUS
<1>14. PICK to : to = (IF src.ok THEN 7 ELSE 6)
  OBVIOUS
<1>15. PICK dst : dst = ParsePorts(t[to + 2])
  OBVIOUS
<1>16. /\ to = Len(x) + 6 /\ to \in Nat
       /\ (IF src.ok THEN src.ports ELSE <<>>) = r.SrcPorts
  <2>1. CASE r.SrcPorts = <<>>
    <3>1. Len(x) = 0 /\ t[6] = f
      BY <1>7, <1>10, <2>1
    <3>2. ~src.ok
      BY <1>11, <1>13, <3>1
    <3> QED BY <1>14, <2>1, <3>1, <3>2
  <2>2. CASE r.SrcPorts # <<>>
    <3>1. Len(x) = 1 /\ 1 \in 1 .. Len(x) /\ ParsePorts(x[1]) = [ok |-> TRUE, ports |-> r.SrcPorts]
      BY <1>7, <2>2
    <3>2. t[5 + 1] = x[1] /\ 5 + 1 = 6
      BY <1>10, <3>1
    <3>3. src = [ok |-> TRUE, ports |-> r.SrcPorts]
      BY <1>13, <3>1, <3>2
    <3>4. src.ok /\ src.ports = r.SrcPorts
      BY <3>3
    <3> QED BY <1>14, <3>1, <3>4
  <2> QED BY <2>1, <2>2
<1>17. /\ t[to] = f /\ t[to + 1] = g /\ Len(t) >= 6 /\ Len(t) >= to + 1
       /\ Len(t) >= to + 2 <=> Len(y) >= 1
  <2>1. PICK m \in Nat, n \in Nat : m = Len(x) /\ n = Len(y)
    BY <1>10
  <2>2. t[m + 6] = f /\ t[m + 7] = g /\ Len(t) = m + 7 + n /\ to = m + 6
    BY <1>10, <1>16, <2>1
  <2>3. to + 1 = m + 7 /\ m + 7 + n >= 6 /\ m + 7 + n >= to + 1 /\ (m + 7 + n >= to + 2 <=> n >= 1)
    BY <2>2
  <2> QED BY <2>1, <2>2, <2>3
<1>18. (IF Len(t) >= to + 2 /\ dst.ok THEN dst.ports ELSE <<>>) = r.DstPorts
  <2>1. CASE r.DstPorts = <<>>
    <3>1. ~(Len(t) >= to + 2)
      BY <1>8, <1>17, <2>1
    <3> QED BY <2>1, <3>1
  <2>2. CASE r.DstPorts # <<>>
    <3>1. Len(y) = 1 /\ 1 \in 1 .. Len(y) /\ ParsePorts(y[1]) = [ok |-> TRUE, ports |-> r.DstPorts]
      BY <1>8, <2>2
    <3>2. t[Len(x) + 7 + 1] = y[1]
      BY <1>10, <3>1
    <3>3. Len(x) + 7 + 1 = to + 2
      BY <1>10, <1>16
    <3>4. dst = [ok |-> TRUE, ports |-> r.DstPorts]
      BY <1>15, <3>1, <3>2, <3>3
    <3>5. dst.ok /\ dst.ports = r.DstPorts /\ Len(t) >= to + 2
      BY <1>17, <3>1, <3>4
    <3> QED BY <3>5
  <2> QED BY <2>1, <2>2
<1>19. /\ t[1].word = r.Action /\ t[1].word \in {"permit", "deny"} /\ t[2].word = "out" /\ t[3] = c
       /\ t[4].word = "from" /\ t[5].word = e.word
  BY <1>10, <1>11
<1>20. Decode(t) = [ok |-> TRUE,
              rule |-> [Action |-> t[1].word, Dir |-> t[2].word, Proto |-> ParseProto(t[3]),
                        Src |-> ParseAddrs(t[5].word), SrcPorts |-> r.SrcPorts,
                        Dst |-> ParseAddrs(t[to + 1].word), DstPorts |-> r.DstPorts]]
  <2>1. /\ IsProto(t[3]) /\ IsAddrs(t[5].word) /\ t[to].word = "to" /\ IsAddrs(t[to + 1].word)
    BY <1>11, <1>12, <1>17, <1>19
  <2>2. Readable(t, to, r.SrcPorts, r.DstPorts)
    BY <1>13, <1>14, <1>15, <1>16, <1>17, <1>18, <1>19, <2>1 DEF Readable
  <2> QED BY <2>2, DecodeIs
<1>21. Decode(t) = [ok |-> TRUE, rule |-> Normal(r)]
  <2>1. /\ t[1].word = r.Action /\ t[2].word = r.Dir /\ ParseProto(t[3]) = r.Proto
        /\ ParseAddrs(t[5].word) = NormalAddrs(r.Src)
        /\ ParseAddrs(t[to + 1].word) = NormalAddrs(r.Dst)
    BY <1>1, <1>11, <1>12, <1>17, <1>19
  <2>2. Normal(r) = [Action |-> r.Action, Dir |-> r.Dir, Proto |-> r.Proto,
                     Src |-> NormalAddrs(r.Src), SrcPorts |-> r.SrcPorts,
                     Dst |-> NormalAddrs(r.Dst), DstPorts |-> r.DstPorts]
    BY NormalIs
  <2> QED BY <1>20, <2>1, <2>2
<1> QED BY <1>21

-----------------------------------------------------------------------------
(* What Decode gives has the types of its fields                            *)

\* A token is a word and a list of lists of numbers.
LEMMA TokenType ==
    ASSUME NEW tok \in Tokens
    PROVE  /\ tok.word \in STRING
           /\ DOMAIN tok.nums = 1 .. Len(tok.nums) /\ Len(tok.nums) \in Nat
           /\ \A i \in DOMAIN tok.nums : tok.nums[i] \in Seq(Nat)
<1>1. PICK N : N = Seq(Nat) \ {<<>>}
  OBVIOUS
<1>2. PICK T : T = Seq(N)
  OBVIOUS
<1>3. Tokens = [word : STRING, nums : T]
  BY <1>1, <1>2 DEF Tokens
<1>4. tok.word \in STRING /\ tok.nums \in T
  BY <1>3
<1>5. PICK ns \in Seq(N) : ns = tok.nums
  BY <1>2, <1>4
<1>6. DOMAIN ns = 1 .. Len(ns) /\ Len(ns) \in Nat /\ \A i \in DOMAIN ns : ns[i] \in N
  BY <1>5
<1> QED BY <1>1, <1>4, <1>5, <1>6

\* Ports that are accepted fit their 16 bits.
LEMMA ParsedPorts ==
    ASSUME NEW tok \in Tokens, ParsePorts(tok).ok
    PROVE  ParsePorts(tok).ports \in Seq(PortRange)
<1>1. PICK ns : ns = tok.nums
  OBVIOUS
<1>2. ParsePorts(tok) # Refused
  BY DEF Refused
<1>3. /\ \A i \in DOMAIN ns : RangeFirst(ns[i]) \in Uint16 /\ RangeLast(ns[i]) \in Uint16
      /\ ParsePorts(tok).ports = [i \in DOMAIN ns |-> <<RangeFirst(ns[i]), RangeLast(ns[i])>>]
  BY <1>1, <1>2 DEF ParsePorts, RangeFirst, RangeLast
<1>4. DOMAIN ns = 1 .. Len(ns) /\ Len(ns) \in Nat
  BY <1>1, TokenType
<1>5. \A i \in DOMAIN ns : <<RangeFirst(ns[i]), RangeLast(ns[i])>> \in PortRange
  BY <1>3 DEF PortRange
<1> QED BY <1>3, <1>4, <1>5

\* A protocol that is accepted fits its 8 bits, for it is cut to them.
LEMMA ParsedProto ==
    ASSUME NEW tok \in Tokens, IsProto(tok)
    PROVE  ParseProto(tok) \in Uint8
<1>1. CASE tok.word = "ip"
  BY <1>1 DEF ParseProto, ProtocolNumberAny, Uint8
<1>2. CASE tok.word # "ip"
  <2>1. Len(tok.nums) = 1 /\ Len(tok.nums[1]) = 1
    BY <1>2 DEF IsProto
  <2>2. 1 \in DOMAIN tok.nums
    BY <2>1, TokenType
  <2>3. PICK in \in Seq(Nat) : in = tok.nums[1]
    BY <2>2, TokenType
  <2>4. PICK k \in Nat : k = in[1]
    BY <2>1, <2>3
  <2>5. k % 256 \in Uint8
    BY DEF Uint8
  <2> QED BY <1>2, <2>3, <2>4, <2>5 DEF ParseProto
<1> QED BY <1>1, <1>2

\* An address that is accepted is a word.
LEMMA ParsedAddrs ==
    ASSUME NEW w \in STRING, IsAddrs(w)
    PROVE  ParseAddrs(w) \in STRING
  BY NormalAssumption DEF IsAddrs, ParseAddrs

\* A rule put together from fields of the right types is one.
LEMMA RuleOf ==
    ASSUME NEW a \in STRING, NEW d \in STRING, NEW p \in Uint8, NEW s \in STRING,
           NEW sp \in Seq(PortRange), NEW e \in STRING, NEW dp \in Seq(PortRange)
    PROVE  [Action |-> a, Dir |-> d, Proto |-> p, Src |-> s, SrcPorts |-> sp, Dst |-> e,
            DstPorts |-> dp] \in IPFilterRule
<1>1. PICK P : P = Seq(PortRange)
  OBVIOUS
<1>2. IPFilterRule = [Action : STRING, Dir : STRING, Proto : Uint8, Src : STRING, SrcPorts : P,
                      Dst : STRING, DstPorts : P]
  BY <1>1 DEF IPFilterRule
<1>3. sp \in P /\ dp \in P
  BY <1>1
<1> QED BY <1>2, <1>3

\* Decode gives a rule.
LEMMA DecodedRule ==
    ASSUME NEW t \in Seq(Tokens), Decode(t).ok
    PROVE  Decode(t).rule \in IPFilterRule
<1>1. PICK src : src = ParsePorts(t[6])
  OBVIOUS
<1>2. PICK to : to = (IF src.ok THEN 7 ELSE 6)
  OBVIOUS
<1>3. PICK dst : dst = ParsePorts(t[to + 2])
  OBVIOUS
<1>4. Decode(t) # Refused
  BY DEF Refused
<1>5. /\ Len(t) >= 6 /\ Len(t) >= to + 1
      /\ IsProto(t[3]) /\ IsAddrs(t[5].word) /\ IsAddrs(t[to + 1].word)
      /\ Decode(t).rule =
           [Action |-> t[1].word, Dir |-> t[2].word, Proto |-> ParseProto(t[3]),
            Src |-> ParseAddrs(t[5].word), SrcPorts |-> IF src.ok THEN src.ports ELSE <<>>,
            Dst |-> ParseAddrs(t[to + 1].word),
            DstPorts |-> IF Len(t) >= to + 2 /\ dst.ok THEN dst.ports ELSE <<>>]
  BY <1>1, <1>2, <1>3, <1>4 DEF Decode
<1>6. PICK n \in Nat : n = Len(t)
  OBVIOUS
<1>7. n >= 6 /\ to \in {6, 7} /\ n >= to + 1 /\ \A i \in 1 .. n : t[i] \in Tokens
  BY <1>2, <1>5, <1>6
<1>8. /\ t[1] \in Tokens /\ t[2] \in Tokens /\ t[3] \in Tokens /\ t[5] \in Tokens /\ t[6] \in Tokens
      /\ t[to + 1] \in Tokens /\ (n >= to + 2 => t[to + 2] \in Tokens)
  <2>1. /\ 1 \in 1 .. n /\ 2 \in 1 .. n /\ 3 \in 1 .. n /\ 5 \in 1 .. n /\ 6 \in 1 .. n
        /\ to + 1 \in 1 .. n /\ (n >= to + 2 => to + 2 \in 1 .. n)
    BY <1>7
  <2> QED BY <1>7, <2>1
<1>9. PICK sp : sp = (IF src.ok THEN src.ports ELSE <<>>)
  OBVIOUS
<1>10. PICK dp : dp = (IF Len(t) >= to + 2 /\ dst.ok THEN dst.ports ELSE <<>>)
  OBVIOUS
<1>11. <<>> \in Seq(PortRange)
  OBVIOUS
<1>12. sp \in Seq(PortRange)
  BY <1>1, <1>8, <1>9, <1>11, ParsedPorts
<1>13. dp \in Seq(PortRange)
  BY <1>3, <1>6, <1>8, <1>10, <1>11, ParsedPorts
<1>14. ParseProto(t[3]) \in Uint8
  BY <1>5, <1>8, ParsedProto
<1>15. t[1].word \in STRING /\ t[2].word \in STRING
  BY <1>8, TokenType
<1>16. ParseAddrs(t[5].word) \in STRING /\ ParseAddrs(t[to + 1].word) \in STRING
  <2>1. t[5].word \in STRING /\ t[to + 1].word \in STRING
    BY <1>8, TokenType
  <2> QED BY <1>5, <2>1, ParsedAddrs
<1>17. PICK a \in STRING, d \in STRING, p \in Uint8, s \in STRING, e \in STRING :
         /\ a = t[1].word /\ d = t[2].word /\ p = ParseProto(t[3])
         /\ s = ParseAddrs(t[5].word) /\ e = ParseAddrs(t[to + 1].word)
  BY <1>14, <1>15, <1>16
<1>18. Decode(t).rule = [Action |-> a, Dir |-> d, Proto |-> p, Src |-> s, SrcPorts |-> sp, Dst |-> e,
                         DstPorts |-> dp]
  BY <1>5, <1>9, <1>10, <1>17
<1> QED BY <1>12, <1>13, <1>18, RuleOf

-----------------------------------------------------------------------------
(* The theorems about flow descriptions                                     *)

\* Swapping keeps a rule a rule, and one that can be encoded; and it commutes
\* with Normal.
LEMMA SwapIs ==
    ASSUME NEW r \in IPFilterRule, Encode(r).ok
    PROVE  /\ SwapSrcAndDst(r) \in IPFilterRule /\ Encode(SwapSrcAndDst(r)).ok
           /\ Normal(SwapSrcAndDst(r)) = SwapSrcAndDst(Normal(r))
<1>1. PICK P : P = Seq(PortRange)
  OBVIOUS
<1>2. IPFilterRule = [Action : STRING, Dir : STRING, Proto : Uint8, Src : STRING, SrcPorts : P,
                      Dst : STRING, DstPorts : P]
  BY <1>1 DEF IPFilterRule
<1>3. PICK s : s = SwapSrcAndDst(r)
  OBVIOUS
<1>4. s = [Action |-> r.Action, Dir |-> r.Dir, Proto |-> r.Proto, Src |-> r.Dst,
           SrcPorts |-> r.DstPorts, Dst |-> r.Src, DstPorts |-> r.SrcPorts]
  BY <1>2, <1>3 DEF SwapSrcAndDst
<1>5. s \in IPFilterRule
  BY <1>2, <1>4
<1>6. s.Action = r.Action /\ s.Dir = r.Dir /\ s.Proto = r.Proto /\ s.Src = r.Dst
      /\ s.SrcPorts = r.DstPorts /\ s.Dst = r.Src /\ s.DstPorts = r.SrcPorts
  BY <1>4
<1>7. Encode(s).ok
  <2>1. /\ r.Action \in {"permit", "deny"} /\ r.Dir = "out"
        /\ r.Src = "" \/ IsAddrs(r.Src)
        /\ r.Dst = "" \/ IsAddrs(r.Dst)
    BY EncodeIs
  <2>2. /\ s.Action \in {"permit", "deny"} /\ s.Dir = "out"
        /\ \A w \in {s.Src, s.Dst} : w = "" \/ IsAddrs(w)
    BY <1>6, <2>1
  <2> QED BY <2>2 DEF Encode
<1>8. Normal(r) = [Action |-> r.Action, Dir |-> r.Dir, Proto |-> r.Proto,
                   Src |-> NormalAddrs(r.Src), SrcPorts |-> r.SrcPorts,
                   Dst |-> NormalAddrs(r.Dst), DstPorts |-> r.DstPorts]
  BY NormalIs
<1>9. Normal(s) = [Action |-> r.Action, Dir |-> r.Dir, Proto |-> r.Proto,
                   Src |-> NormalAddrs(r.Dst), SrcPorts |-> r.DstPorts,
                   Dst |-> NormalAddrs(r.Src), DstPorts |-> r.SrcPorts]
  BY <1>5, <1>6, NormalIs
<1>10. Normal(s) = SwapSrcAndDst(Normal(r))
  <2>1. PICK x, y : x = NormalAddrs(r.Src) /\ y = NormalAddrs(r.Dst)
    OBVIOUS
  <2>2. PICK a, d, p, sp, dp : a = r.Action /\ d = r.Dir /\ p = r.Proto /\ sp = r.SrcPorts /\ dp = r.DstPorts
    OBVIOUS
  <2>3. PICK z : z = Normal(r)
    OBVIOUS
  <2>4. z = [Action |-> a, Dir |-> d, Proto |-> p, Src |-> x, SrcPorts |-> sp, Dst |-> y, DstPorts |-> dp]
    BY <1>8, <2>1, <2>2, <2>3
  <2>5. SwapSrcAndDst(z) = [Action |-> a, Dir |-> d, Proto |-> p, Src |-> y, SrcPorts |-> dp, Dst |-> x,
                            DstPorts |-> sp]
    <3>1. PICK S : S = {a, d, p, x, y, sp, dp}
      OBVIOUS
    <3>2. z \in [Action : S, Dir : S, Proto : S, Src : S, SrcPorts : S, Dst : S, DstPorts : S]
      BY <2>4, <3>1
    <3>3. PICK u : u = SwapSrcAndDst(z)
      OBVIOUS
    <3>4. u = [Action |-> z.Action, Dir |-> z.Dir, Proto |-> z.Proto, Src |-> z.Dst,
               SrcPorts |-> z.DstPorts, Dst |-> z.Src, DstPorts |-> z.SrcPorts]
      BY <3>2, <3>3 DEF SwapSrcAndDst
    <3>5. z.Action = a /\ z.Dir = d /\ z.Proto = p /\ z.Src = x /\ z.SrcPorts = sp /\ z.Dst = y
          /\ z.DstPorts = dp
      BY <2>4
    <3> QED BY <3>3, <3>4, <3>5
  <2> QED BY <1>9, <2>1, <2>2, <2>3, <2>5
<1> QED BY <1>3, <1>5, <1>7, <1>10

\* What is worked on has its type, the text between Encode and Decode is that of
\* the rule, and nothing else goes on in a behaviour about flow descriptions.
FlowInv ==
    /\ step = "decode" => text \in Seq(Tokens)
    /\ step \in {"encode", "decode again"} => rule \in IPFilterRule
    /\ step = "decode again" => Encode(rule).ok /\ text = Encode(rule).text
    /\ step \in {"decode", "encode", "decode again"} => result = "error" /\ verdict = "ok"

\* Init => FlowInv: the inputs have their types.
LEMMA InitFlowInv == Init => FlowInv
<1>1. CASE NoHeader /\ NoAKA /\ text \in Texts /\ step = "decode"
  BY <1>1, InputAssumption DEF NoHeader, NoAKA, FlowInv
<1>2. CASE NoHeader /\ NoAKA /\ rule \in Rules /\ step = "encode"
  BY <1>2, InputAssumption DEF NoHeader, NoAKA, FlowInv
<1>3. CASE NoFlow
  BY <1>3 DEF NoFlow, FlowInv
<1> QED BY <1>1, <1>2, <1>3 DEF Init

\* With no authentication under way, AKA takes no step.
LEMMA NoStepOfAKA == verdict = "ok" => ~AKANext
  BY DEF AKANext, Challenge, Restore, DamageMessage, Receive, ReceiveRES, ReceiveAUTS

\* Every step keeps it.
LEMMA NextFlowInv == FlowInv /\ [Next]_vars => FlowInv'
<1> SUFFICES ASSUME FlowInv, [Next]_vars  PROVE FlowInv'
  OBVIOUS
<1>1. CASE FlowDecode
  <2>1. UNCHANGED <<result, verdict>> /\ result = "error" /\ verdict = "ok" /\ text \in Seq(Tokens)
    BY <1>1 DEF FlowDecode, FlowInv, ohvars, akavars
  <2>2. CASE Decode(text).ok /\ rule' = Decode(text).rule /\ step' = "encode"
    <3>1. rule' \in IPFilterRule
      BY <2>1, <2>2, DecodedRule
    <3> QED BY <2>1, <2>2, <3>1 DEF FlowInv
  <2>3. CASE step' = "refused"
    BY <2>3 DEF FlowInv
  <2> QED BY <1>1, <2>2, <2>3 DEF FlowDecode
<1>2. CASE FlowEncode
  <2>1. UNCHANGED <<rule, result, verdict>> /\ result = "error" /\ verdict = "ok" /\ rule \in IPFilterRule
    BY <1>2 DEF FlowEncode, FlowInv, ohvars, akavars
  <2>2. CASE Encode(rule).ok /\ text' = Encode(rule).text /\ step' = "decode again"
    BY <2>1, <2>2 DEF FlowInv
  <2>3. CASE step' = "refused"
    BY <2>3 DEF FlowInv
  <2> QED BY <1>2, <2>2, <2>3 DEF FlowEncode
<1>3. CASE FlowDecodeAgain
  <2>1. step' \in {"done", "refused"}
    BY <1>3 DEF FlowDecodeAgain
  <2> QED BY <2>1 DEF FlowInv
<1>4. CASE (ParseField \/ Finish) /\ UNCHANGED <<flowvars, akavars>>
  <2>1. result = "running" /\ UNCHANGED step
    BY <1>4 DEF ParseField, Finish, flowvars
  <2> QED BY <2>1 DEF FlowInv
<1>5. CASE AKANext /\ UNCHANGED <<flowvars, ohvars>>
  <2>1. verdict # "ok" /\ UNCHANGED step
    BY <1>5, NoStepOfAKA DEF flowvars
  <2> QED BY <2>1 DEF FlowInv
<1>6. CASE UNCHANGED vars
  BY <1>6 DEF vars, flowvars, ohvars, akavars, FlowInv
<1> QED BY <1>1, <1>2, <1>3, <1>4, <1>5, <1>6 DEF Next

\* SwapSrcAndDst agrees with the text, for every text decoded and every rule
\* encoded.
THEOREM SwapAgrees == Spec => []SwapCommutes
<1>1. FlowInv => SwapCommutes
  <2>1. SUFFICES ASSUME FlowInv, step = "decode again"
                 PROVE  LET back == Encode(SwapSrcAndDst(rule))
                        IN  back.ok /\ Decode(back.text).ok
                            /\ Decode(back.text).rule = SwapSrcAndDst(Normal(rule))
    BY DEF SwapCommutes
  <2>2. rule \in IPFilterRule /\ Encode(rule).ok
    BY <2>1 DEF FlowInv
  <2>3. PICK s : s = SwapSrcAndDst(rule)
    OBVIOUS
  <2>4. s \in IPFilterRule /\ Encode(s).ok /\ Normal(s) = SwapSrcAndDst(Normal(rule))
    BY <2>2, <2>3, SwapIs
  <2>5. Decode(Encode(s).text).ok /\ Decode(Encode(s).text).rule = Normal(s)
    BY <2>4, RoundTrip
  <2> QED BY <2>3, <2>4, <2>5
<1> QED BY <1>1, InitFlowInv, NextFlowInv, PTL DEF Spec

\* What Encode writes, Decode reads, for every text decoded and every rule
\* encoded.
THEOREM DecodeInvertsEncode == Spec => EncodeThenDecode
<1> DEFINE A == step = "decode again" => step' = "done" /\ rule' = Normal(rule)
<1>1. FlowInv /\ [Next]_vars => [A]_vars
  <2> SUFFICES ASSUME FlowInv, Next, step = "decode again"
               PROVE  step' = "done" /\ rule' = Normal(rule)
    OBVIOUS
  <2>1. /\ rule \in IPFilterRule /\ Encode(rule).ok /\ text = Encode(rule).text
        /\ result = "error" /\ verdict = "ok"
    BY DEF FlowInv
  <2>2. Decode(text).ok /\ Decode(text).rule = Normal(rule)
    BY <2>1, RoundTrip
  <2>3. FlowDecodeAgain
    BY <2>1, NoStepOfAKA DEF Next, FlowDecode, FlowEncode, ParseField, Finish
  <2> QED BY <2>2, <2>3 DEF FlowDecodeAgain
<1> HIDE DEF A
<1>2. Spec => [][A]_vars
  BY <1>1, InitFlowInv, NextFlowInv, PTL DEF Spec
<1> QED BY <1>2 DEF EncodeThenDecode, A

-----------------------------------------------------------------------------
(* Milenage                                                                 *)

\* What is used of AES: from a key and a block it makes a block.
BlockCipher ==
    \A k, b \in Octets(CIPHER_BLOCK_LEN) : Encrypt(k, b) \in Octets(CIPHER_BLOCK_LEN)

\* The smaller of two numbers.
LEMMA MinOfTwo == ASSUME NEW m \in Nat, NEW n \in Nat, m <= n  PROVE Min({m, n}) = m /\ Min({n, m}) = m
<1>1. \A S : (\A x \in S : x \in Nat) /\ m \in S /\ (\A y \in S : m <= y) => Min(S) = m
  <2> SUFFICES ASSUME NEW S, \A x \in S : x \in Nat, m \in S, \A y \in S : m <= y
               PROVE  Min(S) = m
    OBVIOUS
  <2>1. \E x \in S : \A y \in S : x =< y
    OBVIOUS
  <2>2. PICK x : x = Min(S)
    OBVIOUS
  <2>3. x \in S /\ \A y \in S : x =< y
    BY <2>1, <2>2 DEF Min
  <2>4. x <= m /\ m <= x /\ x \in Nat
    BY <2>3
  <2> QED BY <2>2, <2>4
<1>2. \A S : S = {m, n} => (\A x \in S : x \in Nat) /\ m \in S /\ (\A y \in S : m <= y)
  OBVIOUS
<1>3. {n, m} = {m, n}
  OBVIOUS
<1> QED BY <1>1, <1>2, <1>3

\* The octets of a slice are octets.
LEMMA EachOctet == ASSUME NEW n \in Nat, NEW s \in Octets(n)  PROVE \A i \in 1 .. n : s[i] \in SUBSET Int
  BY DEF Octets

\* A sequence with an octet at each of n places is n octets.
LEMMA MadeOfOctets == ASSUME NEW n \in Nat, NEW s \in [1 .. n -> SUBSET Int]  PROVE s \in Octets(n)
<1>1. s \in Seq(SUBSET Int) /\ Len(s) = n
  OBVIOUS
<1> QED BY <1>1 DEF Octets

\* xor of two octets, taken twice, gives the octet back.
LEMMA SymDiffTwice ==
    ASSUME NEW a \in SUBSET Int, NEW b \in SUBSET Int
    PROVE  SymDiff(a, b) \in SUBSET Int /\ SymDiff(SymDiff(a, b), b) = a
  BY DEF SymDiff

\* xor of slices, octet by octet.
LEMMA XorIs ==
    ASSUME NEW m \in Nat, NEW n \in Nat, m <= n, NEW a \in Octets(m), NEW b \in Octets(n)
    PROVE  /\ xor(a, b) \in Octets(m)
           /\ \A i \in 1 .. m : xor(a, b)[i] = SymDiff(a[i], b[i])
<1>1. a \in Seq(SUBSET Int) /\ Len(a) = m /\ b \in Seq(SUBSET Int) /\ Len(b) = n
  BY DEF Octets
<1>2. xor(a, b) = [i \in 1 .. m |-> SymDiff(a[i], b[i])]
  BY <1>1, MinOfTwo DEF xor
<1>3. \A i \in 1 .. m : a[i] \in SUBSET Int /\ b[i] \in SUBSET Int
  BY <1>1
<1>4. \A i \in 1 .. m : SymDiff(a[i], b[i]) \in SUBSET Int
  BY <1>3, SymDiffTwice
<1>5. PICK x : x = xor(a, b)
  OBVIOUS
<1>6. x \in [1 .. m -> SUBSET Int] /\ \A i \in 1 .. m : x[i] = SymDiff(a[i], b[i])
  BY <1>2, <1>4, <1>5
<1>7. x \in Seq(SUBSET Int) /\ Len(x) = m
  BY <1>6
<1> QED BY <1>5, <1>6, <1>7 DEF Octets

\* Slices of one length with the same octets are the same.
LEMMA SameOctets ==
    ASSUME NEW n \in Nat, NEW a \in Octets(n), NEW b \in Octets(n), \A i \in 1 .. n : a[i] = b[i]
    PROVE  a = b
  BY DEF Octets

\* What is concealed with a key is uncovered with the same key.
LEMMA XorTwice ==
    ASSUME NEW m \in Nat, NEW a \in Octets(m), NEW b \in Octets(m)
    PROVE  xor(xor(a, b), b) = a
<1>1. PICK x : x = xor(a, b)
  OBVIOUS
<1>2. PICK y : y = xor(x, b)
  OBVIOUS
<1>0. m <= m
  OBVIOUS
<1>3. x \in Octets(m) /\ \A i \in 1 .. m : x[i] = SymDiff(a[i], b[i])
  BY <1>0, <1>1, XorIs
<1>4. y \in Octets(m) /\ \A i \in 1 .. m : y[i] = SymDiff(x[i], b[i])
  BY <1>0, <1>2, <1>3, XorIs
<1>5. \A i \in 1 .. m : a[i] \in SUBSET Int /\ b[i] \in SUBSET Int
  BY DEF Octets
<1>6. \A i \in 1 .. m : y[i] = a[i]
  BY <1>3, <1>4, <1>5, SymDiffTwice
<1> QED BY <1>1, <1>2, <1>4, <1>6, SameOctets

\* A rotated block is a block.
LEMMA RotIs == ASSUME NEW b \in Octets(16), NEW r \in Nat  PROVE rot(b, r) \in Octets(16)
<1>1. 16 \in Nat
  OBVIOUS
<1>2. \A j \in 1 .. 16 : b[j] \in SUBSET Int
  BY <1>1, EachOctet
<1>3. \A i \in 1 .. 16 : ((i - 1 + r) % 16) + 1 \in 1 .. 16
  OBVIOUS
<1>4. PICK x : x = rot(b, r)
  OBVIOUS
<1>5. x = [i \in 1 .. 16 |-> b[((i - 1 + r) % 16) + 1]]
  BY <1>4 DEF rot, CIPHER_BLOCK_LEN
<1>6. x \in [1 .. 16 -> SUBSET Int]
  BY <1>2, <1>3, <1>5
<1> QED BY <1>1, <1>4, <1>6, MadeOfOctets

\* A constant is a block.
LEMMA CnIs == ASSUME NEW n \in Nat  PROVE cn(n) \in Octets(16)
<1>1. PICK x : x = cn(n)
  OBVIOUS
<1>2. x \in [1 .. 16 -> SUBSET Int]
  BY <1>1 DEF cn, CIPHER_BLOCK_LEN
<1>3. 16 \in Nat
  OBVIOUS
<1> QED BY <1>1, <1>2, <1>3, MadeOfOctets

\* A part of a slice.
Part(s, a, b) == SubSeq(s, a, b)
From(x, s, a, len) == \A i \in 1 .. len : x[i] = s[a + i - 1]

\* A slice s[a-1:b] has b - a + 1 octets, those of s from a on.
LEMMA PartIs ==
    ASSUME NEW n \in Nat, NEW s \in Octets(n), NEW a \in Nat, NEW b \in Nat,
           1 <= a, a <= b + 1, b <= n, NEW len \in Nat, len = b - a + 1
    PROVE  Part(s, a, b) \in Octets(len) /\ From(Part(s, a, b), s, a, len)
<1>1. s \in Seq(SUBSET Int) /\ Len(s) = n
  BY DEF Octets
<1>2. PICK x : x = SubSeq(s, a, b)
  OBVIOUS
<1>3. x \in Seq(SUBSET Int) /\ Len(x) = b - a + 1
  BY <1>1, <1>2
<1>4. \A i \in 1 .. b - a + 1 : x[i] = s[a + i - 1]
  BY <1>1, <1>2
<1> QED BY <1>2, <1>3, <1>4 DEF Octets, Part, From

\* Two slices joined, and cut where they were joined.
LEMMA JoinIs ==
    ASSUME NEW m \in Nat, NEW n \in Nat, NEW s \in Octets(m), NEW t \in Octets(n),
           NEW from \in Nat, from = m + 1, NEW len \in Nat, len = m + n
    PROVE  /\ s \o t \in Octets(len)
           /\ Part(s \o t, 1, m) = s
           /\ Part(s \o t, from, len) = t
<1>1. s \in Seq(SUBSET Int) /\ Len(s) = m /\ t \in Seq(SUBSET Int) /\ Len(t) = n
  BY DEF Octets
<1>2. PICK j : j = s \o t
  OBVIOUS
<1>3. j \in Seq(SUBSET Int) /\ Len(j) = m + n
  <2>1. PICK S : S = SUBSET Int
    OBVIOUS
  <2>2. s \in Seq(S) /\ t \in Seq(S)
    BY <1>1, <2>1
  <2>3. s \o t \in Seq(S) /\ Len(s \o t) = Len(s) + Len(t)
    BY <2>2
  <2> QED BY <1>1, <1>2, <2>1, <2>3
<1>4. /\ \A i \in 1 .. m : j[i] = s[i]
      /\ \A i \in 1 .. n : j[m + i] = t[i]
  BY <1>1, <1>2
<1>5. j \in Octets(len)
  BY <1>3 DEF Octets
<1>6. Part(j, 1, m) = s
  <2>1. 1 \in Nat /\ 1 <= 1 /\ 1 <= m + 1 /\ m <= len /\ m = m - 1 + 1 /\ \A i \in 1 .. m : 1 + i - 1 = i
    OBVIOUS
  <2>2. Part(j, 1, m) \in Octets(m) /\ From(Part(j, 1, m), j, 1, m)
    BY <1>5, <2>1, PartIs
  <2>3. \A i \in 1 .. m : Part(j, 1, m)[i] = s[i]
    BY <1>4, <2>1, <2>2 DEF From
  <2> QED BY <2>2, <2>3, SameOctets
<1>7. Part(j, from, len) = t
  <2>1. 1 <= from /\ from <= len + 1 /\ len <= len /\ n = len - from + 1
        /\ \A i \in 1 .. n : from + i - 1 = m + i
    OBVIOUS
  <2>2. Part(j, from, len) \in Octets(n) /\ From(Part(j, from, len), j, from, n)
    BY <1>5, <2>1, PartIs
  <2>3. \A i \in 1 .. n : Part(j, from, len)[i] = t[i]
    BY <1>4, <2>1, <2>2 DEF From
  <2> QED BY <2>2, <2>3, SameOctets
<1> QED BY <1>2, <1>5, <1>6, <1>7

\* validateArg accepts arguments of the right length, and refuses any other.
LEMMA GoodArgs ==
    ASSUME NEW args, NEW n \in Nat, Len(args) = n, \A i \in 1 .. n : Len(args[i][1]) = args[i][3]
    PROVE  validateArgs(args) = "none"
  BY DEF validateArgs, SelectInSeq

\* validateArgs names the last argument when that alone has not its length.
LEMMA BadArg ==
    ASSUME NEW args, NEW n \in Nat, Len(args) = n, n > 0, Len(args[n][1]) # args[n][3],
           \A i \in 1 .. n : i # n => Len(args[i][1]) = args[i][3]
    PROVE  validateArgs(args) = args[n][2]
<1> DEFINE I == {i \in 1 .. Len(args) : Len(args[i][1]) # args[i][3]}
<1>1. I = {n}
  OBVIOUS
<1>2. Min({n}) = n
  BY DEF Min
<1>3. PICK i : i = IF I # {} THEN Min(I) ELSE 0
  OBVIOUS
<1>4. validateArgs(args) = IF i = 0 THEN "none" ELSE args[i][2]
  BY <1>3 DEF validateArgs, SelectInSeq
<1> HIDE DEF I
<1>5. i = n
  BY <1>1, <1>2, <1>3
<1> QED BY <1>4, <1>5

\* The arguments of a function on tokens: the three of KeyArgs and one or two more.
IsConcat(j, s, t, m, n) ==
    /\ Len(j) = m + n
    /\ \A i \in 1 .. m : j[i] = s[i]
    /\ \A i \in 1 .. n : j[m + i] = t[i]

\* What \o makes of two sequences has the places of both.
LEMMA Concat ==
    ASSUME NEW S, NEW s \in Seq(S), NEW t \in Seq(S), NEW m \in Nat, NEW n \in Nat, Len(s) = m, Len(t) = n
    PROVE  IsConcat(s \o t, s, t, m, n)
  BY DEF IsConcat

\* The four arguments of GenerateAUTS and of the readers of a token, each in its
\* place.
LEMMA FourArgs ==
    ASSUME NEW a, NEW b, NEW c, NEW d
    PROVE  /\ Len(<<a, b, c>> \o <<d>>) = 4
           /\ (<<a, b, c>> \o <<d>>)[1] = a /\ (<<a, b, c>> \o <<d>>)[2] = b
           /\ (<<a, b, c>> \o <<d>>)[3] = c /\ (<<a, b, c>> \o <<d>>)[4] = d
<1>1. PICK S : S = {a, b, c, d}
  OBVIOUS
<1>2. PICK s : s = <<a, b, c>>
  OBVIOUS
<1>3. PICK t : t = <<d>>
  OBVIOUS
<1>4. s \in Seq(S) /\ Len(s) = 3 /\ s[1] = a /\ s[2] = b /\ s[3] = c
  BY <1>1, <1>2
<1>5. t \in Seq(S) /\ Len(t) = 1 /\ t[1] = d
  BY <1>1, <1>3
<1>6. /\ Len(s \o t) = 3 + 1
      /\ \A i \in 1 .. 3 : (s \o t)[i] = s[i]
      /\ \A i \in 1 .. 1 : (s \o t)[3 + i] = t[i]
  <2>1. PICK m \in Nat : m = 3
    OBVIOUS
  <2>2. PICK n \in Nat : n = 1
    OBVIOUS
  <2>3. s \in Seq(S) /\ t \in Seq(S) /\ Len(s) = m /\ Len(t) = n
    BY <1>4, <1>5, <2>1, <2>2
  <2>4. IsConcat(s \o t, s, t, m, n)
    BY <2>3, Concat
  <2> QED BY <2>1, <2>2, <2>4 DEF IsConcat
<1>7. PICK j : j = s \o t
  OBVIOUS
<1>8. Len(j) = 4 /\ j[1] = s[1] /\ j[2] = s[2] /\ j[3] = s[3] /\ j[4] = t[1]
  BY <1>6, <1>7
<1>9. Len(j) = 4 /\ j[1] = a /\ j[2] = b /\ j[3] = c /\ j[4] = d
  BY <1>4, <1>5, <1>8
<1> QED BY <1>2, <1>3, <1>7, <1>9

\* The five arguments of F1 and GenerateAKAParameters, each in its place.
LEMMA FiveArgs ==
    ASSUME NEW a, NEW b, NEW c, NEW d, NEW e
    PROVE  /\ Len(<<a, b, c>> \o <<d, e>>) = 5
           /\ (<<a, b, c>> \o <<d, e>>)[1] = a /\ (<<a, b, c>> \o <<d, e>>)[2] = b
           /\ (<<a, b, c>> \o <<d, e>>)[3] = c /\ (<<a, b, c>> \o <<d, e>>)[4] = d
           /\ (<<a, b, c>> \o <<d, e>>)[5] = e
<1>1. PICK S : S = {a, b, c, d, e}
  OBVIOUS
<1>2. PICK s : s = <<a, b, c>>
  OBVIOUS
<1>3. PICK t : t = <<d, e>>
  OBVIOUS
<1>4. s \in Seq(S) /\ Len(s) = 3 /\ s[1] = a /\ s[2] = b /\ s[3] = c
  BY <1>1, <1>2
<1>5. t \in Seq(S) /\ Len(t) = 2 /\ t[1] = d /\ t[2] = e
  BY <1>1, <1>3
<1>6. /\ Len(s \o t) = 3 + 2
      /\ \A i \in 1 .. 3 : (s \o t)[i] = s[i]
      /\ \A i \in 1 .. 2 : (s \o t)[3 + i] = t[i]
  <2>1. PICK m \in Nat : m = 3
    OBVIOUS
  <2>2. PICK n \in Nat : n = 2
    OBVIOUS
  <2>3. s \in Seq(S) /\ t \in Seq(S) /\ Len(s) = m /\ Len(t) = n
    BY <1>4, <1>5, <2>1, <2>2
  <2>4. IsConcat(s \o t, s, t, m, n)
    BY <2>3, Concat
  <2> QED BY <2>1, <2>2, <2>4 DEF IsConcat
<1>7. PICK j : j = s \o t
  OBVIOUS
<1>8. Len(j) = 5 /\ j[1] = s[1] /\ j[2] = s[2] /\ j[3] = s[3] /\ j[4] = t[1] /\ j[5] = t[2]
  BY <1>6, <1>7
<1>9. Len(j) = 5 /\ j[1] = a /\ j[2] = b /\ j[3] = c /\ j[4] = d /\ j[5] = e
  BY <1>4, <1>5, <1>8
<1> QED BY <1>2, <1>3, <1>7, <1>9

\* F2345 and GenerateOPc: their arguments have the right length.
LEMMA KeyArgsGood ==
    ASSUME NEW o \in Octets(16), NEW k \in Octets(16), NEW r \in Octets(16)
    PROVE  validateArgs(KeyArgs(o, k, r)) = "none"
<1>1. PICK args : args = <<<<o, "OPc", 16>>, <<k, "K", 16>>, <<r, "RAND", 16>>>>
  OBVIOUS
<1>2. KeyArgs(o, k, r) = args
  BY <1>1 DEF KeyArgs, OPC_LEN, K_LEN, RAND_LEN
<1>3. Len(o) = 16 /\ Len(k) = 16 /\ Len(r) = 16
  BY DEF Octets
<1>4. Len(args) = 3 /\ \A i \in 1 .. 3 : Len(args[i][1]) = args[i][3]
  BY <1>1, <1>3
<1> QED BY <1>2, <1>4, GoodArgs

\* A key and an OP of 16 octets pass.
LEMMA OPcArgsGood ==
    ASSUME NEW k \in Octets(16), NEW p \in Octets(16)
    PROVE  validateArgs(<<<<k, "K", 16>>, <<p, "OP", 16>>>>) = "none"
<1>1. PICK args : args = <<<<k, "K", 16>>, <<p, "OP", 16>>>>
  OBVIOUS
<1>3. Len(k) = 16 /\ Len(p) = 16
  BY DEF Octets
<1>4. Len(args) = 2 /\ \A i \in 1 .. 2 : Len(args[i][1]) = args[i][3]
  BY <1>1, <1>3
<1> QED BY <1>1, <1>4, GoodArgs

\* A function on a token: the token is accepted if it has its length, else its
\* name is answered.
LEMMA TokenArgs ==
    ASSUME NEW o \in Octets(16), NEW k \in Octets(16), NEW r \in Octets(16),
           NEW t, NEW name, NEW len \in Nat
    PROVE  /\ Len(t) = len => validateArgs(KeyArgs(o, k, r) \o <<<<t, name, len>>>>) = "none"
           /\ Len(t) # len => validateArgs(KeyArgs(o, k, r) \o <<<<t, name, len>>>>) = name
<1>1. PICK a : a = <<o, "OPc", 16>>
  OBVIOUS
<1>2. PICK b : b = <<k, "K", 16>>
  OBVIOUS
<1>3. PICK c : c = <<r, "RAND", 16>>
  OBVIOUS
<1>4. PICK d : d = <<t, name, len>>
  OBVIOUS
<1>5. PICK args : args = <<a, b, c>> \o <<d>>
  OBVIOUS
<1>6. KeyArgs(o, k, r) \o <<<<t, name, len>>>> = args
  BY <1>1, <1>2, <1>3, <1>4, <1>5 DEF KeyArgs, OPC_LEN, K_LEN, RAND_LEN
<1>7. Len(o) = 16 /\ Len(k) = 16 /\ Len(r) = 16
  BY DEF Octets
<1>8. Len(args) = 4 /\ args[1] = a /\ args[2] = b /\ args[3] = c /\ args[4] = d
  BY <1>5, FourArgs
<1>9. \A i \in 1 .. 4 : i # 4 => Len(args[i][1]) = args[i][3]
  <2>1. Len(a[1]) = a[3] /\ Len(b[1]) = b[3] /\ Len(c[1]) = c[3]
    BY <1>1, <1>2, <1>3, <1>7
  <2>2. \A i \in 1 .. 4 : i # 4 => i = 1 \/ i = 2 \/ i = 3
    OBVIOUS
  <2> QED BY <1>8, <2>1, <2>2
<1>10. args[4][1] = t /\ args[4][2] = name /\ args[4][3] = len
  BY <1>4, <1>8
<1>11. 4 \in Nat /\ 4 > 0 /\ Len(args) = 4
  BY <1>8
<1>12. ASSUME Len(t) = len  PROVE validateArgs(args) = "none"
  <2>1. \A i \in 1 .. 4 : Len(args[i][1]) = args[i][3]
    BY <1>9, <1>10, <1>12
  <2> QED BY <1>11, <2>1, GoodArgs
<1>13. ASSUME Len(t) # len  PROVE validateArgs(args) = name
  <2>1. Len(args[4][1]) # args[4][3]
    BY <1>10, <1>13
  <2> QED BY <1>9, <1>10, <1>11, <2>1, BadArg
<1> QED BY <1>6, <1>12, <1>13

\* The arguments of F1 and GenerateAKAParameters, of the lengths they must have,
\* pass.
LEMMA VectorArgs ==
    ASSUME NEW o \in Octets(16), NEW k \in Octets(16), NEW r \in Octets(16),
           NEW s \in Octets(6), NEW m \in Octets(2)
    PROVE  validateArgs(KeyArgs(o, k, r) \o <<<<s, "SQN", 6>>, <<m, "AMF", 2>>>>) = "none"
<1>1. PICK a : a = <<o, "OPc", 16>>
  OBVIOUS
<1>2. PICK b : b = <<k, "K", 16>>
  OBVIOUS
<1>3. PICK c : c = <<r, "RAND", 16>>
  OBVIOUS
<1>4. PICK d : d = <<s, "SQN", 6>>
  OBVIOUS
<1>5. PICK e : e = <<m, "AMF", 2>>
  OBVIOUS
<1>6. PICK args : args = <<a, b, c>> \o <<d, e>>
  OBVIOUS
<1>7. KeyArgs(o, k, r) \o <<<<s, "SQN", 6>>, <<m, "AMF", 2>>>> = args
  BY <1>1, <1>2, <1>3, <1>4, <1>5, <1>6 DEF KeyArgs, OPC_LEN, K_LEN, RAND_LEN
<1>8. Len(o) = 16 /\ Len(k) = 16 /\ Len(r) = 16 /\ Len(s) = 6 /\ Len(m) = 2
  BY DEF Octets
<1>9. Len(args) = 5 /\ args[1] = a /\ args[2] = b /\ args[3] = c /\ args[4] = d /\ args[5] = e
  BY <1>6, FiveArgs
<1>10. \A i \in 1 .. 5 : Len(args[i][1]) = args[i][3]
  <2>1. Len(a[1]) = a[3] /\ Len(b[1]) = b[3] /\ Len(c[1]) = c[3] /\ Len(d[1]) = d[3] /\ Len(e[1]) = e[3]
    BY <1>1, <1>2, <1>3, <1>4, <1>5, <1>8
  <2>2. \A i \in 1 .. 5 : i = 1 \/ i = 2 \/ i = 3 \/ i = 4 \/ i = 5
    OBVIOUS
  <2> QED BY <1>9, <2>1, <2>2
<1>11. 5 \in Nat /\ Len(args) = 5
  BY <1>9
<1> QED BY <1>7, <1>10, <1>11, GoodArgs

\* Blocks, and slices of an SQN, of fixed length.
LEMMA BlockXor == ASSUME NEW a \in Octets(16), NEW b \in Octets(16)  PROVE xor(a, b) \in Octets(16)
<1>1. PICK n \in Nat : n = 16
  OBVIOUS
<1>2. n <= n /\ a \in Octets(n) /\ b \in Octets(n)
  BY <1>1
<1>3. xor(a, b) \in Octets(n)
  BY <1>2, XorIs
<1> QED BY <1>1, <1>3

\* An SQN concealed by an anonymity key is six octets, and the key gives it back.
LEMMA ConcealedIs ==
    ASSUME NEW a \in Octets(6), NEW b \in Octets(6)
    PROVE  xor(a, b) \in Octets(6) /\ xor(xor(a, b), b) = a
<1>1. PICK n \in Nat : n = 6
  OBVIOUS
<1>2. n <= n /\ a \in Octets(n) /\ b \in Octets(n)
  BY <1>1
<1>3. xor(a, b) \in Octets(n)
  BY <1>2, XorIs
<1>4. xor(xor(a, b), b) = a
  BY <1>2, XorTwice
<1> QED BY <1>1, <1>3, <1>4

\* The slices the functions take of a block.
LEMMA PartOfBlock ==
    ASSUME NEW s \in Octets(16)
    PROVE  /\ SubSeq(s, 1, 6) \in Octets(6)
           /\ SubSeq(s, 1, 8) \in Octets(8)
           /\ SubSeq(s, 9, 16) \in Octets(8)
<1>1. ASSUME NEW a \in Nat, NEW b \in Nat, NEW n \in Nat, 1 <= a, a <= b, b <= 16, n = b - a + 1
      PROVE  Part(s, a, b) \in Octets(n)
  <2>1. PICK l16 \in Nat : l16 = 16
    OBVIOUS
  <2>2. s \in Octets(l16) /\ a <= b + 1 /\ b <= l16
    BY <1>1, <2>1
  <2> QED BY <1>1, <2>2, PartIs
<1>2. /\ 1 \in Nat /\ 6 \in Nat /\ 8 \in Nat /\ 9 \in Nat /\ 16 \in Nat
      /\ 6 = 6 - 1 + 1 /\ 8 = 8 - 1 + 1 /\ 8 = 16 - 9 + 1
  OBVIOUS
<1>3. Part(s, 1, 6) \in Octets(6)
  BY <1>1, <1>2
<1>4. Part(s, 1, 8) \in Octets(8)
  BY <1>1, <1>2
<1>5. Part(s, 9, 16) \in Octets(8)
  BY <1>1, <1>2
<1> QED BY <1>3, <1>4, <1>5 DEF Part

\* f1 makes two MACs of eight octets.
LEMMA F1Is ==
    ASSUME BlockCipher, NEW o \in Octets(16), NEW k \in Octets(16), NEW r \in Octets(16),
           NEW s \in Octets(6), NEW m \in Octets(2)
    PROVE  f1(o, k, r, s, m).mac_a \in Octets(8) /\ f1(o, k, r, s, m).mac_s \in Octets(8)
<1>1. \A x, y \in Octets(16) : Encrypt(x, y) \in Octets(16)
  BY DEF BlockCipher, CIPHER_BLOCK_LEN
<1>2. PICK temp : temp = Encrypt(k, xor(r, o))
  OBVIOUS
<1>3. temp \in Octets(16)
  BY <1>1, <1>2, BlockXor
<1>4. PICK in1 : in1 = s \o m \o s \o m
  OBVIOUS
<1>5. in1 \in Octets(16)
  <2>1. PICK x : x = s \o m
    OBVIOUS
  <2>2. PICK y : y = x \o s
    OBVIOUS
  <2>3. 2 \in Nat /\ 6 \in Nat /\ 8 \in Nat /\ 14 \in Nat /\ 8 = 6 + 2 /\ 14 = 8 + 6 /\ 16 = 14 + 2
    OBVIOUS
  <2>4. x \in Octets(8)
    BY <2>1, <2>3, JoinIs
  <2>5. y \in Octets(14)
    BY <2>2, <2>3, <2>4, JoinIs
  <2>6. y \o m \in Octets(16)
    BY <2>3, <2>5, JoinIs
  <2> QED BY <1>4, <2>1, <2>2, <2>6
<1>6. PICK x : x = xor(rot(xor(in1, o), r1), temp)
  OBVIOUS
<1>7. x \in Octets(16)
  <2>1. r1 \in Nat
    BY DEF r1
  <2>2. xor(in1, o) \in Octets(16)
    BY <1>5, BlockXor
  <2>3. rot(xor(in1, o), r1) \in Octets(16)
    BY <2>1, <2>2, RotIs
  <2> QED BY <1>3, <1>6, <2>3, BlockXor
<1>8. PICK out1 : out1 = xor(Encrypt(k, x), o)
  OBVIOUS
<1>9. out1 \in Octets(16)
  BY <1>1, <1>7, <1>8, BlockXor
<1>10. SubSeq(out1, 1, 8) \in Octets(8) /\ SubSeq(out1, 9, 16) \in Octets(8)
  BY <1>9, PartOfBlock
<1>11. 8 + 1 = 9 /\ 2 * 8 = 16
  OBVIOUS
<1>12. PICK f : f = f1(o, k, r, s, m)
  OBVIOUS
<1>13. f = [mac_a |-> SubSeq(out1, 1, 8), mac_s |-> SubSeq(out1, 8 + 1, 2 * 8)]
  BY <1>2, <1>4, <1>6, <1>8, <1>12 DEF f1, MAC_LEN
<1>14. f.mac_a = SubSeq(out1, 1, 8) /\ f.mac_s = SubSeq(out1, 9, 16)
  BY <1>11, <1>13
<1> QED BY <1>10, <1>12, <1>14

\* f2345 makes a RES of eight octets and two masks for an SQN.
LEMMA F2345Is ==
    ASSUME BlockCipher, NEW o \in Octets(16), NEW k \in Octets(16), NEW r \in Octets(16)
    PROVE  /\ f2345(o, k, r).res \in Octets(8)
           /\ f2345(o, k, r).ak \in Octets(6)
           /\ f2345(o, k, r).akstar \in Octets(6)
<1>1. \A x, y \in Octets(16) : Encrypt(x, y) \in Octets(16)
  BY DEF BlockCipher, CIPHER_BLOCK_LEN
<1>2. PICK temp : temp = xor(Encrypt(k, xor(r, o)), o)
  OBVIOUS
<1>3. temp \in Octets(16)
  BY <1>1, <1>2, BlockXor
<1> DEFINE out(n, c) == xor(Encrypt(k, xor(rot(temp, n), cn(c))), o)
<1>4. ASSUME NEW n \in Nat, NEW c \in Nat  PROVE out(n, c) \in Octets(16)
  <2>1. PICK x : x = xor(rot(temp, n), cn(c))
    OBVIOUS
  <2>2. rot(temp, n) \in Octets(16) /\ cn(c) \in Octets(16)
    BY <1>3, <1>4, RotIs, CnIs
  <2>3. x \in Octets(16)
    BY <2>1, <2>2, BlockXor
  <2>4. xor(Encrypt(k, x), o) \in Octets(16)
    BY <1>1, <2>3, BlockXor
  <2> QED BY <2>1, <2>4
<1>5. out(0, 1) \in Octets(16) /\ out(12, 8) \in Octets(16)
  <2>1. 0 \in Nat /\ 1 \in Nat /\ 12 \in Nat /\ 8 \in Nat
    OBVIOUS
  <2> HIDE DEF out
  <2> QED BY <1>4, <2>1
<1>6. PICK f : f = f2345(o, k, r)
  OBVIOUS
<1>7. f = [res |-> SubSeq(out(0, 1), 9, 16), ck |-> out(r3, 2), ik |-> out(r4, 4),
           ak |-> SubSeq(out(0, 1), 1, 6), akstar |-> SubSeq(out(12, 8), 1, 6)]
  BY <1>2, <1>6 DEF f2345, SQN_LEN, r5
<1> HIDE DEF out
<1>8. /\ f.res = SubSeq(out(0, 1), 9, 16) /\ f.ak = SubSeq(out(0, 1), 1, 6)
      /\ f.akstar = SubSeq(out(12, 8), 1, 6)
  BY <1>7
<1>9. /\ SubSeq(out(0, 1), 9, 16) \in Octets(8) /\ SubSeq(out(0, 1), 1, 6) \in Octets(6)
      /\ SubSeq(out(12, 8), 1, 6) \in Octets(6)
  BY <1>5, PartOfBlock
<1> QED BY <1>6, <1>8, <1>9

\* AUTS as a USIM with key k makes it, and AUTN as a network does.
AUTSOf(o, k, r, s) == xor(s, f2345(o, k, r).akstar) \o f1(o, k, r, s, resynchAMF).mac_s
AUTNOf(o, k, r, s, m) == xor(s, f2345(o, k, r).ak) \o m \o f1(o, k, r, s, m).mac_a

\* The AMF of a resynchronisation is two octets.
LEMMA ResynchAMFIs == resynchAMF \in Octets(2)
<1>1. PICK S : S = SUBSET Int
  OBVIOUS
<1>2. {} \in S
  BY <1>1
<1>3. <<{}, {}>> \in Seq(S) /\ Len(<<{}, {}>>) = 2
  BY <1>2
<1> QED BY <1>1, <1>3 DEF resynchAMF, Octets

\* GenerateAUTS: the SQN concealed with AK*, and f1* over it.
LEMMA GenerateAUTSIs ==
    ASSUME BlockCipher, NEW o \in Octets(16), NEW k \in Octets(16), NEW r \in Octets(16), NEW s \in Octets(6)
    PROVE  /\ GenerateAUTS(o, k, r, s).err = "none"
           /\ GenerateAUTS(o, k, r, s).auts = AUTSOf(o, k, r, s)
           /\ AUTSOf(o, k, r, s) \in Octets(14)
           /\ CutAUTS(AUTSOf(o, k, r, s)).conc = xor(s, f2345(o, k, r).akstar)
           /\ CutAUTS(AUTSOf(o, k, r, s)).mac = f1(o, k, r, s, resynchAMF).mac_s
<1>1. PICK c : c = xor(s, f2345(o, k, r).akstar)
  OBVIOUS
<1>2. PICK m : m = f1(o, k, r, s, resynchAMF).mac_s
  OBVIOUS
<1>3. c \in Octets(6)
  BY <1>1, F2345Is, ConcealedIs
<1>4. m \in Octets(8)
  BY <1>2, F1Is, ResynchAMFIs
<1>5. validateArgs(KeyArgs(o, k, r) \o <<<<s, "SQNms", 6>>>>) = "none"
  <2>1. PICK len \in Nat : len = 6
    OBVIOUS
  <2>2. Len(s) = len
    BY <2>1 DEF Octets
  <2>3. validateArgs(KeyArgs(o, k, r) \o <<<<s, "SQNms", len>>>>) = "none"
    BY <2>2, TokenArgs
  <2> QED BY <2>1, <2>3
<1>6. PICK g : g = GenerateAUTS(o, k, r, s)
  OBVIOUS
<1>7. g = [err |-> "none", auts |-> c \o m]
  BY <1>1, <1>2, <1>5, <1>6 DEF GenerateAUTS, SQN_LEN
<1>8. g.err = "none" /\ g.auts = c \o m
  BY <1>7
<1>9. PICK t : t = c \o m
  OBVIOUS
<1>10. t \in Octets(14) /\ SubSeq(t, 1, 6) = c /\ SubSeq(t, 7, 14) = m
  <2>1. PICK six \in Nat : six = 6
    OBVIOUS
  <2>2. PICK eight \in Nat : eight = 8
    OBVIOUS
  <2>3. c \in Octets(six) /\ m \in Octets(eight)
    BY <1>3, <1>4, <2>1, <2>2
  <2>4. PICK from \in Nat : from = 7
    OBVIOUS
  <2>5. PICK len \in Nat : len = 14
    OBVIOUS
  <2>6. from = six + 1 /\ len = six + eight
    BY <2>1, <2>2, <2>4, <2>5
  <2>7. c \o m \in Octets(len)
    BY <2>3, <2>6, JoinIs
  <2>8. Part(c \o m, 1, six) = c
    BY <2>3, <2>6, JoinIs
  <2>9. Part(c \o m, from, len) = m
    BY <2>3, <2>6, JoinIs
  <2> QED BY <1>9, <2>1, <2>4, <2>5, <2>7, <2>8, <2>9 DEF Part
<1>11. CutAUTS(t).conc = SubSeq(t, 1, 6) /\ CutAUTS(t).mac = SubSeq(t, 7, 14)
  <2>1. 6 + 1 = 7
    OBVIOUS
  <2>2. PICK cut : cut = CutAUTS(t)
    OBVIOUS
  <2>3. cut = [conc |-> SubSeq(t, 1, 6), mac |-> SubSeq(t, 6 + 1, 14)]
    BY <2>2 DEF CutAUTS, SQN_LEN, AUTS_LEN
  <2>4. cut.conc = SubSeq(t, 1, 6) /\ cut.mac = SubSeq(t, 6 + 1, 14)
    BY <2>3
  <2> QED BY <2>1, <2>2, <2>4
<1>12. AUTSOf(o, k, r, s) = t
  BY <1>1, <1>2, <1>9 DEF AUTSOf
<1> QED BY <1>1, <1>2, <1>6, <1>8, <1>9, <1>10, <1>11, <1>12

\* ValidateAUTS: the length is checked, then the MAC over the SQN uncovered.
LEMMA ValidateAUTSIs ==
    ASSUME NEW o \in Octets(16), NEW k \in Octets(16), NEW r \in Octets(16), NEW t, NEW sqn,
           sqn = xor(CutAUTS(t).conc, f2345(o, k, r).akstar)
    PROVE  /\ Len(t) # 14 => ValidateAUTS(o, k, r, t).err = "AUTS"
           /\ Len(t) = 14 /\ f1(o, k, r, sqn, resynchAMF).mac_s # CutAUTS(t).mac
              => ValidateAUTS(o, k, r, t).err = "MAC"
           /\ Len(t) = 14 /\ f1(o, k, r, sqn, resynchAMF).mac_s = CutAUTS(t).mac
              => ValidateAUTS(o, k, r, t).err = "none" /\ ValidateAUTS(o, k, r, t).sqnms = sqn
<1>2. PICK err : err = validateArgs(KeyArgs(o, k, r) \o <<<<t, "AUTS", 14>>>>)
  OBVIOUS
<1>3. (Len(t) # 14 => err = "AUTS") /\ (Len(t) = 14 => err = "none")
  <2>1. PICK len \in Nat : len = 14
    OBVIOUS
  <2>2. PICK args : args = KeyArgs(o, k, r) \o <<<<t, "AUTS", len>>>>
    OBVIOUS
  <2>3. (Len(t) # len => validateArgs(args) = "AUTS") /\ (Len(t) = len => validateArgs(args) = "none")
    BY <2>2, TokenArgs
  <2> QED BY <1>2, <2>1, <2>2, <2>3
<1>4. PICK v : v = ValidateAUTS(o, k, r, t)
  OBVIOUS
<1>5. v = IF err # "none" THEN [err |-> err]
          ELSE IF f1(o, k, r, sqn, resynchAMF).mac_s # CutAUTS(t).mac THEN [err |-> "MAC"]
          ELSE [err |-> "none", sqnms |-> sqn]
  BY <1>2, <1>4 DEF ValidateAUTS, AUTS_LEN
<1>6. CASE Len(t) # 14
  <2>1. v = [err |-> "AUTS"]
    BY <1>3, <1>5, <1>6
  <2> QED BY <1>4, <1>6, <2>1
<1>7. CASE Len(t) = 14 /\ f1(o, k, r, sqn, resynchAMF).mac_s # CutAUTS(t).mac
  <2>1. v = [err |-> "MAC"]
    BY <1>3, <1>5, <1>7
  <2> QED BY <1>4, <1>7, <2>1
<1>8. CASE Len(t) = 14 /\ f1(o, k, r, sqn, resynchAMF).mac_s = CutAUTS(t).mac
  <2>1. v = [err |-> "none", sqnms |-> sqn]
    BY <1>3, <1>5, <1>8
  <2> QED BY <1>4, <1>8, <2>1
<1> QED BY <1>6, <1>7, <1>8

\* For every cipher, a resynchronisation token is accepted by the function
\* that checks it, which uncovers the SQN of the USIM.
THEOREM AUTSRoundTrip ==
    ASSUME BlockCipher, NEW o \in Octets(16), NEW k \in Octets(16), NEW r \in Octets(16), NEW s \in Octets(6)
    PROVE  /\ GenerateAUTS(o, k, r, s).err = "none"
           /\ ValidateAUTS(o, k, r, GenerateAUTS(o, k, r, s).auts).err = "none"
           /\ ValidateAUTS(o, k, r, GenerateAUTS(o, k, r, s).auts).sqnms = s
<1>1. PICK t : t = AUTSOf(o, k, r, s)
  OBVIOUS
<1>2. /\ GenerateAUTS(o, k, r, s).err = "none" /\ GenerateAUTS(o, k, r, s).auts = t
      /\ t \in Octets(14) /\ CutAUTS(t).conc = xor(s, f2345(o, k, r).akstar)
      /\ CutAUTS(t).mac = f1(o, k, r, s, resynchAMF).mac_s
  BY <1>1, GenerateAUTSIs
<1>3. xor(CutAUTS(t).conc, f2345(o, k, r).akstar) = s
  BY <1>2, F2345Is, ConcealedIs
<1>4. Len(t) = 14
  BY <1>2 DEF Octets
<1> QED BY <1>2, <1>3, <1>4, ValidateAUTSIs

\* A part of the beginning of a slice.
LEMMA PartOfPart ==
    ASSUME NEW n \in Nat, NEW e \in Nat, e <= n, NEW t \in Octets(n), NEW a \in Nat, NEW b \in Nat,
           1 <= a, a <= b + 1, b <= e
    PROVE  Part(Part(t, 1, e), a, b) = Part(t, a, b)
<1>1. PICK len \in Nat : len = b - a + 1
  OBVIOUS
<1>2. PICK u : u = Part(t, 1, e)
  OBVIOUS
<1>3. u \in Octets(e) /\ \A i \in 1 .. e : u[i] = t[1 + i - 1]
  <2>1. PICK one \in Nat : one = 1
    OBVIOUS
  <2>2. 1 <= one /\ one <= e + 1 /\ e = e - one + 1
    BY <2>1
  <2>3. Part(t, one, e) \in Octets(e) /\ From(Part(t, one, e), t, one, e)
    BY <2>2, PartIs
  <2> QED BY <1>2, <2>1, <2>3 DEF From
<1>4. b <= n
  OBVIOUS
<1>5. Part(t, a, b) \in Octets(len) /\ From(Part(t, a, b), t, a, len)
  BY <1>1, <1>4, PartIs
<1>6. u \in Octets(e)
  BY <1>3
<1>7. Part(u, a, b) \in Octets(len) /\ From(Part(u, a, b), u, a, len)
  BY <1>1, <1>6, PartIs
<1>9. \A i \in 1 .. len : a + i - 1 \in 1 .. e /\ 1 + (a + i - 1) - 1 = a + i - 1
  BY <1>1
<1>10. \A i \in 1 .. len : Part(u, a, b)[i] = Part(t, a, b)[i]
  BY <1>3, <1>5, <1>7, <1>9 DEF From
<1> QED BY <1>2, <1>5, <1>7, <1>10, SameOctets

\* The parts of an AUTN.
LEMMA AUTNParts ==
    ASSUME NEW c \in Octets(6), NEW m \in Octets(2), NEW x \in Octets(8)
    PROVE  /\ c \o m \o x \in Octets(16)
           /\ CutAUTN(c \o m \o x).conc = c /\ CutAUTN(c \o m \o x).amf = m /\ CutAUTN(c \o m \o x).mac = x
<1>0. PICK t : t = c \o m \o x
  OBVIOUS
<1>1. PICK h : h = c \o m
  OBVIOUS
<1>2. PICK two \in Nat : two = 2
  OBVIOUS
<1>3. PICK six \in Nat : six = 6
  OBVIOUS
<1>4. PICK seven \in Nat : seven = 7
  OBVIOUS
<1>5. PICK eight \in Nat : eight = 8
  OBVIOUS
<1>6. PICK nine \in Nat : nine = 9
  OBVIOUS
<1>7. PICK all \in Nat : all = 16
  OBVIOUS
<1>8. seven = six + 1 /\ eight = six + two /\ nine = eight + 1 /\ all = eight + eight
  BY <1>2, <1>3, <1>4, <1>5, <1>6, <1>7
<1>9. c \in Octets(six) /\ m \in Octets(two) /\ x \in Octets(eight)
  BY <1>2, <1>3, <1>5
<1>10. c \o m \in Octets(eight) /\ Part(c \o m, 1, six) = c /\ Part(c \o m, seven, eight) = m
  <2>1. c \o m \in Octets(eight)
    BY <1>8, <1>9, JoinIs
  <2>2. Part(c \o m, 1, six) = c
    BY <1>8, <1>9, JoinIs
  <2>3. Part(c \o m, seven, eight) = m
    BY <1>8, <1>9, JoinIs
  <2> QED BY <2>1, <2>2, <2>3
<1>11. h \in Octets(eight)
  BY <1>1, <1>10
<1>12. h \o x \in Octets(all) /\ Part(h \o x, 1, eight) = h /\ Part(h \o x, nine, all) = x
  <2>1. h \o x \in Octets(all)
    BY <1>8, <1>9, <1>11, JoinIs
  <2>2. Part(h \o x, 1, eight) = h
    BY <1>8, <1>9, <1>11, JoinIs
  <2>3. Part(h \o x, nine, all) = x
    BY <1>8, <1>9, <1>11, JoinIs
  <2> QED BY <2>1, <2>2, <2>3
<1>13. t = h \o x
  BY <1>0, <1>1
<1>14. t \in Octets(all)
  BY <1>12, <1>13
<1>16. SubSeq(t, 1, six) = c /\ SubSeq(t, seven, eight) = m /\ SubSeq(t, nine, all) = x
  <2>1. /\ Part(t, 1, six) = Part(Part(t, 1, eight), 1, six)
        /\ Part(t, seven, eight) = Part(Part(t, 1, eight), seven, eight)
    <3>1. 1 \in Nat /\ 1 <= 1 /\ 1 <= six + 1 /\ six <= eight /\ 1 <= seven /\ seven <= eight + 1
          /\ eight <= eight /\ eight <= all
      BY <1>8
    <3>2. Part(Part(t, 1, eight), 1, six) = Part(t, 1, six)
      BY <1>14, <3>1, PartOfPart
    <3>3. Part(Part(t, 1, eight), seven, eight) = Part(t, seven, eight)
      BY <1>14, <3>1, PartOfPart
    <3> QED BY <3>2, <3>3
  <2>2. Part(t, 1, eight) = c \o m /\ Part(t, nine, all) = x
    BY <1>1, <1>12, <1>13
  <2>3. Part(t, 1, six) = c /\ Part(t, seven, eight) = m /\ Part(t, nine, all) = x
    BY <1>10, <2>1, <2>2
  <2> QED BY <2>3 DEF Part
<1>17. CutAUTN(t) = [conc |-> SubSeq(t, 1, six), amf |-> SubSeq(t, seven, eight),
                     mac |-> SubSeq(t, nine, all)]
  <2>1. six = SQN_LEN /\ seven = SQN_LEN + 1 /\ eight = SQN_LEN + AMF_LEN
        /\ nine = SQN_LEN + AMF_LEN + 1 /\ all = AUTN_LEN
    BY <1>2, <1>3, <1>4, <1>5, <1>6, <1>7 DEF SQN_LEN, AMF_LEN, AUTN_LEN
  <2> QED BY <2>1 DEF CutAUTN
<1>18. PICK cut : cut = CutAUTN(t)
  OBVIOUS
<1>19. cut.conc = c /\ cut.amf = m /\ cut.mac = x
  BY <1>16, <1>17, <1>18
<1> QED BY <1>0, <1>7, <1>14, <1>18, <1>19

\* GenerateAKAParameters: AUTN is the SQN concealed with AK, the AMF, and f1 over both.
VectorIs(v, o, k, r, s, m) ==
    /\ v.err = "none" /\ v.autn = AUTNOf(o, k, r, s, m)
    /\ v.ck = f2345(o, k, r).ck /\ v.ik = f2345(o, k, r).ik /\ v.xres = f2345(o, k, r).res

AUTNIs(t, o, k, r, s, m) ==
    /\ t \in Octets(16)
    /\ CutAUTN(t).conc = xor(s, f2345(o, k, r).ak) /\ CutAUTN(t).amf = m
    /\ CutAUTN(t).mac = f1(o, k, r, s, m).mac_a

\* GenerateAKAParameters makes that AUTN, and its RES and keys are those of f2345.
LEMMA GenerateAKAIs ==
    ASSUME BlockCipher, NEW o \in Octets(16), NEW k \in Octets(16), NEW r \in Octets(16),
           NEW s \in Octets(6), NEW m \in Octets(2)
    PROVE  /\ VectorIs(GenerateAKAParameters(o, k, r, s, m), o, k, r, s, m)
           /\ AUTNIs(AUTNOf(o, k, r, s, m), o, k, r, s, m)
<1>1. PICK c : c = xor(s, f2345(o, k, r).ak)
  OBVIOUS
<1>2. PICK x : x = f1(o, k, r, s, m).mac_a
  OBVIOUS
<1>3. c \in Octets(6)
  BY <1>1, F2345Is, ConcealedIs
<1>4. x \in Octets(8)
  BY <1>2, F1Is
<1>5. validateArgs(KeyArgs(o, k, r) \o <<<<s, "SQN", 6>>, <<m, "AMF", 2>>>>) = "none"
  BY VectorArgs
<1>6. PICK f : f = f2345(o, k, r)
  OBVIOUS
<1>7. PICK t : t = AUTNOf(o, k, r, s, m)
  OBVIOUS
<1>8. t = c \o m \o x
  BY <1>1, <1>2, <1>7 DEF AUTNOf
<1>0. PICK v : v = GenerateAKAParameters(o, k, r, s, m)
  OBVIOUS
<1>9. v = [err |-> "none", ik |-> f.ik, ck |-> f.ck, xres |-> f.res, autn |-> c \o m \o x]
  BY <1>0, <1>1, <1>2, <1>5, <1>6 DEF GenerateAKAParameters, SQN_LEN, AMF_LEN
<1>10. v.err = "none" /\ v.autn = t /\ v.ck = f.ck /\ v.ik = f.ik /\ v.xres = f.res
  BY <1>8, <1>9
<1>11. t \in Octets(16) /\ CutAUTN(t).conc = c /\ CutAUTN(t).amf = m /\ CutAUTN(t).mac = x
  BY <1>3, <1>4, <1>8, AUTNParts
<1> QED BY <1>0, <1>1, <1>2, <1>6, <1>7, <1>10, <1>11 DEF VectorIs, AUTNIs

\* GenerateKeysWithAUTN: the length is checked, then the MAC over the SQN uncovered.
LEMMA GenerateKeysIs ==
    ASSUME NEW o \in Octets(16), NEW k \in Octets(16), NEW r \in Octets(16), NEW t, NEW sqn,
           sqn = xor(CutAUTN(t).conc, f2345(o, k, r).ak), NEW v, v = GenerateKeysWithAUTN(o, k, r, t)
    PROVE  /\ Len(t) # 16 => v.err = "AUTN"
           /\ Len(t) = 16 /\ f1(o, k, r, sqn, CutAUTN(t).amf).mac_a # CutAUTN(t).mac => v.err = "MAC"
           /\ Len(t) = 16 /\ f1(o, k, r, sqn, CutAUTN(t).amf).mac_a = CutAUTN(t).mac
              => /\ v.err = "none" /\ v.sqnhe = sqn /\ v.res = f2345(o, k, r).res
                 /\ v.ck = f2345(o, k, r).ck /\ v.ik = f2345(o, k, r).ik
<1>1. PICK err : err = validateArgs(KeyArgs(o, k, r) \o <<<<t, "AUTN", 16>>>>)
  OBVIOUS
<1>2. (Len(t) # 16 => err = "AUTN") /\ (Len(t) = 16 => err = "none")
  <2>1. PICK len \in Nat : len = 16
    OBVIOUS
  <2>2. PICK args : args = KeyArgs(o, k, r) \o <<<<t, "AUTN", len>>>>
    OBVIOUS
  <2>3. (Len(t) # len => validateArgs(args) = "AUTN") /\ (Len(t) = len => validateArgs(args) = "none")
    BY <2>2, TokenArgs
  <2> QED BY <1>1, <2>1, <2>2, <2>3
<1>3. PICK f : f = f2345(o, k, r)
  OBVIOUS
<1>4. PICK good : good <=> f1(o, k, r, sqn, CutAUTN(t).amf).mac_a = CutAUTN(t).mac
  OBVIOUS
<1>5. v = IF err # "none" THEN [err |-> err]
          ELSE IF ~good THEN [err |-> "MAC"]
          ELSE [err |-> "none", sqnhe |-> sqn, ak |-> f.ak, ik |-> f.ik, ck |-> f.ck, res |-> f.res]
  BY <1>1, <1>3, <1>4 DEF GenerateKeysWithAUTN, AUTN_LEN
<1>6. CASE Len(t) # 16
  <2>1. v = [err |-> "AUTN"]
    BY <1>2, <1>5, <1>6
  <2> QED BY <1>6, <2>1
<1>7. CASE Len(t) = 16 /\ ~good
  <2>1. v = [err |-> "MAC"]
    BY <1>2, <1>5, <1>7
  <2> QED BY <1>4, <1>7, <2>1
<1>8. CASE Len(t) = 16 /\ good
  <2>1. v = [err |-> "none", sqnhe |-> sqn, ak |-> f.ak, ik |-> f.ik, ck |-> f.ck, res |-> f.res]
    BY <1>2, <1>5, <1>8
  <2>2. v.err = "none" /\ v.sqnhe = sqn /\ v.ik = f.ik /\ v.ck = f.ck /\ v.res = f.res
    BY <2>1
  <2> QED BY <1>3, <1>4, <1>8, <2>2
<1> QED BY <1>6, <1>7, <1>8

\* For every cipher, an authentication token is accepted by the USIM, which
\* uncovers the SQN of the network and derives its keys and its response.
THEOREM AUTNRoundTrip ==
    ASSUME BlockCipher, NEW o \in Octets(16), NEW k \in Octets(16), NEW r \in Octets(16),
           NEW s \in Octets(6), NEW m \in Octets(2),
           NEW v, v = GenerateAKAParameters(o, k, r, s, m),
           NEW u, u = GenerateKeysWithAUTN(o, k, r, v.autn)
    PROVE  /\ v.err = "none" /\ u.err = "none" /\ u.sqnhe = s
           /\ u.ck = v.ck /\ u.ik = v.ik /\ u.res = v.xres
<1>1. PICK t : t = AUTNOf(o, k, r, s, m)
  OBVIOUS
<1>2. VectorIs(v, o, k, r, s, m) /\ AUTNIs(t, o, k, r, s, m)
  BY <1>1, GenerateAKAIs
<1>3. /\ v.err = "none" /\ v.autn = t /\ t \in Octets(16)
      /\ v.ck = f2345(o, k, r).ck /\ v.ik = f2345(o, k, r).ik /\ v.xres = f2345(o, k, r).res
      /\ CutAUTN(t).conc = xor(s, f2345(o, k, r).ak) /\ CutAUTN(t).amf = m
      /\ CutAUTN(t).mac = f1(o, k, r, s, m).mac_a
  BY <1>1, <1>2 DEF VectorIs, AUTNIs
<1>4. s = xor(CutAUTN(t).conc, f2345(o, k, r).ak)
  BY <1>3, F2345Is, ConcealedIs
<1>5. Len(t) = 16
  BY <1>3 DEF Octets
<1>6. u = GenerateKeysWithAUTN(o, k, r, t)
  BY <1>3
<1>7. u.err = "none" /\ u.sqnhe = s /\ u.res = f2345(o, k, r).res
      /\ u.ck = f2345(o, k, r).ck /\ u.ik = f2345(o, k, r).ik
  BY <1>3, <1>4, <1>5, <1>6, GenerateKeysIs
<1> QED BY <1>3, <1>7

-----------------------------------------------------------------------------
(* Tokens on their way                                                      *)

\* A token with one octet changed.
LEMMA SpoiledIs ==
    ASSUME NEW n \in Nat, NEW t \in Octets(n), NEW i \in 1 .. n
    PROVE  /\ Spoil(t, i) \in Octets(n)
           /\ \A j \in 1 .. n : j # i => Spoil(t, i)[j] = t[j]
           /\ Spoil(t, i)[i] # t[i]
<1>1. PICK f : f = SymDiff(t[i], {16})
  OBVIOUS
<1>2. t[i] \in SUBSET Int
  BY EachOctet
<1>3. f \in SUBSET Int /\ f # t[i]
  BY <1>1, <1>2 DEF SymDiff
<1>4. PICK u : u = Spoil(t, i)
  OBVIOUS
<1>5. u = [t EXCEPT ![i] = f]
  BY <1>1, <1>4 DEF Spoil
<1>6. t \in [1 .. n -> SUBSET Int]
  BY DEF Octets
<1>7. u \in [1 .. n -> SUBSET Int] /\ u[i] = f /\ \A j \in 1 .. n : j # i => u[j] = t[j]
  BY <1>3, <1>5, <1>6
<1>8. u \in Octets(n)
  BY <1>7, MadeOfOctets
<1> QED BY <1>3, <1>4, <1>7, <1>8

\* Parts of two tokens are the same if their octets are, and only then.
LEMMA SameParts ==
    ASSUME NEW n \in Nat, NEW t \in Octets(n), NEW u \in Octets(n), NEW a \in Nat, NEW b \in Nat,
           1 <= a, a <= b + 1, b <= n
    PROVE  /\ (\A j \in a .. b : t[j] = u[j]) => Part(t, a, b) = Part(u, a, b)
           /\ \A j \in a .. b : t[j] # u[j] => Part(t, a, b) # Part(u, a, b)
<1>1. PICK len \in Nat : len = b - a + 1
  OBVIOUS
<1>2. PICK x : x = Part(t, a, b)
  OBVIOUS
<1>3. PICK y : y = Part(u, a, b)
  OBVIOUS
<1>4. x \in Octets(len) /\ From(x, t, a, len)
  BY <1>1, <1>2, PartIs
<1>5. \A i \in 1 .. len : x[i] = t[a + i - 1]
  BY <1>4 DEF From
<1>6. y \in Octets(len) /\ From(y, u, a, len)
  BY <1>1, <1>3, PartIs
<1>7. \A i \in 1 .. len : y[i] = u[a + i - 1]
  BY <1>6 DEF From
<1>8. ASSUME \A j \in a .. b : t[j] = u[j]  PROVE x = y
  <2>1. \A i \in 1 .. len : a + i - 1 \in a .. b
    BY <1>1
  <2>2. \A i \in 1 .. len : x[i] = y[i]
    BY <1>5, <1>7, <1>8, <2>1
  <2> QED BY <1>4, <1>6, <2>2, SameOctets
<1>9. ASSUME NEW j \in a .. b, t[j] # u[j]  PROVE x # y
  <2>1. PICK i \in 1 .. len : a + i - 1 = j
    <3>1. j - a + 1 \in 1 .. len /\ a + (j - a + 1) - 1 = j
      BY <1>1
    <3> QED BY <3>1
  <2>2. x[i] = t[j] /\ y[i] = u[j]
    BY <1>5, <1>7, <2>1
  <2> QED BY <1>9, <2>2
<1> QED BY <1>2, <1>3, <1>8, <1>9

\* An AUTN with an octet of its MAC changed has the same concealed SQN and AMF,
\* and another MAC.
LEMMA SpoiledAUTN ==
    ASSUME NEW t \in Octets(16)
    PROVE  /\ Spoil(t, 16) \in Octets(16)
           /\ CutAUTN(Spoil(t, 16)).conc = CutAUTN(t).conc
           /\ CutAUTN(Spoil(t, 16)).amf = CutAUTN(t).amf
           /\ CutAUTN(Spoil(t, 16)).mac # CutAUTN(t).mac
<1>1. PICK n \in Nat : n = 16
  OBVIOUS
<1>2. PICK u : u = Spoil(t, n)
  OBVIOUS
<1>3. t \in Octets(n) /\ n \in 1 .. n
  BY <1>1
<1>4. u \in Octets(n) /\ (\A j \in 1 .. n : j # n => u[j] = t[j]) /\ u[n] # t[n]
  BY <1>2, <1>3, SpoiledIs
<1>5. Part(u, 1, 6) = Part(t, 1, 6)
  <2>1. PICK a \in Nat : a = 1
    OBVIOUS
  <2>2. PICK b \in Nat : b = 6
    OBVIOUS
  <2>3. 1 <= a /\ a <= b + 1 /\ b <= n /\ \A j \in a .. b : j \in 1 .. n /\ j # n
    BY <1>1, <2>1, <2>2
  <2>4. \A j \in a .. b : u[j] = t[j]
    BY <1>4, <2>3
  <2>5. Part(u, a, b) = Part(t, a, b)
    BY <1>3, <1>4, <2>3, <2>4, SameParts
  <2> QED BY <2>1, <2>2, <2>5
<1>6. Part(u, 7, 8) = Part(t, 7, 8)
  <2>1. PICK a \in Nat : a = 7
    OBVIOUS
  <2>2. PICK b \in Nat : b = 8
    OBVIOUS
  <2>3. 1 <= a /\ a <= b + 1 /\ b <= n /\ \A j \in a .. b : j \in 1 .. n /\ j # n
    BY <1>1, <2>1, <2>2
  <2>4. \A j \in a .. b : u[j] = t[j]
    BY <1>4, <2>3
  <2>5. Part(u, a, b) = Part(t, a, b)
    BY <1>3, <1>4, <2>3, <2>4, SameParts
  <2> QED BY <2>1, <2>2, <2>5
<1>7. Part(u, 9, 16) # Part(t, 9, 16)
  <2>1. PICK a \in Nat : a = 9
    OBVIOUS
  <2>2. 1 <= a /\ a <= n + 1 /\ n <= n /\ n \in a .. n
    BY <1>1, <2>1
  <2>3. Part(u, a, n) # Part(t, a, n)
    BY <1>3, <1>4, <2>2, SameParts
  <2> QED BY <1>1, <2>1, <2>3
<1>8. ASSUME NEW x
      PROVE  CutAUTN(x).conc = Part(x, 1, 6) /\ CutAUTN(x).amf = Part(x, 7, 8) /\ CutAUTN(x).mac = Part(x, 9, 16)
  <2>1. PICK cut : cut = CutAUTN(x)
    OBVIOUS
  <2>2. 6 + 1 = 7 /\ 6 + 2 = 8 /\ 6 + 2 + 1 = 9
    OBVIOUS
  <2>3. cut = [conc |-> SubSeq(x, 1, 6), amf |-> SubSeq(x, 6 + 1, 6 + 2), mac |-> SubSeq(x, 6 + 2 + 1, 16)]
    BY <2>1 DEF CutAUTN, SQN_LEN, AMF_LEN, AUTN_LEN
  <2>4. /\ cut.conc = SubSeq(x, 1, 6) /\ cut.amf = SubSeq(x, 6 + 1, 6 + 2)
        /\ cut.mac = SubSeq(x, 6 + 2 + 1, 16)
    BY <2>3
  <2> QED BY <2>1, <2>2, <2>4 DEF Part
<1> QED BY <1>1, <1>2, <1>4, <1>5, <1>6, <1>7, <1>8

\* An AUTS with an octet of its MAC changed has the same concealed SQN and
\* another MAC.
LEMMA SpoiledAUTS ==
    ASSUME NEW t \in Octets(14), NEW i \in 7 .. 14
    PROVE  /\ Spoil(t, i) \in Octets(14)
           /\ CutAUTS(Spoil(t, i)).conc = CutAUTS(t).conc
           /\ CutAUTS(Spoil(t, i)).mac # CutAUTS(t).mac
<1>1. PICK n \in Nat : n = 14
  OBVIOUS
<1>2. PICK u : u = Spoil(t, i)
  OBVIOUS
<1>3. t \in Octets(n) /\ i \in 1 .. n
  BY <1>1
<1>4. u \in Octets(n) /\ (\A j \in 1 .. n : j # i => u[j] = t[j]) /\ u[i] # t[i]
  BY <1>2, <1>3, SpoiledIs
<1>5. Part(u, 1, 6) = Part(t, 1, 6)
  <2>1. PICK a \in Nat : a = 1
    OBVIOUS
  <2>2. PICK b \in Nat : b = 6
    OBVIOUS
  <2>3. 1 <= a /\ a <= b + 1 /\ b <= n /\ \A j \in a .. b : j \in 1 .. n /\ j # i
    BY <1>1, <2>1, <2>2
  <2>4. \A j \in a .. b : u[j] = t[j]
    BY <1>4, <2>3
  <2>5. u \in Octets(n) /\ t \in Octets(n) /\ 1 <= a /\ a <= b + 1 /\ b <= n
    BY <1>3, <1>4, <2>3
  <2>6. Part(u, a, b) = Part(t, a, b)
    BY <2>4, <2>5, SameParts
  <2> QED BY <2>1, <2>2, <2>6
<1>6. Part(u, 7, 14) # Part(t, 7, 14)
  <2>1. PICK a \in Nat : a = 7
    OBVIOUS
  <2>2. 1 <= a /\ a <= n + 1 /\ n <= n /\ i \in a .. n
    BY <1>1, <2>1
  <2>3. Part(u, a, n) # Part(t, a, n)
    BY <1>3, <1>4, <2>2, SameParts
  <2> QED BY <1>1, <2>1, <2>3
<1>7. ASSUME NEW x  PROVE CutAUTS(x).conc = Part(x, 1, 6) /\ CutAUTS(x).mac = Part(x, 7, 14)
  <2>1. PICK cut : cut = CutAUTS(x)
    OBVIOUS
  <2>2. 6 + 1 = 7
    OBVIOUS
  <2>3. cut = [conc |-> SubSeq(x, 1, 6), mac |-> SubSeq(x, 6 + 1, 14)]
    BY <2>1 DEF CutAUTS, SQN_LEN, AUTS_LEN
  <2>4. cut.conc = SubSeq(x, 1, 6) /\ cut.mac = SubSeq(x, 6 + 1, 14)
    BY <2>3
  <2> QED BY <2>1, <2>2, <2>4 DEF Part
<1> QED BY <1>1, <1>2, <1>4, <1>5, <1>6, <1>7

\* A token that lost its last octet.
LEMMA FrontIs == ASSUME NEW n \in Nat, n > 0, NEW t \in Octets(n)  PROVE Len(Front(t)) = n - 1
<1>1. t \in Seq(SUBSET Int) /\ Len(t) = n
  BY DEF Octets
<1> QED BY <1>1 DEF Front

\* Each kind of damage, as Arriving makes it.
LEMMA ArrivingIs ==
    ASSUME NEW t, NEW other
    PROVE  /\ Arriving(t, "none", other) = t
           /\ Arriving(t, "short", other) = Front(t)
           /\ Arriving(t, "sqn", other) = Spoil(t, 6)
           /\ Arriving(t, "amf", other) = Spoil(t, 7)
           /\ Arriving(t, "mac", other) = Spoil(t, Len(t))
<1>1. 6 + 1 = 7
  OBVIOUS
<1>2. Arriving(t, "none", other) = t /\ Arriving(t, "short", other) = Front(t)
  BY DEF Arriving
<1>3. Arriving(t, "sqn", other) = Spoil(t, 6)
  BY DEF Arriving, SQN_LEN
<1>4. Arriving(t, "amf", other) = Spoil(t, 6 + 1)
  BY DEF Arriving, SQN_LEN
<1>5. Arriving(t, "mac", other) = Spoil(t, Len(t))
  BY DEF Arriving
<1> QED BY <1>1, <1>2, <1>3, <1>4, <1>5

\* The arguments of AKA have their types.
LEMMA ArgumentsAre ==
    ASSUME BlockCipher
    PROVE  /\ opc \in Octets(16) /\ K \in Octets(16) /\ OtherK \in Octets(16) /\ amf \in Octets(2)
           /\ \A n \in Challenges : Rand(n) \in Octets(16)
           /\ \A s \in 1 .. MaxSQN : SQN(s) \in Octets(6)
<1>1. K \in Octets(16) /\ OtherK \in Octets(16) /\ OP \in Octets(16) /\ amf \in Octets(2)
  BY ArgumentAssumption DEF CIPHER_BLOCK_LEN, AMF_LEN
<1>2. \A n \in Challenges : Rand(n) \in Octets(16)
  BY ArgumentAssumption DEF RAND_LEN
<1>3. \A s \in 1 .. MaxSQN : SQN(s) \in Octets(6)
  <2>1. MaxSQN \in Nat /\ \A s \in 0 .. MaxSQN : SQN(s) \in Octets(6)
    BY ArgumentAssumption DEF SQN_LEN
  <2>2. \A s \in 1 .. MaxSQN : s \in 0 .. MaxSQN
    BY <2>1
  <2> QED BY <2>1, <2>2
<1>4. opc \in Octets(16)
  <2>1. PICK g : g = GenerateOPc(K, OP)
    OBVIOUS
  <2>2. validateArgs(<<<<K, "K", 16>>, <<OP, "OP", 16>>>>) = "none"
    BY <1>1, OPcArgsGood
  <2>3. PICK e : e = xor(Encrypt(K, OP), OP)
    OBVIOUS
  <2>4. g = [err |-> "none", opc |-> e]
    BY <2>1, <2>2, <2>3 DEF GenerateOPc, K_LEN, OP_LEN
  <2>5. g.opc = e
    BY <2>4
  <2>6. Encrypt(K, OP) \in Octets(16)
    BY <1>1 DEF BlockCipher, CIPHER_BLOCK_LEN
  <2>7. e \in Octets(16)
    BY <1>1, <2>3, <2>6, BlockXor
  <2> QED BY <2>1, <2>5, <2>7 DEF opc
<1> QED BY <1>1, <1>2, <1>3, <1>4

\* The SQN a number stands for is the number it stands for.
LEMMA NumberIs == ASSUME NEW s \in 1 .. MaxSQN  PROVE Number(SQN(s)) = s
<1>1. MaxSQN \in Nat /\ \A x, y \in 0 .. MaxSQN : SQN(x) = SQN(y) => x = y
  BY ArgumentAssumption
<1>2. s \in 0 .. MaxSQN
  BY <1>1
<1>3. PICK x : x = CHOOSE n \in 0 .. MaxSQN : SQN(n) = SQN(s)
  OBVIOUS
<1>4. x \in 0 .. MaxSQN /\ SQN(x) = SQN(s)
  BY <1>2, <1>3
<1>5. x = s
  BY <1>1, <1>2, <1>4
<1>6. Number(SQN(s)) = x
  BY <1>2, <1>3 DEF Number
<1> QED BY <1>5, <1>6

\* The USIM accepts the AUTN of a challenge if it is intact, with its SQN and
\* its keys, and refuses it if it is not.
LEMMA KeysAre ==
    ASSUME BlockCipher, NEW n \in Challenges, NEW s \in 1 .. MaxSQN, NEW d \in Damage,
           Keys[n][s][d].err = "none"
    PROVE  /\ d = "none"
           /\ Keys[n][s][d].sqnhe = SQN(s)
           /\ Keys[n][s][d].ck = Vector[n][s].ck
           /\ Keys[n][s][d].ik = Vector[n][s].ik
<1>1. PICK r \in Octets(16) : r = Rand(n)
  BY ArgumentsAre
<1>2. PICK q \in Octets(6) : q = SQN(s)
  BY ArgumentsAre
<1>3. PICK o \in Octets(16) : o = opc
  BY ArgumentsAre
<1>4. PICK k \in Octets(16) : k = K
  BY ArgumentsAre
<1>5. PICK m \in Octets(2) : m = amf
  BY ArgumentsAre
<1>6. PICK v : v = Vector[n][s]
  OBVIOUS
<1>7. v = GenerateAKAParameters(o, k, r, q, m)
  BY <1>1, <1>2, <1>3, <1>4, <1>5, <1>6 DEF Vector
<1>8. PICK t : t = AUTN[n][s][d]
  OBVIOUS
<1>9. PICK other : t = Arriving(v.autn, d, other)
  BY <1>6, <1>8 DEF AUTN
<1>10. PICK u : u = Keys[n][s][d]
  OBVIOUS
<1>11. u = GenerateKeysWithAUTN(o, k, r, t)
  BY <1>1, <1>3, <1>4, <1>8, <1>10 DEF Keys
<1>12. u.err = "none"
  BY <1>10
<1>13. PICK g : g = AUTNOf(o, k, r, q, m)
  OBVIOUS
<1>14. VectorIs(v, o, k, r, q, m) /\ AUTNIs(g, o, k, r, q, m)
  BY <1>7, <1>13, GenerateAKAIs
<1>15. v.autn = g /\ g \in Octets(16)
  BY <1>13, <1>14 DEF VectorIs, AUTNIs
<1>16. d # "short"
  <2>1. SUFFICES ASSUME d = "short"  PROVE FALSE
    OBVIOUS
  <2>2. t = Front(g)
    BY <1>9, <1>15, <2>1, ArrivingIs
  <2>3. Len(t) # 16
    <3>1. PICK len \in Nat : len = 16
      OBVIOUS
    <3>2. g \in Octets(len) /\ len > 0
      BY <1>15, <3>1
    <3>3. Len(Front(g)) = len - 1
      BY <3>2, FrontIs
    <3> QED BY <2>2, <3>1, <3>3
  <2>4. u.err = "AUTN"
    BY <1>11, <2>3, GenerateKeysIs
  <2> QED BY <1>12, <2>4
<1>17. d # "mac"
  <2>1. SUFFICES ASSUME d = "mac"  PROVE FALSE
    OBVIOUS
  <2>2. t = Spoil(g, 16)
    <3>1. Len(g) = 16
      BY <1>15 DEF Octets
    <3> QED BY <1>9, <1>15, <2>1, <3>1, ArrivingIs
  <2>3. /\ t \in Octets(16) /\ CutAUTN(t).conc = CutAUTN(g).conc
        /\ CutAUTN(t).amf = CutAUTN(g).amf /\ CutAUTN(t).mac # CutAUTN(g).mac
    BY <1>15, <2>2, SpoiledAUTN
  <2>4. /\ CutAUTN(g).conc = xor(q, f2345(o, k, r).ak) /\ CutAUTN(g).amf = m
        /\ CutAUTN(g).mac = f1(o, k, r, q, m).mac_a
    BY <1>14 DEF AUTNIs
  <2>5. q = xor(CutAUTN(t).conc, f2345(o, k, r).ak)
    BY <2>3, <2>4, F2345Is, ConcealedIs
  <2>6. Len(t) = 16 /\ f1(o, k, r, q, CutAUTN(t).amf).mac_a # CutAUTN(t).mac
    BY <2>3, <2>4 DEF Octets
  <2>7. u.err = "MAC"
    BY <1>11, <2>5, <2>6, GenerateKeysIs
  <2> QED BY <1>12, <2>7
<1>18. d \notin {"sqn", "amf", "other"}
  <2>1. SUFFICES ASSUME d \in {"sqn", "amf", "other"}  PROVE FALSE
    OBVIOUS
  <2>2. PICK x : x = xor(CutAUTN(t).conc, f2345(o, k, r).ak)
    OBVIOUS
  <2>3. CutAUTN(t).mac # f1(o, k, r, x, CutAUTN(t).amf).mac_a
    BY <1>1, <1>3, <1>4, <1>8, <2>1, <2>2, CipherAssumption
  <2>4. u.err \in {"AUTN", "MAC"}
    BY <1>11, <2>2, <2>3, GenerateKeysIs
  <2> QED BY <1>12, <2>4
<1>19. d = "none"
  BY <1>16, <1>17, <1>18 DEF Damage
<1>20. t = v.autn
  BY <1>9, <1>19, ArrivingIs
<1>21. u.sqnhe = q /\ u.ck = v.ck /\ u.ik = v.ik
  BY <1>7, <1>11, <1>20, AUTNRoundTrip
<1> QED BY <1>2, <1>6, <1>10, <1>19, <1>21

\* The network accepts an AUTS if it is intact and answers its last challenge,
\* with the SQN in it, and refuses it otherwise.
LEMMA ResyncIs ==
    ASSUME BlockCipher, NEW last \in Challenges, NEW n \in Challenges, NEW s \in 1 .. MaxSQN,
           NEW d \in Damage, Resync[last][n][s][d].err = "none"
    PROVE  n = last /\ d = "none" /\ Resync[last][n][s][d].sqnms = SQN(s)
<1>1. PICK r \in Octets(16) : r = Rand(n)
  BY ArgumentsAre
<1>2. PICK q \in Octets(6) : q = SQN(s)
  BY ArgumentsAre
<1>3. PICK o \in Octets(16) : o = opc
  BY ArgumentsAre
<1>4. PICK k \in Octets(16) : k = K
  BY ArgumentsAre
<1>5. PICK w \in Octets(16) : w = Rand(last)
  BY ArgumentsAre
<1>6. PICK v : v = GenerateAUTS(o, k, r, q)
  OBVIOUS
<1>7. PICK t : t = AUTS[n][s][d]
  OBVIOUS
<1>8. PICK other : t = Arriving(v.auts, d, other)
  BY <1>1, <1>2, <1>3, <1>4, <1>6, <1>7 DEF AUTS
<1>9. PICK u : u = Resync[last][n][s][d]
  OBVIOUS
<1>10. u = ValidateAUTS(o, k, w, t)
  BY <1>3, <1>4, <1>5, <1>7, <1>9 DEF Resync
<1>11. u.err = "none"
  BY <1>9
<1>12. PICK g : g = AUTSOf(o, k, r, q)
  OBVIOUS
<1>13. v.auts = g /\ g \in Octets(14)
  BY <1>6, <1>12, GenerateAUTSIs
<1>14. PICK x : x = xor(CutAUTS(t).conc, f2345(o, k, w).akstar)
  OBVIOUS
<1>15. Len(t) = 14 /\ f1(o, k, w, x, resynchAMF).mac_s = CutAUTS(t).mac /\ u.sqnms = x
  BY <1>10, <1>11, <1>14, ValidateAUTSIs
<1>16. d # "short"
  <2>1. SUFFICES ASSUME d = "short"  PROVE FALSE
    OBVIOUS
  <2>2. t = Front(g)
    BY <1>8, <1>13, <2>1, ArrivingIs
  <2>3. PICK len \in Nat : len = 14
    OBVIOUS
  <2>4. g \in Octets(len) /\ len > 0
    BY <1>13, <2>3
  <2>5. Len(Front(g)) = len - 1
    BY <2>4, FrontIs
  <2> QED BY <1>15, <2>2, <2>3, <2>5
<1>17. n = last /\ d \notin {"sqn", "other"}
  <2>1. SUFFICES ASSUME n # last \/ d \in {"sqn", "other"}  PROVE FALSE
    OBVIOUS
  <2>2. d \in Damage \ {"short"}
    BY <1>16
  <2>3. CutAUTS(t).mac # f1(o, k, w, x, resynchAMF).mac_s
    BY <1>3, <1>4, <1>5, <1>7, <1>14, <2>1, <2>2, CipherAssumption
  <2> QED BY <1>15, <2>3
<1>18. w = r
  BY <1>1, <1>5, <1>17
<1>19. /\ CutAUTS(g).conc = xor(q, f2345(o, k, r).akstar)
       /\ CutAUTS(g).mac = f1(o, k, r, q, resynchAMF).mac_s
  BY <1>12, GenerateAUTSIs
<1>20. ASSUME CutAUTS(t).conc = CutAUTS(g).conc  PROVE x = q /\ CutAUTS(t).mac = CutAUTS(g).mac
  <2>1. x = q
    BY <1>14, <1>18, <1>19, <1>20, F2345Is, ConcealedIs
  <2> QED BY <1>15, <1>18, <1>19, <2>1
<1>21. d \notin {"amf", "mac"}
  <2>1. SUFFICES ASSUME d \in {"amf", "mac"}  PROVE FALSE
    OBVIOUS
  <2>2. PICK i \in 7 .. 14 : t = Spoil(g, i)
    <3>1. Len(g) = 14 /\ 7 \in 7 .. 14 /\ 14 \in 7 .. 14
      BY <1>13 DEF Octets
    <3>2. t = Spoil(g, 7) \/ t = Spoil(g, 14)
      BY <1>8, <1>13, <2>1, <3>1, ArrivingIs
    <3> QED BY <3>1, <3>2
  <2>3. CutAUTS(t).conc = CutAUTS(g).conc /\ CutAUTS(t).mac # CutAUTS(g).mac
    BY <1>13, <2>2, SpoiledAUTS
  <2> QED BY <1>20, <2>3
<1>22. d = "none"
  BY <1>16, <1>17, <1>21 DEF Damage
<1>23. t = g
  BY <1>8, <1>13, <1>22, ArrivingIs
<1>24. x = q
  BY <1>20, <1>23
<1> QED BY <1>2, <1>9, <1>15, <1>17, <1>22, <1>24

\* The network takes only the RES of its last challenge, intact.
LEMMA RESIs ==
    ASSUME BlockCipher, NEW last \in Challenges, NEW n \in Challenges, NEW s \in 1 .. MaxSQN,
           NEW d \in Damage, RES[n][d] = Vector[last][s].xres
    PROVE  n = last /\ d = "none"
<1>1. ASSUME NEW x \in Challenges
      PROVE  F2345(opc, K, Rand(x)).res = f2345(opc, K, Rand(x)).res
  <2>1. PICK o \in Octets(16) : o = opc
    BY ArgumentsAre
  <2>2. PICK k \in Octets(16) : k = K
    BY ArgumentsAre
  <2>3. PICK r \in Octets(16) : r = Rand(x)
    BY <1>1, ArgumentsAre
  <2>4. validateArgs(KeyArgs(o, k, r)) = "none"
    BY KeyArgsGood
  <2>5. PICK f : f = f2345(o, k, r)
    OBVIOUS
  <2>6. PICK v : v = F2345(o, k, r)
    OBVIOUS
  <2>7. v = [err |-> "none", res |-> f.res, ck |-> f.ck, ik |-> f.ik, ak |-> f.ak, akstar |-> f.akstar]
    BY <2>4, <2>5, <2>6 DEF F2345
  <2>8. v.res = f.res
    BY <2>7
  <2> QED BY <2>1, <2>2, <2>3, <2>5, <2>6, <2>8
<1>2. PICK g : g = f2345(opc, K, Rand(n)).res
  OBVIOUS
<1>3. g \in Octets(8)
  BY <1>2, ArgumentsAre, F2345Is
<1>4. PICK other : RES[n][d] = Arriving(g, d, other)
  BY <1>1, <1>2 DEF RES
<1>5. Vector[last][s].xres = f2345(opc, K, Rand(last)).res
  <2>1. PICK v : v = GenerateAKAParameters(opc, K, Rand(last), SQN(s), amf)
    OBVIOUS
  <2>2. VectorIs(v, opc, K, Rand(last), SQN(s), amf)
    BY <2>1, ArgumentsAre, GenerateAKAIs
  <2>3. Vector[last][s] = v
    BY <2>1 DEF Vector
  <2> QED BY <2>2, <2>3 DEF VectorIs
<1>6. RES[last]["none"] = f2345(opc, K, Rand(last)).res
  <2>1. PICK y : RES[last]["none"] = Arriving(f2345(opc, K, Rand(last)).res, "none", y)
    BY <1>1 DEF RES, Damage
  <2> QED BY <2>1, ArrivingIs
<1>7. PICK t : t = RES[n][d]
  OBVIOUS
<1>8. t = RES[last]["none"]
  BY <1>5, <1>6, <1>7
<1>9. ASSUME n = last  PROVE t = g
  BY <1>2, <1>6, <1>8, <1>9
<1>10. Len(g) = 8
  BY <1>3 DEF Octets
<1>11. Len(t) = 8
  <2>1. f2345(opc, K, Rand(last)).res \in Octets(8)
    BY ArgumentsAre, F2345Is
  <2> QED BY <1>6, <1>8, <2>1 DEF Octets
<1>12. d # "short"
  <2>1. SUFFICES ASSUME d = "short"  PROVE FALSE
    OBVIOUS
  <2>2. t = Front(g)
    BY <1>4, <1>7, <2>1, ArrivingIs
  <2>3. PICK len \in Nat : len = 8
    OBVIOUS
  <2>4. g \in Octets(len) /\ len > 0
    BY <1>3, <2>3
  <2>5. Len(Front(g)) = len - 1
    BY <2>4, FrontIs
  <2> QED BY <1>11, <2>2, <2>3, <2>5
<1>13. n = last /\ d # "other"
  <2>1. SUFFICES ASSUME n # last \/ d = "other"  PROVE FALSE
    OBVIOUS
  <2>2. d \in Damage \ {"short"}
    BY <1>12
  <2> QED BY <1>7, <1>8, <2>1, <2>2, CipherAssumption
<1>14. d \notin {"sqn", "amf", "mac"}
  <2>1. SUFFICES ASSUME d \in {"sqn", "amf", "mac"}  PROVE FALSE
    OBVIOUS
  <2>2. PICK i \in 1 .. 8 : t = Spoil(g, i)
    <3>1. 6 \in 1 .. 8 /\ 7 \in 1 .. 8 /\ 8 \in 1 .. 8
      OBVIOUS
    <3>2. t = Spoil(g, 6) \/ t = Spoil(g, 7) \/ t = Spoil(g, 8)
      BY <1>4, <1>7, <1>10, <2>1, ArrivingIs
    <3> QED BY <3>1, <3>2
  <2>3. PICK len \in Nat : len = 8
    OBVIOUS
  <2>4. g \in Octets(len) /\ i \in 1 .. len
    BY <1>3, <2>3
  <2>5. Spoil(g, i)[i] # g[i]
    BY <2>4, SpoiledIs
  <2> QED BY <1>9, <1>13, <2>2, <2>5
<1> QED BY <1>12, <1>13, <1>14 DEF Damage

-----------------------------------------------------------------------------
(* Authentication and key agreement                                         *)

\* What SessionIsShared needs to be inductive: every message on the air belongs
\* to a challenge that was made, and as long as authentication goes on, the SQN
\* of the USIM is one the network can read.
AKAInv ==
    /\ made \in Seq(1 .. MaxSQN) /\ Len(made) <= MaxChallenges
    /\ verdict # "ok" => sqnHE \in Nat \ {0} /\ sqnMS \in 1 .. MaxSQN
    /\ down \subseteq [n : 1 .. Len(made), damage : Damage]
    /\ up \subseteq [n : 1 .. Len(made), sqn : 0 .. MaxSQN, damage : Damage]
    /\ SessionIsShared

\* Init => AKAInv: nothing was sent yet.
LEMMA InitAKAInv == Init => AKAInv
<1>1. /\ NoAKA \/ AKAInit
      => /\ made = <<>> /\ down = {} /\ up = {} /\ session = NoSession
         /\ verdict # "ok" => sqnHE \in 1 .. 3 /\ sqnMS \in {1, 3}
  BY DEF NoAKA, AKAInit
<1>2. MaxSQN \in Nat /\ MaxSQN >= 3 /\ MaxChallenges \in Nat
  BY ArgumentAssumption
<1>3. Init => NoAKA \/ AKAInit
  BY DEF Init
<1>4. ASSUME made = <<>>  PROVE made \in Seq(1 .. MaxSQN) /\ Len(made) <= MaxChallenges
  BY <1>2, <1>4
<1>5. ASSUME verdict # "ok" => sqnHE \in 1 .. 3 /\ sqnMS \in {1, 3}
      PROVE  verdict # "ok" => sqnHE \in Nat \ {0} /\ sqnMS \in 1 .. MaxSQN
  BY <1>2, <1>5
<1> QED BY <1>1, <1>3, <1>4, <1>5 DEF AKAInv, SessionIsShared

\* A challenge that was made: its number and its SQN.
LEMMA MadeIs ==
    ASSUME AKAInv, NEW n \in 1 .. Len(made)
    PROVE  n \in Challenges /\ Len(made) \in Challenges /\ made[n] \in 1 .. MaxSQN
<1>1. made \in Seq(1 .. MaxSQN) /\ Len(made) <= MaxChallenges /\ MaxChallenges \in Nat
  BY ArgumentAssumption DEF AKAInv
<1>2. Len(made) \in Nat /\ made[n] \in 1 .. MaxSQN
  <2>1. PICK S : S = 1 .. MaxSQN
    OBVIOUS
  <2>2. made \in Seq(S)
    BY <1>1, <2>1
  <2>3. Len(made) \in Nat /\ \A i \in 1 .. Len(made) : made[i] \in S
    BY <2>2
  <2> QED BY <2>1, <2>3
<1> QED BY <1>1, <1>2 DEF Challenges

\* A step that leaves the challenges and the session alone.
LEMMA SameSession ==
    ASSUME SessionIsShared, UNCHANGED <<made, session>>
    PROVE  SessionIsShared'
  BY DEF SessionIsShared

\* The USIM takes a challenge it accepts as the network made it.
LEMMA Accepted ==
    ASSUME BlockCipher, AKAInv, NEW m \in down, NEW keys, keys = Keys[m.n][made[m.n]][m.damage],
           keys.err = "none"
    PROVE  /\ m.n \in 1 .. Len(made) /\ made[m.n] \in 1 .. MaxSQN
           /\ Number(keys.sqnhe) = made[m.n]
           /\ keys.ck = Vector[m.n][made[m.n]].ck /\ keys.ik = Vector[m.n][made[m.n]].ik
<1>1. m.n \in 1 .. Len(made) /\ m.damage \in Damage
  BY DEF AKAInv
<1>2. PICK n : n = m.n
  OBVIOUS
<1>3. PICK s : s = made[n]
  OBVIOUS
<1>4. PICK d : d = m.damage
  OBVIOUS
<1>5. n \in Challenges /\ s \in 1 .. MaxSQN /\ d \in Damage
  BY <1>1, <1>2, <1>3, <1>4, MadeIs
<1>6. keys = Keys[n][s][d]
  BY <1>2, <1>3, <1>4
<1>7. keys.sqnhe = SQN(s) /\ keys.ck = Vector[n][s].ck /\ keys.ik = Vector[n][s].ik
  BY <1>5, <1>6, KeysAre
<1>8. Number(SQN(s)) = s
  BY <1>5, NumberIs
<1> QED BY <1>1, <1>2, <1>3, <1>5, <1>7, <1>8

\* The network takes an answer only if it is that to its last challenge, intact.
LEMMA AnsweredRES ==
    ASSUME BlockCipher, AKAInv, NEW m \in up, m.sqn = 0,
           RES[m.n][m.damage] = Vector[Len(made)][made[Len(made)]].xres
    PROVE  m = [n |-> Len(made), sqn |-> 0, damage |-> "none"]
<1>1. m \in [n : 1 .. Len(made), sqn : 0 .. MaxSQN, damage : Damage]
  BY DEF AKAInv
<1>2. PICK n \in 1 .. Len(made) : n = m.n
  BY <1>1
<1>3. PICK last : last = Len(made)
  OBVIOUS
<1>4. n \in Challenges /\ last \in Challenges
  BY <1>3, MadeIs
<1>5. last \in 1 .. Len(made)
  <2>1. made \in Seq(1 .. MaxSQN)
    BY DEF AKAInv
  <2>2. Len(made) \in Nat
    BY <2>1
  <2> QED BY <1>2, <1>3, <2>2
<1>6. PICK s \in 1 .. MaxSQN : s = made[last]
  BY <1>5, MadeIs
<1>7. PICK d \in Damage : d = m.damage
  BY <1>1
<1>8. RES[n][d] = Vector[last][s].xres
  BY <1>2, <1>3, <1>6, <1>7
<1>9. n = last /\ d = "none"
  BY <1>4, <1>8, RESIs
<1> QED BY <1>1, <1>2, <1>3, <1>7, <1>9

\* An AUTS the network takes is the undamaged answer to its last challenge, with
\* the SQN the USIM sent.
LEMMA AnsweredAUTS ==
    ASSUME BlockCipher, AKAInv, NEW m \in up, m.sqn # 0,
           NEW valid, valid = Resync[Len(made)][m.n][m.sqn][m.damage], valid.err = "none"
    PROVE  /\ m.n = Len(made) /\ m.damage = "none" /\ m.sqn \in 1 .. MaxSQN
           /\ m = [n |-> Len(made), sqn |-> m.sqn, damage |-> "none"]
           /\ Number(valid.sqnms) = m.sqn
<1>1. m \in [n : 1 .. Len(made), sqn : 0 .. MaxSQN, damage : Damage]
  BY DEF AKAInv
<1>2. PICK n \in 1 .. Len(made) : n = m.n
  BY <1>1
<1>3. PICK last : last = Len(made)
  OBVIOUS
<1>4. n \in Challenges /\ last \in Challenges
  BY <1>3, MadeIs
<1>5. PICK s \in 1 .. MaxSQN : s = m.sqn
  <2>1. MaxSQN \in Nat /\ m.sqn \in 0 .. MaxSQN
    BY <1>1, ArgumentAssumption
  <2> QED BY <2>1
<1>6. PICK d \in Damage : d = m.damage
  BY <1>1
<1>7. valid = Resync[last][n][s][d]
  BY <1>2, <1>3, <1>5, <1>6
<1>8. n = last /\ d = "none" /\ valid.sqnms = SQN(s)
  BY <1>4, <1>7, ResyncIs
<1>9. Number(SQN(s)) = s
  BY NumberIs
<1> QED BY <1>1, <1>2, <1>3, <1>5, <1>6, <1>8, <1>9

\* Each step of AKA keeps the invariant.
LEMMA NextAKAInv == ASSUME BlockCipher, AKAInv, AKANext  PROVE AKAInv'
<1>0. /\ made \in Seq(1 .. MaxSQN) /\ Len(made) \in Nat /\ Len(made) <= MaxChallenges
      /\ verdict # "ok" => sqnHE \in Nat \ {0} /\ sqnMS \in 1 .. MaxSQN
      /\ down \subseteq [n : 1 .. Len(made), damage : Damage]
      /\ up \subseteq [n : 1 .. Len(made), sqn : 0 .. MaxSQN, damage : Damage]
      /\ SessionIsShared /\ MaxSQN \in Nat /\ MaxChallenges \in Nat
  <2>1. made \in Seq(1 .. MaxSQN)
    BY DEF AKAInv
  <2>2. Len(made) \in Nat
    BY <2>1
  <2> QED BY <2>1, <2>2, ArgumentAssumption DEF AKAInv
<1>1. CASE Challenge
  <2>1. sqnHE \in 1 .. MaxSQN /\ sqnHE' \in Nat \ {0} /\ sqnMS \in 1 .. MaxSQN
    <3>1. verdict # "ok" /\ sqnHE < MaxSQN /\ sqnHE' = sqnHE + 1
      BY <1>1 DEF Challenge
    <3> QED BY <1>0, <3>1
  <2>2. made' = Append(made, sqnHE) /\ Len(made) < MaxChallenges /\ UNCHANGED <<up, sqnMS, session>>
    BY <1>1 DEF Challenge
  <2>3. /\ made' \in Seq(1 .. MaxSQN) /\ Len(made') = Len(made) + 1
        /\ \A i \in 1 .. Len(made) : made'[i] = made[i]
    <3>1. PICK S : S = 1 .. MaxSQN
      OBVIOUS
    <3>2. made \in Seq(S) /\ sqnHE \in S
      BY <1>0, <2>1, <3>1
    <3>3. /\ Append(made, sqnHE) \in Seq(S) /\ Len(Append(made, sqnHE)) = Len(made) + 1
          /\ \A i \in 1 .. Len(made) : Append(made, sqnHE)[i] = made[i]
      BY <3>2
    <3> QED BY <2>2, <3>1, <3>3
  <2>4. Len(made') <= MaxChallenges /\ \A i \in 1 .. Len(made) : i \in 1 .. Len(made')
    BY <1>0, <2>2, <2>3
  <2>5. down' \subseteq [n : 1 .. Len(made'), damage : Damage]
    <3>1. down' = down \cup {[n |-> Len(made'), damage |-> "none"]}
      BY <1>1 DEF Challenge
    <3>2. Len(made') \in 1 .. Len(made')
      BY <1>0, <2>3
    <3> QED BY <1>0, <2>4, <3>1, <3>2 DEF Damage
  <2>6. up' \subseteq [n : 1 .. Len(made'), sqn : 0 .. MaxSQN, damage : Damage]
    BY <1>0, <2>2, <2>4
  <2>7. SessionIsShared'
    <3>1. DOMAIN made = 1 .. Len(made) /\ DOMAIN made' = 1 .. Len(made')
      BY <1>0, <2>3
    <3> QED BY <1>0, <2>2, <2>3, <2>4, <3>1 DEF SessionIsShared
  <2> QED BY <2>1, <2>2, <2>3, <2>4, <2>5, <2>6, <2>7 DEF AKAInv
<1>2. CASE Restore
  <2>1. /\ UNCHANGED <<made, verdict, down, up, sqnMS, session>> /\ sqnHE' = 1
    BY <1>2 DEF Restore
  <2>2. SessionIsShared'
    BY <1>0, <2>1, SameSession
  <2>3. verdict' # "ok" => sqnHE' \in Nat \ {0} /\ sqnMS' \in 1 .. MaxSQN
    BY <1>0, <2>1
  <2> QED BY <1>0, <2>1, <2>2, <2>3 DEF AKAInv
<1>3. CASE DamageMessage
  <2>1. UNCHANGED <<sqnHE, made, verdict, sqnMS, session>>
    BY <1>3 DEF DamageMessage
  <2>2. PICK d \in Damage :
          \/ \E m \in down : down' = down \cup {[m EXCEPT !.damage = d]} /\ UNCHANGED up
          \/ \E m \in up : up' = up \cup {[m EXCEPT !.damage = d]} /\ UNCHANGED down
    BY <1>3 DEF DamageMessage
  <2>3. /\ down' \subseteq [n : 1 .. Len(made), damage : Damage]
        /\ up' \subseteq [n : 1 .. Len(made), sqn : 0 .. MaxSQN, damage : Damage]
    <3>1. CASE \E m \in down : down' = down \cup {[m EXCEPT !.damage = d]} /\ UNCHANGED up
      <4>1. PICK m \in down : down' = down \cup {[m EXCEPT !.damage = d]} /\ UNCHANGED up
        BY <3>1
      <4>2. [m EXCEPT !.damage = d] \in [n : 1 .. Len(made), damage : Damage]
        BY <1>0
      <4> QED BY <1>0, <4>1, <4>2
    <3>2. CASE \E m \in up : up' = up \cup {[m EXCEPT !.damage = d]} /\ UNCHANGED down
      <4>1. PICK m \in up : up' = up \cup {[m EXCEPT !.damage = d]} /\ UNCHANGED down
        BY <3>2
      <4>2. [m EXCEPT !.damage = d] \in [n : 1 .. Len(made), sqn : 0 .. MaxSQN, damage : Damage]
        BY <1>0
      <4> QED BY <1>0, <4>1, <4>2
    <3> QED BY <2>2, <3>1, <3>2
  <2>4. SessionIsShared'
    BY <1>0, <2>1, SameSession
  <2> QED BY <1>0, <2>1, <2>3, <2>4 DEF AKAInv
<1>4. ASSUME NEW m \in down, Receive(m)  PROVE AKAInv'
  <2>1. PICK keys : keys = Keys[m.n][made[m.n]][m.damage]
    OBVIOUS
  <2>2. /\ verdict = "pending" /\ UNCHANGED <<sqnHE, made, verdict>> /\ down' \subseteq down
        /\ \/ UNCHANGED <<up, sqnMS, session>>
           \/ /\ keys.err = "none"
              /\ sqnMS' = Number(keys.sqnhe)
              /\ session' = [n |-> m.n, sqn |-> sqnMS', ck |-> keys.ck, ik |-> keys.ik]
              /\ up' = up \cup {[n |-> m.n, sqn |-> 0, damage |-> "none"]}
           \/ /\ up' = up \cup {[n |-> m.n, sqn |-> sqnMS, damage |-> "none"]}
              /\ UNCHANGED <<sqnMS, session>>
    BY <1>4, <2>1 DEF Receive
  <2>3. m.n \in 1 .. Len(made) /\ sqnMS \in 1 .. MaxSQN /\ sqnHE \in Nat \ {0}
    BY <1>0, <2>2
  <2>4. down' \subseteq [n : 1 .. Len(made'), damage : Damage]
    BY <1>0, <2>2
  <2>5. CASE UNCHANGED <<up, sqnMS, session>>
    <3>1. SessionIsShared'
      BY <1>0, <2>2, <2>5, SameSession
    <3> QED BY <1>0, <2>2, <2>4, <2>5, <3>1 DEF AKAInv
  <2>6. CASE /\ keys.err = "none"
             /\ sqnMS' = Number(keys.sqnhe)
             /\ session' = [n |-> m.n, sqn |-> sqnMS', ck |-> keys.ck, ik |-> keys.ik]
             /\ up' = up \cup {[n |-> m.n, sqn |-> 0, damage |-> "none"]}
    <3>1. /\ made[m.n] \in 1 .. MaxSQN /\ Number(keys.sqnhe) = made[m.n]
          /\ keys.ck = Vector[m.n][made[m.n]].ck /\ keys.ik = Vector[m.n][made[m.n]].ik
      BY <2>1, <2>6, Accepted
    <3>2. SessionIsShared'
      <4>1. DOMAIN made = 1 .. Len(made)
        BY <1>0
      <4>2. /\ session'.n = m.n /\ session'.sqn = made[m.n]
            /\ session'.ck = Vector[m.n][made[m.n]].ck /\ session'.ik = Vector[m.n][made[m.n]].ik
        BY <2>6, <3>1
      <4> QED BY <2>2, <2>3, <4>1, <4>2 DEF SessionIsShared
    <3>3. up' \subseteq [n : 1 .. Len(made'), sqn : 0 .. MaxSQN, damage : Damage]
      <4>1. 0 \in 0 .. MaxSQN /\ "none" \in Damage
        BY <1>0 DEF Damage
      <4> QED BY <1>0, <2>2, <2>3, <2>6, <4>1
    <3> QED BY <1>0, <2>2, <2>3, <2>4, <2>6, <3>1, <3>2, <3>3 DEF AKAInv
  <2>7. CASE /\ up' = up \cup {[n |-> m.n, sqn |-> sqnMS, damage |-> "none"]}
             /\ UNCHANGED <<sqnMS, session>>
    <3>1. up' \subseteq [n : 1 .. Len(made'), sqn : 0 .. MaxSQN, damage : Damage]
      <4>1. sqnMS \in 0 .. MaxSQN /\ "none" \in Damage
        BY <1>0, <2>3 DEF Damage
      <4> QED BY <1>0, <2>2, <2>3, <2>7, <4>1
    <3>2. SessionIsShared'
      BY <1>0, <2>2, <2>7, SameSession
    <3> QED BY <1>0, <2>2, <2>3, <2>4, <2>7, <3>1, <3>2 DEF AKAInv
  <2> QED BY <2>2, <2>5, <2>6, <2>7
<1>5. ASSUME NEW m \in up, ReceiveRES(m)  PROVE AKAInv'
  <2>1. verdict' = "ok" /\ UNCHANGED <<sqnHE, made, down, up, sqnMS, session, faults>>
    BY <1>5 DEF ReceiveRES
  <2>2. SessionIsShared'
    BY <1>0, <2>1, SameSession
  <2> QED BY <1>0, <2>1, <2>2 DEF AKAInv
<1>6. ASSUME NEW m \in up, ReceiveAUTS(m)  PROVE AKAInv'
  <2>1. PICK valid : valid = Resync[Len(made)][m.n][m.sqn][m.damage]
    OBVIOUS
  <2>2. /\ verdict = "pending" /\ m.sqn # 0 /\ valid.err = "none" /\ sqnHE' = Number(valid.sqnms) + 1
        /\ UNCHANGED <<made, down, up, sqnMS, session>>
    BY <1>6, <2>1 DEF ReceiveAUTS
  <2>3. m.sqn \in 1 .. MaxSQN /\ Number(valid.sqnms) = m.sqn
    BY <2>1, <2>2, AnsweredAUTS
  <2>4. sqnHE' \in Nat \ {0} /\ sqnMS' \in 1 .. MaxSQN
    BY <1>0, <2>2, <2>3
  <2>5. SessionIsShared'
    BY <1>0, <2>2, SameSession
  <2> QED BY <1>0, <2>2, <2>4, <2>5 DEF AKAInv
<1> QED BY <1>1, <1>2, <1>3, <1>4, <1>5, <1>6 DEF AKANext

\* So does every step of the codecs.
LEMMA StepAKAInv == ASSUME BlockCipher, AKAInv, [Next]_vars  PROVE AKAInv'
<1>1. AKANext \/ UNCHANGED akavars
  BY DEF Next, FlowDecode, FlowEncode, FlowDecodeAgain, vars, akavars
<1>2. CASE UNCHANGED akavars
  BY <1>2 DEF akavars, AKAInv, SessionIsShared
<1> QED BY <1>1, <1>2, NextAKAInv

\* For every cipher that CipherAssumption holds of, and whatever is lost, late,
\* repeated or damaged, the USIM holds a session only together with the network.
THEOREM SessionsAreShared == ASSUME BlockCipher PROVE Spec => []SessionIsShared
<1>1. AKAInv => SessionIsShared
  BY DEF AKAInv
<1>2. AKAInv /\ [Next]_vars => AKAInv'
  BY StepAKAInv
<1> QED BY <1>1, <1>2, InitAKAInv, PTL DEF Spec

\* Under the same hypothesis the network authenticates only a USIM that accepted
\* its last challenge, and takes its SQN only from the answer to it.
THEOREM NetworkAnswered == ASSUME BlockCipher PROVE Spec => NetworkIsAnswered
<1> DEFINE A == /\ verdict = "pending" /\ verdict' = "ok" =>
                     [n |-> Len(made), sqn |-> 0, damage |-> "none"] \in up
                /\ verdict = "pending" /\ verdict' = "idle" =>
                     [n |-> Len(made), sqn |-> sqnHE' - 1, damage |-> "none"] \in up
<1>1. AKAInv /\ [Next]_vars => [A]_akavars
  <2> SUFFICES ASSUME AKAInv, [Next]_vars  PROVE A \/ UNCHANGED akavars
    OBVIOUS
  <2>1. AKANext \/ UNCHANGED akavars
    BY DEF Next, FlowDecode, FlowEncode, FlowDecodeAgain, vars, akavars
  <2>2. CASE Challenge \/ Restore \/ DamageMessage
    <3>1. verdict' = "pending"
      BY <2>2 DEF Challenge, Restore, DamageMessage
    <3> QED BY <3>1
  <2>3. ASSUME NEW m \in down, Receive(m)  PROVE A
    <3>1. verdict' = verdict
      BY <2>3 DEF Receive
    <3> QED BY <3>1
  <2>4. ASSUME NEW m \in up, ReceiveRES(m)  PROVE A
    <3>1. m.sqn = 0 /\ RES[m.n][m.damage] = Vector[Len(made)][made[Len(made)]].xres /\ verdict' = "ok"
      BY <2>4 DEF ReceiveRES
    <3>2. m = [n |-> Len(made), sqn |-> 0, damage |-> "none"]
      BY <3>1, AnsweredRES
    <3> QED BY <3>1, <3>2
  <2>5. ASSUME NEW m \in up, ReceiveAUTS(m)  PROVE A
    <3>1. PICK valid : valid = Resync[Len(made)][m.n][m.sqn][m.damage]
      OBVIOUS
    <3>2. /\ m.sqn # 0 /\ valid.err = "none" /\ sqnHE' = Number(valid.sqnms) + 1 /\ verdict' = "idle"
      BY <2>5, <3>1 DEF ReceiveAUTS
    <3>3. /\ m = [n |-> Len(made), sqn |-> m.sqn, damage |-> "none"] /\ m.sqn \in 1 .. MaxSQN
          /\ Number(valid.sqnms) = m.sqn
      BY <3>1, <3>2, AnsweredAUTS
    <3>4. sqnHE' - 1 = m.sqn
      BY <3>2, <3>3
    <3> QED BY <3>2, <3>3, <3>4
  <2> QED BY <2>1, <2>2, <2>3, <2>4, <2>5 DEF AKANext
<1>2. AKAInv /\ [Next]_vars => AKAInv'
  BY StepAKAInv
<1> HIDE DEF A
<1>3. Spec => [][A]_akavars
  BY <1>1, <1>2, InitAKAInv, PTL DEF Spec
<1> QED BY <1>3 DEF NetworkIsAnswered, A
=============================================================================
