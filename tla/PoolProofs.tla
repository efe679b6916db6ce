----------------------------- MODULE PoolProofs -----------------------------
(***************************************************************************)
(* Proofs about the pools of lib/util/ippool, for any bounds: the segment  *)
(* list stays a list of disjoint segments through every split, merge and   *)
(* reservation; LazyReusePool implements FreeSetPool and reuses lazily;    *)
(* and the address pools made of it share and lose no address.             *)
(***************************************************************************)
EXTENDS LazyReusePool, IPPool, FiniteSetTheorems, WellFoundedInduction, TLAPS

Segments == [first : Int, last : Int]

\* The segments are not empty and do not overlap.
Apart(s, t) == s.last < t.first \/ t.last < s.first
Good(list) ==
    /\ list \in Seq(Segments)
    /\ \A i \in 1 .. Len(list) : list[i].first <= list[i].last
    /\ \A i, j \in 1 .. Len(list) : i < j => Apart(list[i], list[j])

-----------------------------------------------------------------------------
(* Lists, put together and taken apart                                      *)

\* What a list stands for, by its elements.
LEMMA ValuesOf ==
    ASSUME NEW list \in Seq(Segments), NEW v
    PROVE  v \in SegValues(list) <=> \E i \in 1 .. Len(list) : v \in list[i].first .. list[i].last
<1>1. DOMAIN list = 1 .. Len(list)
  OBVIOUS
<1> QED BY <1>1 DEF SegValues

\* The empty list and the list of one segment.
LEMMA EmptyList == Good(<<>>) /\ SegValues(<<>>) = {}
<1>1. <<>> \in Seq(Segments) /\ Len(<<>>) = 0
  OBVIOUS
<1>2. SegValues(<<>>) = {}
  BY DEF SegValues
<1> QED BY <1>1, <1>2 DEF Good

\* The list of one segment.
LEMMA OneSegment ==
    ASSUME NEW a \in Int, NEW b \in Int, a <= b
    PROVE  Good(<<Seg(a, b)>>) /\ SegValues(<<Seg(a, b)>>) = a .. b
<1>1. PICK s : s = Seg(a, b)
  OBVIOUS
<1>2. s \in Segments /\ s.first = a /\ s.last = b
  BY <1>1 DEF Seg, Segments
<1>3. PICK list : list = <<s>>
  OBVIOUS
<1>4. list \in Seq(Segments) /\ Len(list) = 1 /\ list[1] = s
  BY <1>2, <1>3
<1>5. SegValues(list) = a .. b
  <2>1. \A v : v \in SegValues(list) <=> v \in a .. b
    BY <1>2, <1>4, ValuesOf
  <2> QED BY <2>1
<1>6. Good(list)
  BY <1>2, <1>4 DEF Good
<1> QED BY <1>1, <1>3, <1>5, <1>6

\* Two segments are apart exactly when they have no value in common.
LEMMA ApartValues ==
    ASSUME NEW s \in Segments, NEW t \in Segments, s.first <= s.last, t.first <= t.last
    PROVE  Apart(s, t) <=> \A v \in s.first .. s.last : v \notin t.first .. t.last
<1>1. s.first \in Int /\ s.last \in Int /\ t.first \in Int /\ t.last \in Int
  BY DEF Segments
<1>2. ASSUME ~Apart(s, t)  PROVE \E v \in s.first .. s.last : v \in t.first .. t.last
  <2>1. CASE s.first <= t.first
    BY <1>1, <1>2, <2>1 DEF Apart
  <2>2. CASE ~(s.first <= t.first)
    BY <1>1, <1>2, <2>2 DEF Apart
  <2> QED BY <2>1, <2>2
<1>3. ASSUME Apart(s, t), NEW v \in s.first .. s.last  PROVE v \notin t.first .. t.last
  BY <1>1, <1>3 DEF Apart
<1> QED BY <1>2, <1>3

\* Joining two lists.
LEMMA JoinValues ==
    ASSUME NEW p \in Seq(Segments), NEW q \in Seq(Segments)
    PROVE  SegValues(p \o q) = SegValues(p) \cup SegValues(q)
<1> DEFINE r == p \o q
           m == Len(p)
           n == Len(q)
<1>1. /\ r \in Seq(Segments) /\ Len(r) = m + n /\ m \in Nat /\ n \in Nat
      /\ \A i \in 1 .. m : r[i] = p[i]
      /\ \A i \in 1 .. n : r[m + i] = q[i]
  OBVIOUS
<1>2. \A i \in 1 .. m + n : i \in 1 .. m \/ (i - m \in 1 .. n /\ i = m + (i - m))
  BY <1>1
<1>3. \A i \in 1 .. n : m + i \in 1 .. m + n
  BY <1>1
<1>4. \A i \in 1 .. m : i \in 1 .. m + n
  BY <1>1
<1> HIDE DEF r, m, n
<1>5. \A v : v \in SegValues(r) <=> \E i \in 1 .. m + n : v \in r[i].first .. r[i].last
  BY <1>1, ValuesOf
<1>6. \A v : v \in SegValues(p) <=> \E i \in 1 .. m : v \in p[i].first .. p[i].last
  BY ValuesOf DEF m
<1>7. \A v : v \in SegValues(q) <=> \E i \in 1 .. n : v \in q[i].first .. q[i].last
  BY ValuesOf DEF n
<1>8. ASSUME NEW v \in SegValues(r)  PROVE v \in SegValues(p) \cup SegValues(q)
  <2>1. PICK i \in 1 .. m + n : v \in r[i].first .. r[i].last
    BY <1>5
  <2>2. CASE i \in 1 .. m
    BY <1>1, <1>6, <2>1, <2>2
  <2>3. CASE i \notin 1 .. m
    <3>1. PICK k \in 1 .. n : i = m + k
      BY <1>2, <2>3
    <3>2. r[i] = q[k]
      BY <1>1, <3>1
    <3> QED BY <1>7, <2>1, <3>2
  <2> QED BY <2>2, <2>3
<1>9. ASSUME NEW v, v \in SegValues(p) \/ v \in SegValues(q)  PROVE v \in SegValues(r)
  <2>1. CASE v \in SegValues(p)
    BY <1>1, <1>4, <1>5, <1>6, <2>1
  <2>2. CASE v \in SegValues(q)
    <3>1. PICK i \in 1 .. n : v \in q[i].first .. q[i].last
      BY <1>7, <2>2
    <3>2. r[m + i] = q[i] /\ m + i \in 1 .. m + n
      BY <1>1, <1>3
    <3>3. v \in r[m + i].first .. r[m + i].last
      BY <3>1, <3>2
    <3> QED BY <1>5, <3>2, <3>3
  <2> QED BY <1>9, <2>1, <2>2
<1> QED BY <1>8, <1>9 DEF r

\* Two lists without a common value make a list again.
LEMMA JoinGood ==
    ASSUME NEW p, NEW q
    PROVE  (Good(p) /\ Good(q) /\ SegValues(p) \cap SegValues(q) = {})
             => Good(p \o q)
<1> SUFFICES ASSUME Good(p), Good(q), SegValues(p) \cap SegValues(q) = {}
             PROVE  Good(p \o q)
  OBVIOUS
<1> DEFINE r == p \o q
           m == Len(p)
           n == Len(q)
<1>0. p \in Seq(Segments) /\ q \in Seq(Segments)
  BY DEF Good
<1>1. /\ r \in Seq(Segments) /\ Len(r) = m + n /\ m \in Nat /\ n \in Nat
      /\ \A i \in 1 .. m : r[i] = p[i]
      /\ \A i \in 1 .. n : r[m + i] = q[i]
  BY <1>0
<1>2. \A i \in 1 .. m + n : i \in 1 .. m \/ (i - m \in 1 .. n /\ i = m + (i - m))
  BY <1>1
<1>3. /\ \A i \in 1 .. m : p[i].first <= p[i].last /\ p[i] \in Segments
      /\ \A i, j \in 1 .. m : i < j => Apart(p[i], p[j])
  BY <1>0 DEF Good
<1>4. /\ \A i \in 1 .. n : q[i].first <= q[i].last /\ q[i] \in Segments
      /\ \A i, j \in 1 .. n : i < j => Apart(q[i], q[j])
  BY <1>0 DEF Good
<1> HIDE DEF r, m, n
<1>5. ASSUME NEW i \in 1 .. m, NEW j \in 1 .. n  PROVE Apart(p[i], q[j])
  <2>1. ASSUME NEW v \in p[i].first .. p[i].last  PROVE v \notin q[j].first .. q[j].last
    <3>1. v \in SegValues(p)
      BY <1>0, <2>1, ValuesOf DEF m
    <3>2. v \in q[j].first .. q[j].last => v \in SegValues(q)
      BY <1>0, ValuesOf DEF n
    <3> QED BY <3>1, <3>2
  <2> QED BY <1>3, <1>4, <2>1, ApartValues
<1>6. ASSUME NEW i \in 1 .. m + n  PROVE r[i].first <= r[i].last
  <2>1. CASE i \in 1 .. m
    BY <1>1, <1>3, <2>1
  <2>2. CASE i \notin 1 .. m
    <3>1. PICK k \in 1 .. n : i = m + k
      BY <1>2, <2>2
    <3> QED BY <1>1, <1>4, <3>1
  <2> QED BY <2>1, <2>2
<1>7. ASSUME NEW i \in 1 .. m + n, NEW j \in 1 .. m + n, i < j  PROVE Apart(r[i], r[j])
  <2>1. CASE j \in 1 .. m
    <3>1. i \in 1 .. m
      BY <1>1, <1>7, <2>1
    <3> QED BY <1>1, <1>3, <1>7, <2>1, <3>1
  <2>2. CASE j \notin 1 .. m
    <3>1. PICK k \in 1 .. n : j = m + k
      BY <1>2, <2>2
    <3>2. CASE i \in 1 .. m
      BY <1>1, <1>5, <3>1, <3>2
    <3>3. CASE i \notin 1 .. m
      <4>1. PICK h \in 1 .. n : i = m + h
        BY <1>2, <3>3
      <4>2. h < k
        BY <1>1, <1>7, <3>1, <4>1
      <4>3. Apart(q[h], q[k])
        BY <1>4, <4>2
      <4> QED BY <1>1, <3>1, <4>1, <4>3
    <3> QED BY <3>2, <3>3
  <2> QED BY <2>1, <2>2
<1> QED BY <1>1, <1>6, <1>7 DEF Good, r

\* The part of a list from place a to place b.
LEMMA PartOf ==
    ASSUME NEW list, Good(list), NEW a \in Nat \ {0}, NEW b \in Nat,
           a <= b + 1, b <= Len(list)
    PROVE  /\ Good(SubSeq(list, a, b))
           /\ \A v : v \in SegValues(SubSeq(list, a, b))
                     <=> \E i \in a .. b : v \in list[i].first .. list[i].last
<1> DEFINE q == SubSeq(list, a, b)
           n == (b + 1) - a
<1>0. list \in Seq(Segments) /\ Len(list) \in Nat
  BY DEF Good
<1>1. /\ n \in Nat /\ q \in Seq(Segments) /\ Len(q) = n
      /\ \A k \in 1 .. n : q[k] = list[(a - 1) + k]
  BY <1>0
<1>2. /\ \A k \in 1 .. n : (a - 1) + k \in 1 .. Len(list) /\ (a - 1) + k \in a .. b
      /\ \A i \in a .. b : i - (a - 1) \in 1 .. n /\ i = (a - 1) + (i - (a - 1))
      /\ \A h, k \in 1 .. n : h < k => (a - 1) + h < (a - 1) + k
  BY <1>0, <1>1
<1> HIDE DEF q, n
<1>3. /\ \A i \in 1 .. Len(list) : list[i].first <= list[i].last
      /\ \A i, j \in 1 .. Len(list) : i < j => Apart(list[i], list[j])
  BY DEF Good
<1>4. ASSUME NEW k \in 1 .. n  PROVE q[k].first <= q[k].last
  BY <1>1, <1>2, <1>3
<1>5. ASSUME NEW h \in 1 .. n, NEW k \in 1 .. n, h < k  PROVE Apart(q[h], q[k])
  <2>1. Apart(list[(a - 1) + h], list[(a - 1) + k])
    BY <1>2, <1>3, <1>5
  <2> QED BY <1>1, <2>1
<1>6. Good(q)
  BY <1>1, <1>4, <1>5 DEF Good
<1>7. \A v : v \in SegValues(q) <=> \E k \in 1 .. n : v \in q[k].first .. q[k].last
  BY <1>1, ValuesOf
<1>8. ASSUME NEW v, v \in SegValues(q)
      PROVE  \E i \in a .. b : v \in list[i].first .. list[i].last
  <2>1. PICK k \in 1 .. n : v \in q[k].first .. q[k].last
    BY <1>7, <1>8
  <2> QED BY <1>1, <1>2, <2>1
<1>9. ASSUME NEW i \in a .. b, NEW v \in list[i].first .. list[i].last
      PROVE  v \in SegValues(q)
  <2>1. PICK k \in 1 .. n : i = (a - 1) + k
    BY <1>2
  <2>2. q[k] = list[i]
    BY <1>1, <2>1
  <2> QED BY <1>7, <2>2
<1> QED BY <1>6, <1>8, <1>9 DEF q

\* Segments at different places have no value in common.
LEMMA OnePlace ==
    ASSUME NEW list, Good(list), NEW i \in 1 .. Len(list), NEW j \in 1 .. Len(list), i # j,
           NEW v \in list[i].first .. list[i].last
    PROVE  v \notin list[j].first .. list[j].last
<1>0. list \in Seq(Segments) /\ Len(list) \in Nat
  BY DEF Good
<1>1. /\ list[i] \in Segments /\ list[i].first <= list[i].last
      /\ list[j] \in Segments /\ list[j].first <= list[j].last
  BY <1>0 DEF Good
<1>2. CASE i < j
  <2>1. Apart(list[i], list[j])
    BY <1>2 DEF Good
  <2> QED BY <1>1, <2>1, ApartValues
<1>3. CASE j < i
  <2>1. Apart(list[j], list[i])
    BY <1>3 DEF Good
  <2> QED BY <1>1, <2>1, ApartValues
<1> QED BY <1>0, <1>2, <1>3

\* The places i .. j of a list replaced by mid.
Splice(list, i, j, mid) == SubSeq(list, 1, i - 1) \o mid \o SubSeq(list, j + 1, Len(list))

\* The values at these places.
ValuesAt(list, i, j) == UNION {list[k].first .. list[k].last : k \in i .. j}

\* Replacing the places i .. j of a list (none, one or two of them) by mid,
\* whose values are in no other place.
LEMMA Surgery ==
    ASSUME NEW list, Good(list), NEW i \in Nat \ {0}, NEW j \in Nat,
           i <= j + 1, j <= Len(list),
           NEW mid, Good(mid), NEW gone, gone = ValuesAt(list, i, j),
           SegValues(mid) \cap (SegValues(list) \ gone) = {},
           NEW new, new = Splice(list, i, j, mid)
    PROVE  Good(new) /\ SegValues(new) = (SegValues(list) \ gone) \cup SegValues(mid)
<1>0. list \in Seq(Segments) /\ Len(list) \in Nat /\ mid \in Seq(Segments)
  BY DEF Good
<1>17. \A v : v \in gone <=> \E k \in i .. j : v \in list[k].first .. list[k].last
  BY DEF ValuesAt
<1>1. PICK n \in Nat : n = Len(list)
  BY <1>0
<1>2. PICK pre : pre = SubSeq(list, 1, i - 1)
  OBVIOUS
<1>3. PICK post : post = SubSeq(list, j + 1, n)
  OBVIOUS
<1>4. /\ Good(pre)
      /\ \A v : v \in SegValues(pre) <=> \E k \in 1 .. i - 1 : v \in list[k].first .. list[k].last
  <2>1. 1 \in Nat \ {0} /\ i - 1 \in Nat /\ 1 <= (i - 1) + 1 /\ i - 1 <= Len(list)
    BY <1>0
  <2> QED BY <1>2, <2>1, PartOf
<1>5. /\ Good(post)
      /\ \A v : v \in SegValues(post) <=> \E k \in j + 1 .. n : v \in list[k].first .. list[k].last
  <2>1. j + 1 \in Nat \ {0} /\ n \in Nat /\ j + 1 <= n + 1 /\ n <= Len(list)
    BY <1>0, <1>1
  <2> QED BY <1>3, <2>1, PartOf
<1>6. \A v : v \in SegValues(list) <=> \E k \in 1 .. n : v \in list[k].first .. list[k].last
  BY <1>0, <1>1, ValuesOf
<1>7. \A h, k \in 1 .. n : h # k =>
        \A v \in list[h].first .. list[h].last : v \notin list[k].first .. list[k].last
  BY <1>1, OnePlace
<1>8. /\ \A k \in 1 .. n : k \in 1 .. i - 1 \/ k \in i .. j \/ k \in j + 1 .. n
      /\ \A k \in 1 .. i - 1 : k \in 1 .. n /\ k < i
      /\ \A k \in i .. j : k \in 1 .. n /\ i <= k /\ k <= j
      /\ \A k \in j + 1 .. n : k \in 1 .. n /\ j < k
  BY <1>1
<1>9. \A h, k \in 1 .. n : \A v : v \in list[h].first .. list[h].last /\ v \in list[k].first .. list[k].last => h = k
  BY <1>7
<1>10. SegValues(pre) \cap SegValues(post) = {}
  <2>1. \A h \in 1 .. i - 1, k \in j + 1 .. n : h # k
    BY <1>1, <1>8
  <2> QED BY <1>4, <1>5, <1>8, <1>9, <2>1
<1>11. SegValues(pre) \cup SegValues(post) = SegValues(list) \ gone
  <2>1. ASSUME NEW v \in SegValues(pre)  PROVE v \in SegValues(list) /\ v \notin gone
    <3>1. \A h \in 1 .. i - 1, k \in i .. j : h # k
      BY <1>1, <1>8
    <3> QED BY <1>4, <1>6, <1>8, <1>9, <1>17, <2>1, <3>1
  <2>2. ASSUME NEW v \in SegValues(post)  PROVE v \in SegValues(list) /\ v \notin gone
    <3>1. \A h \in j + 1 .. n, k \in i .. j : h # k
      BY <1>1, <1>8
    <3> QED BY <1>5, <1>6, <1>8, <1>9, <1>17, <2>2, <3>1
  <2>3. ASSUME NEW v \in SegValues(list), v \notin gone
        PROVE  v \in SegValues(pre) \cup SegValues(post)
    BY <1>4, <1>5, <1>6, <1>8, <1>17, <2>3
  <2> QED BY <2>1, <2>2, <2>3
<1>12. pre \in Seq(Segments) /\ post \in Seq(Segments) /\ pre \o mid \in Seq(Segments)
  <2>1. pre \in Seq(Segments) /\ post \in Seq(Segments)
    BY <1>4, <1>5 DEF Good
  <2> QED BY <1>0, <2>1
<1>13. SegValues(pre \o mid) = SegValues(pre) \cup SegValues(mid)
  BY <1>0, <1>12, JoinValues
<1>14. Good(pre \o mid)
  BY <1>4, <1>11, JoinGood
<1>15. Good((pre \o mid) \o post)
  BY <1>5, <1>10, <1>11, <1>13, <1>14, JoinGood
<1>16. SegValues((pre \o mid) \o post) = (SegValues(list) \ gone) \cup SegValues(mid)
  <2>1. SegValues((pre \o mid) \o post) = SegValues(pre \o mid) \cup SegValues(post)
    BY <1>12, JoinValues
  <2> QED BY <1>11, <1>13, <2>1
<1> QED BY <1>1, <1>2, <1>3, <1>15, <1>16 DEF Splice

-----------------------------------------------------------------------------
(* The operators of SegmentList as such replacements                        *)

\* Sequences with the same elements are the same.
LEMMA SameElements ==
    ASSUME NEW S, NEW p \in Seq(S), NEW q \in Seq(S), Len(p) = Len(q),
           \A k \in 1 .. Len(p) : p[k] = q[k]
    PROVE  p = q
  OBVIOUS

\* Two lists of one element make a list of two.
LEMMA PairOf ==
    ASSUME NEW S, NEW d \in S, NEW e \in S
    PROVE  <<d>> \o <<e>> = <<d, e>>
<1>1. PICK a : a = <<d>>
  OBVIOUS
<1>2. PICK b : b = <<e>>
  OBVIOUS
<1>3. a \in Seq(S) /\ Len(a) = 1 /\ a[1] = d
  BY <1>1
<1>4. b \in Seq(S) /\ Len(b) = 1 /\ b[1] = e
  BY <1>2
<1>5. PICK p : p = a \o b
  OBVIOUS
<1>6. p \in Seq(S) /\ Len(p) = 2 /\ p[1] = d /\ p[2] = e
  <2>1. /\ p \in Seq(S) /\ Len(p) = Len(a) + Len(b)
        /\ \A k \in 1 .. Len(a) : p[k] = a[k]
        /\ \A k \in 1 .. Len(b) : p[Len(a) + k] = b[k]
    <3>1. a \in Seq(S) /\ b \in Seq(S)
      BY <1>3, <1>4
    <3> QED BY <1>5, <3>1
  <2> QED BY <1>3, <1>4, <2>1
<1>7. PICK q : q = <<d, e>>
  OBVIOUS
<1>8. q \in Seq(S) /\ Len(q) = 2 /\ q[1] = d /\ q[2] = e
  BY <1>7
<1>9. \A k \in 1 .. 2 : p[k] = q[k]
  <2>1. \A k \in 1 .. 2 : k = 1 \/ k = 2
    OBVIOUS
  <2> QED BY <1>6, <1>8, <2>1
<1>10. p = q
  BY <1>6, <1>8, <1>9, SameElements
<1> QED BY <1>1, <1>2, <1>5, <1>7, <1>10

\* The elements of Splice.
IsSplice(new, list, i, j, mid) ==
    /\ Len(new) = (i - 1) + Len(mid) + (Len(list) - j)
    /\ \A k \in 1 .. i - 1 : new[k] = list[k]
    /\ \A k \in 1 .. Len(mid) : new[(i - 1) + k] = mid[k]
    /\ \A k \in j + 1 .. Len(list) : new[(i - 1) + Len(mid) + (k - j)] = list[k]

\* The elements of a list whose places i .. j are replaced by mid.
LEMMA ReplacedElements ==
    ASSUME NEW S, NEW list \in Seq(S), NEW i \in Nat \ {0}, NEW j \in Nat,
           i <= j + 1, j <= Len(list), NEW mid \in Seq(S),
           NEW new, new = Splice(list, i, j, mid)
    PROVE  new \in Seq(S) /\ IsSplice(new, list, i, j, mid)
<1>1. PICK pre : pre = SubSeq(list, 1, i - 1)
  OBVIOUS
<1>2. PICK n \in Nat : n = Len(list)
  OBVIOUS
<1>3. PICK post : post = SubSeq(list, j + 1, n)
  OBVIOUS
<1>4. /\ pre \in Seq(S) /\ Len(pre) = i - 1 /\ \A k \in 1 .. i - 1 : pre[k] = list[k]
  BY <1>1, <1>2
<1>5. /\ post \in Seq(S) /\ Len(post) = n - j /\ \A k \in 1 .. n - j : post[k] = list[j + k]
  BY <1>2, <1>3
<1>6. PICK m \in Nat : m = Len(mid)
  OBVIOUS
<1>7. PICK q : q = pre \o mid
  OBVIOUS
<1>8. /\ q \in Seq(S) /\ Len(q) = (i - 1) + m
      /\ \A k \in 1 .. i - 1 : q[k] = list[k]
      /\ \A k \in 1 .. m : q[(i - 1) + k] = mid[k]
  <2>1. /\ q \in Seq(S) /\ Len(q) = Len(pre) + Len(mid)
        /\ \A k \in 1 .. Len(pre) : q[k] = pre[k]
        /\ \A k \in 1 .. Len(mid) : q[Len(pre) + k] = mid[k]
    <3>1. pre \in Seq(S)
      BY <1>4
    <3> QED BY <1>7, <3>1
  <2> QED BY <1>4, <1>6, <2>1
<1>9. PICK r : r = q \o post
  OBVIOUS
<1>10. /\ r \in Seq(S) /\ Len(r) = (i - 1) + m + (n - j)
       /\ \A k \in 1 .. (i - 1) + m : r[k] = q[k]
       /\ \A k \in 1 .. n - j : r[(i - 1) + m + k] = list[j + k]
  <2>1. /\ r \in Seq(S) /\ Len(r) = Len(q) + Len(post)
        /\ \A k \in 1 .. Len(q) : r[k] = q[k]
        /\ \A k \in 1 .. Len(post) : r[Len(q) + k] = post[k]
    <3>1. q \in Seq(S) /\ post \in Seq(S)
      BY <1>5, <1>8
    <3> QED BY <1>9, <3>1
  <2> QED BY <1>2, <1>5, <1>8, <2>1
<1>11. \A k \in 1 .. i - 1 : r[k] = list[k]
  BY <1>8, <1>10
<1>12. \A k \in 1 .. m : r[(i - 1) + k] = mid[k]
  BY <1>8, <1>10
<1>13. ASSUME NEW k \in j + 1 .. n  PROVE r[(i - 1) + m + (k - j)] = list[k]
  <2>1. PICK h \in 1 .. n - j : k = j + h
    BY <1>2
  <2>2. k - j = h
    BY <2>1
  <2> QED BY <1>10, <2>1, <2>2
<1>14. new = r
  BY <1>1, <1>2, <1>3, <1>7, <1>9 DEF Splice
<1> QED BY <1>2, <1>6, <1>10, <1>11, <1>12, <1>13, <1>14 DEF IsSplice

\* ... and what has these elements is it.
LEMMA SpliceUnique ==
    ASSUME NEW S, NEW list \in Seq(S), NEW i \in Nat \ {0}, NEW j \in Nat,
           i <= j + 1, j <= Len(list), NEW mid \in Seq(S),
           NEW p \in Seq(S), IsSplice(p, list, i, j, mid)
    PROVE  p = Splice(list, i, j, mid)
<1>1. PICK q : q = Splice(list, i, j, mid)
  OBVIOUS
<1>2. q \in Seq(S) /\ IsSplice(q, list, i, j, mid)
  BY <1>1, ReplacedElements
<1>3. PICK m \in Nat, n \in Nat : m = Len(mid) /\ n = Len(list)
  OBVIOUS
<1>4. /\ Len(q) = (i - 1) + m + (n - j)
      /\ \A k \in 1 .. i - 1 : q[k] = list[k]
      /\ \A k \in 1 .. m : q[(i - 1) + k] = mid[k]
      /\ \A k \in j + 1 .. n : q[(i - 1) + m + (k - j)] = list[k]
  BY <1>2, <1>3 DEF IsSplice
<1>5. /\ Len(p) = (i - 1) + m + (n - j)
      /\ \A k \in 1 .. i - 1 : p[k] = list[k]
      /\ \A k \in 1 .. m : p[(i - 1) + k] = mid[k]
      /\ \A k \in j + 1 .. n : p[(i - 1) + m + (k - j)] = list[k]
  BY <1>3 DEF IsSplice
<1>6. ASSUME NEW k \in 1 .. (i - 1) + m + (n - j)  PROVE p[k] = q[k]
  <2>1. CASE k <= i - 1
    BY <1>4, <1>5, <2>1
  <2>2. CASE i - 1 < k /\ k <= (i - 1) + m
    <3>1. PICK h \in 1 .. m : k = (i - 1) + h
      BY <1>3, <2>2
    <3> QED BY <1>4, <1>5, <3>1
  <2>3. CASE (i - 1) + m < k
    <3>1. PICK h \in j + 1 .. n : k = (i - 1) + m + (h - j)
      <4>1. k - ((i - 1) + m) + j \in j + 1 .. n
        BY <1>3, <2>3
      <4>2. k = (i - 1) + m + ((k - ((i - 1) + m) + j) - j)
        BY <1>3
      <4> QED BY <4>1, <4>2
    <3> QED BY <1>4, <1>5, <3>1
  <2> QED BY <1>3, <2>1, <2>2, <2>3
<1>7. p = q
  BY <1>2, <1>4, <1>5, <1>6, SameElements
<1> QED BY <1>1, <1>7

\* ReplaceAt, RemoveAt and Append are replacements of this kind, and so are the
\* two in a row that split and extendLast make; InsertAt is one as it stands.
LEMMA ReplaceForm ==
    ASSUME NEW S, NEW list \in Seq(S), NEW i \in 1 .. Len(list), NEW e \in S
    PROVE  ReplaceAt(list, i, e) = Splice(list, i, i, <<e>>)
<1>1. PICK p : p = ReplaceAt(list, i, e)
  OBVIOUS
<1>2. PICK one : one = <<e>>
  OBVIOUS
<1>3. one \in Seq(S) /\ Len(one) = 1 /\ one[1] = e
  BY <1>2
<1>4. PICK n \in Nat : n = Len(list)
  OBVIOUS
<1>5. /\ p \in Seq(S) /\ Len(p) = n
      /\ \A k \in 1 .. n : p[k] = IF k = i THEN e ELSE list[k]
  BY <1>1, <1>4 DEF ReplaceAt
<1>6. IsSplice(p, list, i, i, one)
  <2>1. n = (i - 1) + 1 + (n - i) /\ (i - 1) + 1 = i
    BY <1>4
  <2>2. \A k \in 1 .. 1 : p[(i - 1) + k] = one[k]
    BY <1>3, <1>4, <1>5, <2>1
  <2>3. ASSUME NEW k \in i + 1 .. n  PROVE p[(i - 1) + 1 + (k - i)] = list[k]
    <3>1. (i - 1) + 1 + (k - i) = k
      BY <1>4
    <3> QED BY <1>4, <1>5, <3>1
  <2>4. \A k \in 1 .. i - 1 : p[k] = list[k]
    BY <1>4, <1>5
  <2> QED BY <1>3, <1>4, <1>5, <2>1, <2>2, <2>3, <2>4 DEF IsSplice
<1>7. i \in Nat \ {0} /\ i \in Nat /\ i <= i + 1 /\ i <= Len(list)
  BY <1>4
<1>8. p = Splice(list, i, i, one)
  BY <1>3, <1>5, <1>6, <1>7, SpliceUnique
<1> QED BY <1>1, <1>2, <1>8

\* RemoveAt.
LEMMA RemoveForm ==
    ASSUME NEW S, NEW list \in Seq(S), NEW i \in 1 .. Len(list)
    PROVE  RemoveAt(list, i) = Splice(list, i, i, <<>>)
<1>1. PICK pre : pre = SubSeq(list, 1, i - 1)
  OBVIOUS
<1>2. pre \in Seq(S)
  BY <1>1
<1>3. pre \o <<>> = pre
  BY <1>2
<1> QED BY <1>1, <1>3 DEF RemoveAt, Splice

\* One segment replaced by two.
LEMMA SplitForm ==
    ASSUME NEW S, NEW list \in Seq(S), NEW i \in 1 .. Len(list), NEW d \in S, NEW e \in S
    PROVE  InsertAt(ReplaceAt(list, i, d), i + 1, e) = Splice(list, i, i, <<d, e>>)
<1>1. PICK r : r = ReplaceAt(list, i, d)
  OBVIOUS
<1>2. PICK one : one = <<e>>
  OBVIOUS
<1>3. PICK two : two = <<d, e>>
  OBVIOUS
<1>4. one \in Seq(S) /\ Len(one) = 1 /\ one[1] = e
  BY <1>2
<1>5. two \in Seq(S) /\ Len(two) = 2 /\ two[1] = d /\ two[2] = e
  BY <1>3
<1>6. PICK n \in Nat : n = Len(list)
  OBVIOUS
<1>7. /\ r \in Seq(S) /\ Len(r) = n
      /\ \A k \in 1 .. n : r[k] = IF k = i THEN d ELSE list[k]
  BY <1>1, <1>6 DEF ReplaceAt
<1>8. PICK p : p = Splice(r, i + 1, i, one)
  OBVIOUS
<1>9. InsertAt(r, i + 1, e) = p
  BY <1>2, <1>8 DEF InsertAt, Splice
<1>10. p \in Seq(S) /\ IsSplice(p, r, i + 1, i, one)
  <2>1. i + 1 \in Nat \ {0} /\ i \in Nat /\ i + 1 <= i + 1 /\ i <= Len(r)
    BY <1>6, <1>7
  <2> QED BY <1>4, <1>7, <1>8, <2>1, ReplacedElements
<1>11. /\ Len(p) = ((i + 1) - 1) + 1 + (n - i)
       /\ \A k \in 1 .. (i + 1) - 1 : p[k] = r[k]
       /\ \A k \in 1 .. 1 : p[((i + 1) - 1) + k] = one[k]
       /\ \A k \in i + 1 .. n : p[((i + 1) - 1) + 1 + (k - i)] = r[k]
  BY <1>4, <1>7, <1>10 DEF IsSplice
<1>12. IsSplice(p, list, i, i, two)
  <2>1. Len(p) = (i - 1) + 2 + (n - i)
    BY <1>6, <1>11
  <2>2. ASSUME NEW k \in 1 .. i - 1  PROVE p[k] = list[k]
    <3>1. k \in 1 .. (i + 1) - 1 /\ k # i /\ k \in 1 .. n
      BY <1>6
    <3> QED BY <1>7, <1>11, <3>1
  <2>3. p[(i - 1) + 1] = d
    <3>1. (i - 1) + 1 = i /\ i \in 1 .. (i + 1) - 1 /\ i \in 1 .. n
      BY <1>6
    <3> QED BY <1>7, <1>11, <3>1
  <2>4. p[(i - 1) + 2] = e
    <3>1. (i - 1) + 2 = ((i + 1) - 1) + 1 /\ 1 \in 1 .. 1
      BY <1>6
    <3> QED BY <1>4, <1>11, <3>1
  <2>5. ASSUME NEW k \in i + 1 .. n  PROVE p[(i - 1) + 2 + (k - i)] = list[k]
    <3>1. (i - 1) + 2 + (k - i) = ((i + 1) - 1) + 1 + (k - i) /\ k # i /\ k \in 1 .. n
      BY <1>6
    <3> QED BY <1>7, <1>11, <3>1
  <2>6. \A k \in 1 .. 2 : k = 1 \/ k = 2
    OBVIOUS
  <2>7. \A k \in 1 .. 2 : p[(i - 1) + k] = two[k]
    BY <1>5, <2>3, <2>4, <2>6
  <2> QED BY <1>5, <1>6, <2>1, <2>2, <2>5, <2>7 DEF IsSplice
<1>13. i \in Nat \ {0} /\ i \in Nat /\ i <= i + 1 /\ i <= Len(list)
  BY <1>6
<1>14. p = Splice(list, i, i, two)
  BY <1>5, <1>10, <1>12, <1>13, SpliceUnique
<1> QED BY <1>1, <1>3, <1>9, <1>14

\* Two segments replaced by one.
LEMMA MergeForm ==
    ASSUME NEW S, NEW list \in Seq(S), NEW i \in 1 .. Len(list) - 1, NEW e \in S
    PROVE  RemoveAt(ReplaceAt(list, i, e), i + 1) = Splice(list, i, i + 1, <<e>>)
<1>1. PICK r : r = ReplaceAt(list, i, e)
  OBVIOUS
<1>2. PICK one : one = <<e>>
  OBVIOUS
<1>3. PICK none : none = <<>>
  OBVIOUS
<1>4. one \in Seq(S) /\ Len(one) = 1 /\ one[1] = e
  BY <1>2
<1>5. none \in Seq(S) /\ Len(none) = 0
  BY <1>3
<1>6. PICK n \in Nat : n = Len(list)
  OBVIOUS
<1>7. /\ r \in Seq(S) /\ Len(r) = n
      /\ \A k \in 1 .. n : r[k] = IF k = i THEN e ELSE list[k]
  BY <1>1, <1>6 DEF ReplaceAt
<1>8. PICK p : p = Splice(r, i + 1, i + 1, none)
  OBVIOUS
<1>9. RemoveAt(r, i + 1) = p
  <2>1. i + 1 \in 1 .. Len(r)
    BY <1>6, <1>7
  <2> QED BY <1>3, <1>7, <1>8, <2>1, RemoveForm
<1>10. p \in Seq(S) /\ IsSplice(p, r, i + 1, i + 1, none)
  <2>1. i + 1 \in Nat \ {0} /\ i + 1 \in Nat /\ i + 1 <= (i + 1) + 1 /\ i + 1 <= Len(r)
    BY <1>6, <1>7
  <2> QED BY <1>5, <1>7, <1>8, <2>1, ReplacedElements
<1>11. /\ Len(p) = ((i + 1) - 1) + 0 + (n - (i + 1))
       /\ \A k \in 1 .. (i + 1) - 1 : p[k] = r[k]
       /\ \A k \in (i + 1) + 1 .. n : p[((i + 1) - 1) + 0 + (k - (i + 1))] = r[k]
  BY <1>5, <1>7, <1>10 DEF IsSplice
<1>12. IsSplice(p, list, i, i + 1, one)
  <2>1. Len(p) = (i - 1) + 1 + (n - (i + 1))
    BY <1>6, <1>11
  <2>2. ASSUME NEW k \in 1 .. i - 1  PROVE p[k] = list[k]
    <3>1. k \in 1 .. (i + 1) - 1 /\ k \in 1 .. n /\ k # i
      BY <1>6
    <3> QED BY <1>7, <1>11, <3>1
  <2>3. \A k \in 1 .. 1 : p[(i - 1) + k] = one[k]
    <3>1. (i - 1) + 1 = i /\ i \in 1 .. (i + 1) - 1 /\ i \in 1 .. n
      BY <1>6
    <3>2. \A k \in 1 .. 1 : k = 1
      OBVIOUS
    <3> QED BY <1>4, <1>7, <1>11, <3>1, <3>2
  <2>4. ASSUME NEW k \in (i + 1) + 1 .. n  PROVE p[(i - 1) + 1 + (k - (i + 1))] = list[k]
    <3>1. (i - 1) + 1 + (k - (i + 1)) = ((i + 1) - 1) + 0 + (k - (i + 1)) /\ k # i /\ k \in 1 .. n
      BY <1>6
    <3> QED BY <1>7, <1>11, <3>1
  <2> QED BY <1>4, <1>6, <2>1, <2>2, <2>3, <2>4 DEF IsSplice
<1>13. i \in Nat \ {0} /\ i + 1 \in Nat /\ i <= (i + 1) + 1 /\ i + 1 <= Len(list)
  BY <1>6
<1>14. p = Splice(list, i, i + 1, one)
  BY <1>4, <1>10, <1>12, <1>13, SpliceUnique
<1> QED BY <1>1, <1>2, <1>9, <1>14

\* Append.
LEMMA AppendForm ==
    ASSUME NEW S, NEW list \in Seq(S), NEW e \in S
    PROVE  Append(list, e) = Splice(list, Len(list) + 1, Len(list), <<e>>)
<1>1. PICK p : p = Append(list, e)
  OBVIOUS
<1>2. PICK one : one = <<e>>
  OBVIOUS
<1>3. one \in Seq(S) /\ Len(one) = 1 /\ one[1] = e
  BY <1>2
<1>4. PICK n \in Nat : n = Len(list)
  OBVIOUS
<1>5. /\ p \in Seq(S) /\ Len(p) = n + 1 /\ p[n + 1] = e
      /\ \A k \in 1 .. n : p[k] = list[k]
  BY <1>1, <1>4
<1>6. IsSplice(p, list, n + 1, n, one)
  <2>1. Len(p) = ((n + 1) - 1) + 1 + (n - n) /\ ((n + 1) - 1) + 1 = n + 1
    BY <1>5
  <2>2. \A k \in 1 .. 1 : p[((n + 1) - 1) + k] = one[k]
    <3>1. \A k \in 1 .. 1 : k = 1
      OBVIOUS
    <3> QED BY <1>3, <1>5, <2>1, <3>1
  <2>3. \A k \in n + 1 .. n : FALSE
    OBVIOUS
  <2>4. \A k \in 1 .. (n + 1) - 1 : p[k] = list[k]
    BY <1>5
  <2> QED BY <1>3, <1>4, <2>1, <2>2, <2>3, <2>4 DEF IsSplice
<1>7. n + 1 \in Nat \ {0} /\ n \in Nat /\ n + 1 <= n + 1 /\ n <= Len(list)
  BY <1>4
<1>8. p = Splice(list, n + 1, n, one)
  BY <1>3, <1>5, <1>6, <1>7, SpliceUnique
<1> QED BY <1>1, <1>2, <1>4, <1>8

\* Tail.
LEMMA TailForm ==
    ASSUME NEW S, NEW list \in Seq(S), list # <<>>
    PROVE  Tail(list) = Splice(list, 1, 1, <<>>)
<1>1. PICK p : p = Tail(list)
  OBVIOUS
<1>2. PICK none : none = <<>>
  OBVIOUS
<1>3. none \in Seq(S) /\ Len(none) = 0
  BY <1>2
<1>4. PICK n \in Nat : n = Len(list)
  OBVIOUS
<1>5. n >= 1
  BY <1>4
<1>6. /\ p \in Seq(S) /\ Len(p) = n - 1
      /\ \A k \in 1 .. n - 1 : p[k] = list[k + 1]
  BY <1>1, <1>4, <1>5
<1>7. IsSplice(p, list, 1, 1, none)
  <2>1. Len(p) = (1 - 1) + 0 + (n - 1)
    BY <1>4, <1>6
  <2>2. (\A k \in 1 .. 1 - 1 : FALSE) /\ (\A k \in 1 .. 0 : FALSE)
    OBVIOUS
  <2>3. ASSUME NEW k \in 1 + 1 .. n  PROVE p[(1 - 1) + 0 + (k - 1)] = list[k]
    <3>1. PICK h \in 1 .. n - 1 : k = h + 1
      BY <1>4
    <3>2. (1 - 1) + 0 + (k - 1) = h
      BY <3>1
    <3> QED BY <1>6, <3>1, <3>2
  <2> QED BY <1>3, <1>4, <2>1, <2>2, <2>3 DEF IsSplice
<1>8. 1 \in Nat \ {0} /\ 1 \in Nat /\ 1 <= 1 + 1 /\ 1 <= Len(list)
  BY <1>4, <1>5
<1>9. p = Splice(list, 1, 1, none)
  BY <1>3, <1>6, <1>7, <1>8, SpliceUnique
<1> QED BY <1>1, <1>2, <1>9

-----------------------------------------------------------------------------
(* What they do to a list of segments                                       *)

\* A segment of a good list.
LEMMA SegmentAt ==
    ASSUME NEW list, Good(list), NEW i \in 1 .. Len(list)
    PROVE  /\ list[i] \in Segments /\ list[i].first \in Int /\ list[i].last \in Int
           /\ list[i].first <= list[i].last
           /\ \A v \in list[i].first .. list[i].last : v \in SegValues(list)
<1>1. list \in Seq(Segments) /\ list[i].first <= list[i].last
  BY DEF Good
<1>2. list[i] \in Segments
  BY <1>1
<1>3. list[i].first \in Int /\ list[i].last \in Int
  BY <1>2 DEF Segments
<1> QED BY <1>1, <1>2, <1>3, ValuesOf

\* The values of one segment.
Vals(s) == s.first .. s.last

\* Inserting, replacing one segment, replacing two.
LEMMA InsertGood ==
    ASSUME NEW list, Good(list), NEW i \in Nat \ {0}, i <= Len(list) + 1,
           NEW mid, Good(mid), SegValues(mid) \cap SegValues(list) = {}
    PROVE  /\ Good(Splice(list, i, i - 1, mid))
           /\ SegValues(Splice(list, i, i - 1, mid)) = SegValues(list) \cup SegValues(mid)
<1>1. Len(list) \in Nat
  BY DEF Good
<1>2. i - 1 \in Nat /\ i <= (i - 1) + 1 /\ i - 1 <= Len(list)
  BY <1>1
<1>3. PICK gone : gone = ValuesAt(list, i, i - 1)
  OBVIOUS
<1>4. gone = {}
  <2>1. \A k \in i .. i - 1 : FALSE
    OBVIOUS
  <2> QED BY <1>3, <2>1 DEF ValuesAt
<1>5. SegValues(list) \ gone = SegValues(list) /\ SegValues(mid) \cap (SegValues(list) \ gone) = {}
  BY <1>4
<1>6. PICK new : new = Splice(list, i, i - 1, mid)
  OBVIOUS
<1>7. Good(new) /\ SegValues(new) = (SegValues(list) \ gone) \cup SegValues(mid)
  BY <1>2, <1>3, <1>5, <1>6, Surgery
<1> QED BY <1>5, <1>6, <1>7

\* The values of two neighbours.
LEMMA ValuesAtTwo ==
    ASSUME NEW list, NEW i \in Nat
    PROVE  ValuesAt(list, i, i + 1) = Vals(list[i]) \cup Vals(list[i + 1])
<1>1. \A k \in i .. i + 1 : k = i \/ k = i + 1
  OBVIOUS
<1>2. i \in i .. i + 1 /\ i + 1 \in i .. i + 1
  OBVIOUS
<1>3. \A v : v \in ValuesAt(list, i, i + 1) <=> v \in Vals(list[i]) \cup Vals(list[i + 1])
  BY <1>1, <1>2 DEF ValuesAt, Vals
<1> QED BY <1>3

\* One segment gives way to a list.
LEMMA ReplaceGood ==
    ASSUME NEW list, Good(list), NEW i \in 1 .. Len(list),
           NEW mid, Good(mid), SegValues(mid) \cap (SegValues(list) \ Vals(list[i])) = {}
    PROVE  /\ Good(Splice(list, i, i, mid))
           /\ SegValues(Splice(list, i, i, mid)) = (SegValues(list) \ Vals(list[i])) \cup SegValues(mid)
<1>1. Len(list) \in Nat
  BY DEF Good
<1>2. PICK j \in Nat : j = i
  BY <1>1
<1>3. i \in Nat \ {0} /\ i <= j + 1 /\ j <= Len(list)
  BY <1>1, <1>2
<1>4. /\ \A k \in i .. j : k = i
      /\ i \in i .. j
  BY <1>2
<1>5. Vals(list[i]) = ValuesAt(list, i, j)
  <2>1. \A v : v \in ValuesAt(list, i, j) <=> v \in Vals(list[i])
    BY <1>4 DEF ValuesAt, Vals
  <2> QED BY <2>1
<1>6. PICK new, lost : new = Splice(list, i, j, mid) /\ lost = ValuesAt(list, i, j)
  OBVIOUS
<1>7. SegValues(mid) \cap (SegValues(list) \ lost) = {}
  BY <1>5, <1>6
<1>8. Good(new) /\ SegValues(new) = (SegValues(list) \ lost) \cup SegValues(mid)
  BY <1>3, <1>6, <1>7, Surgery
<1> QED BY <1>2, <1>5, <1>6, <1>8

\* Two neighbours give way to a list.
LEMMA MergeGood ==
    ASSUME NEW list, Good(list), NEW i \in 1 .. Len(list) - 1, NEW mid, Good(mid),
           SegValues(mid) \cap (SegValues(list) \ ValuesAt(list, i, i + 1)) = {}
    PROVE  /\ Good(Splice(list, i, i + 1, mid))
           /\ SegValues(Splice(list, i, i + 1, mid))
                = (SegValues(list) \ ValuesAt(list, i, i + 1)) \cup SegValues(mid)
<1>1. Len(list) \in Nat
  BY DEF Good
<1>2. i \in Nat \ {0} /\ i + 1 \in Nat /\ i <= (i + 1) + 1 /\ i + 1 <= Len(list)
  BY <1>1
<1>3. PICK new, lost : new = Splice(list, i, i + 1, mid) /\ lost = ValuesAt(list, i, i + 1)
  OBVIOUS
<1>4. SegValues(mid) \cap (SegValues(list) \ lost) = {}
  BY <1>3
<1>5. Good(new) /\ SegValues(new) = (SegValues(list) \ lost) \cup SegValues(mid)
  BY <1>2, <1>3, <1>4, Surgery
<1> QED BY <1>3, <1>5

\* Allocate takes the first value of the head out of the list.
LEMMA AllocateGood ==
    ASSUME NEW list, Good(list), list # <<>>
    PROVE  /\ Head(list).first \in SegValues(list)
           /\ Good(AllocateFrom(list))
           /\ SegValues(AllocateFrom(list)) = SegValues(list) \ {Head(list).first}
<1>0. list \in Seq(Segments) /\ Len(list) \in Nat /\ Len(list) >= 1
  BY DEF Good
<1>1. 1 \in 1 .. Len(list) /\ Head(list) = list[1]
  BY <1>0
<1>2. PICK f \in Int, l \in Int : f = list[1].first /\ l = list[1].last /\ f <= l
  BY <1>1, SegmentAt
<1>3. list[1] = Seg(f, l) /\ \A v \in f .. l : v \in SegValues(list)
  BY <1>1, <1>2, SegmentAt DEF Seg, Segments
<1>4. PICK gone : gone = Vals(list[1])
  OBVIOUS
<1>5. gone = f .. l /\ f \in gone /\ gone \subseteq SegValues(list)
  BY <1>2, <1>3, <1>4 DEF Vals
<1>6. CASE f + 1 > l
  <2>1. AllocateFrom(list) = Splice(list, 1, 1, <<>>)
    BY <1>0, <1>1, <1>2, <1>6, TailForm DEF AllocateFrom
  <2>2. gone = {f}
    BY <1>2, <1>5, <1>6
  <2>3. Good(Splice(list, 1, 1, <<>>))
        /\ SegValues(Splice(list, 1, 1, <<>>)) = (SegValues(list) \ gone) \cup SegValues(<<>>)
    <3>1. PICK mid : mid = <<>>
      OBVIOUS
    <3>2. Good(mid) /\ SegValues(mid) \cap (SegValues(list) \ gone) = {}
      BY <3>1, EmptyList
    <3>3. Good(Splice(list, 1, 1, mid))
          /\ SegValues(Splice(list, 1, 1, mid)) = (SegValues(list) \ gone) \cup SegValues(mid)
      BY <1>1, <1>4, <3>2, ReplaceGood
    <3> QED BY <3>1, <3>3
  <2> QED BY <1>1, <1>2, <1>5, <2>1, <2>2, <2>3, EmptyList
<1>7. CASE ~(f + 1 > l)
  <2>1. PICK e : e = Seg(f + 1, l)
    OBVIOUS
  <2>2. [Head(list) EXCEPT !.first = @ + 1] = e
    BY <1>1, <1>3, <2>1 DEF Seg
  <2>3. e \in Segments
    BY <2>1 DEF Seg, Segments
  <2>4. AllocateFrom(list) = Splice(list, 1, 1, <<e>>)
    BY <1>0, <1>1, <1>2, <1>7, <2>2, <2>3, ReplaceForm DEF AllocateFrom
  <2>5. Good(<<e>>) /\ SegValues(<<e>>) = f + 1 .. l
    BY <1>7, <2>1, OneSegment
  <2>6. f + 1 .. l = gone \ {f}
    BY <1>5
  <2>7. Good(Splice(list, 1, 1, <<e>>))
        /\ SegValues(Splice(list, 1, 1, <<e>>)) = (SegValues(list) \ gone) \cup SegValues(<<e>>)
    <3>1. PICK mid : mid = <<e>>
      OBVIOUS
    <3>2. Good(mid) /\ SegValues(mid) \cap (SegValues(list) \ gone) = {}
      BY <2>5, <2>6, <3>1
    <3>3. Good(Splice(list, 1, 1, mid))
          /\ SegValues(Splice(list, 1, 1, mid)) = (SegValues(list) \ gone) \cup SegValues(mid)
      BY <1>1, <1>4, <3>2, ReplaceGood
    <3> QED BY <3>1, <3>3
  <2> QED BY <1>1, <1>2, <1>5, <2>4, <2>5, <2>6, <2>7
<1> QED BY <1>6, <1>7

\* Use takes the value out of the segment that has it.
LEMMA UseGood ==
    ASSUME NEW list, Good(list), NEW i \in 1 .. Len(list), NEW v \in list[i].first .. list[i].last
    PROVE  Good(UseFrom(list, i, v)) /\ SegValues(UseFrom(list, i, v)) = SegValues(list) \ {v}
<1>0. list \in Seq(Segments)
  BY DEF Good
<1>1. PICK f \in Int, l \in Int : f = list[i].first /\ l = list[i].last /\ f <= l
  BY SegmentAt
<1>2. PICK gone : gone = Vals(list[i])
  OBVIOUS
<1>3. gone = f .. l /\ v \in gone /\ v \in Int /\ f <= v /\ v <= l
  BY <1>1, <1>2 DEF Vals
<1>4. gone \subseteq SegValues(list)
  BY <1>2, SegmentAt DEF Vals
<1>5. PICK new : new = UseFrom(list, i, v)
  OBVIOUS
<1>6. ASSUME NEW mid, new = Splice(list, i, i, mid), Good(mid), SegValues(mid) = gone \ {v}
      PROVE  Good(new) /\ SegValues(new) = SegValues(list) \ {v}
  <2>1. SegValues(mid) \cap (SegValues(list) \ gone) = {}
    BY <1>6
  <2>2. Good(new) /\ SegValues(new) = (SegValues(list) \ gone) \cup SegValues(mid)
    BY <1>2, <1>6, <2>1, ReplaceGood
  <2> QED BY <1>3, <1>4, <1>6, <2>2
<1>7. CASE f = l
  <2>1. new = Splice(list, i, i, <<>>)
    BY <1>0, <1>1, <1>5, <1>7, RemoveForm DEF UseFrom
  <2>2. gone \ {v} = {}
    BY <1>3, <1>7
  <2> QED BY <1>5, <1>6, <2>1, <2>2, EmptyList
<1>8. CASE f # l /\ v = f
  <2>1. PICK e : e = Seg(f + 1, l)
    OBVIOUS
  <2>2. e \in Segments
    BY <2>1 DEF Seg, Segments
  <2>3. new = Splice(list, i, i, <<e>>)
    BY <1>0, <1>1, <1>5, <1>8, <2>1, <2>2, ReplaceForm DEF UseFrom, split
  <2>4. f + 1 <= l /\ f + 1 .. l = gone \ {v}
    BY <1>1, <1>3, <1>8
  <2>5. Good(<<e>>) /\ SegValues(<<e>>) = gone \ {v}
    BY <2>1, <2>4, OneSegment
  <2> QED BY <1>5, <1>6, <2>3, <2>5
<1>9. CASE f # l /\ v # f /\ v = l
  <2>1. PICK e : e = Seg(f, l - 1)
    OBVIOUS
  <2>2. e \in Segments
    BY <2>1 DEF Seg, Segments
  <2>3. new = Splice(list, i, i, <<e>>)
    BY <1>0, <1>1, <1>5, <1>9, <2>1, <2>2, ReplaceForm DEF UseFrom, split
  <2>4. f <= l - 1 /\ f .. l - 1 = gone \ {v}
    BY <1>1, <1>3, <1>9
  <2>5. Good(<<e>>) /\ SegValues(<<e>>) = gone \ {v}
    BY <2>1, <2>4, OneSegment
  <2> QED BY <1>5, <1>6, <2>3, <2>5
<1>10. CASE f # l /\ v # f /\ v # l
  <2>1. PICK d, e : d = Seg(f, v - 1) /\ e = Seg(v + 1, l)
    OBVIOUS
  <2>2. d \in Segments /\ e \in Segments
    BY <1>3, <2>1 DEF Seg, Segments
  <2>3. new = Splice(list, i, i, <<d, e>>)
    BY <1>0, <1>1, <1>5, <1>10, <2>1, <2>2, SplitForm DEF UseFrom, split
  <2>4. f <= v - 1 /\ v + 1 <= l /\ (f .. v - 1) \cap (v + 1 .. l) = {}
        /\ (f .. v - 1) \cup (v + 1 .. l) = gone \ {v}
    BY <1>1, <1>3, <1>10
  <2>5. Good(<<d>>) /\ SegValues(<<d>>) = f .. v - 1
    BY <1>3, <2>1, <2>4, OneSegment
  <2>6. Good(<<e>>) /\ SegValues(<<e>>) = v + 1 .. l
    BY <1>3, <2>1, <2>4, OneSegment
  <2>7. <<d>> \o <<e>> = <<d, e>> /\ <<d>> \in Seq(Segments) /\ <<e>> \in Seq(Segments)
    <3>1. <<d>> \in Seq(Segments) /\ <<e>> \in Seq(Segments)
      BY <2>2
    <3>2. <<d>> \o <<e>> = <<d, e>>
      BY <2>2, PairOf
    <3> QED BY <3>1, <3>2
  <2>8. Good(<<d, e>>)
    <3>1. SegValues(<<d>>) \cap SegValues(<<e>>) = {}
      BY <2>4, <2>5, <2>6
    <3>2. Good(<<d>> \o <<e>>)
      BY <2>5, <2>6, <3>1, JoinGood
    <3> QED BY <2>7, <3>2
  <2>9. SegValues(<<d, e>>) = gone \ {v}
    <3>1. SegValues(<<d>> \o <<e>>) = SegValues(<<d>>) \cup SegValues(<<e>>)
      BY <2>7, JoinValues
    <3> QED BY <2>4, <2>5, <2>6, <2>7, <3>1
  <2> QED BY <1>5, <1>6, <2>3, <2>8, <2>9
<1> QED BY <1>7, <1>8, <1>9, <1>10

\* A set of natural numbers has a least one, which Min finds.
LEMMA LeastNatural ==
    ASSUME NEW S, S \subseteq Nat, S # {}
    PROVE  /\ \E x \in S : \A y \in S : x <= y
           /\ Min(S) \in S
<1> DEFINE R == OpToRel(<, Nat)
<1>1. IsWellFoundedOn(R, Nat)
  BY NatLessThanWellFounded
<1>2. \A x, y \in Nat : ~(<<y, x>> \in R) => x <= y
  BY DEF OpToRel
<1> HIDE DEF R
<1>3. \E x \in S : \A y \in S : ~(<<y, x>> \in R)
  BY <1>1, WFMin
<1>4. \E x \in S : \A y \in S : x <= y
  BY <1>2, <1>3
<1>5. Min(S) \in S
  BY <1>4 DEF Min
<1> QED BY <1>4, <1>5

\* relativePosisionOf says where a value lies.
LEMMA PositionOf ==
    ASSUME NEW s \in Segments, s.first <= s.last, NEW v \in Int
    PROVE  /\ relativePosisionOf(s, v) = "withinThisSegment" <=> v \in Vals(s)
           /\ relativePosisionOf(s, v) = "adjacentToTheFront" <=> v = s.first - 1
           /\ relativePosisionOf(s, v) = "adjacentToTheBack" <=> v = s.last + 1
           /\ relativePosisionOf(s, v) \in {"before", "adjacentToTheFront", "withinThisSegment",
                                            "adjacentToTheBack", "after"}
<1>1. PICK f \in Int, l \in Int : f = s.first /\ l = s.last /\ f <= l
  BY DEF Segments
<1>2. CASE v < f - 1
  BY <1>1, <1>2 DEF relativePosisionOf, Vals
<1>3. CASE v = f - 1
  BY <1>1, <1>3 DEF relativePosisionOf, Vals
<1>4. CASE f <= v /\ v <= l
  BY <1>1, <1>4 DEF relativePosisionOf, Vals
<1>5. CASE v = l + 1
  BY <1>1, <1>5 DEF relativePosisionOf, Vals
<1>6. CASE v > l + 1
  BY <1>1, <1>6 DEF relativePosisionOf, Vals
<1> QED BY <1>1, <1>2, <1>3, <1>4, <1>5, <1>6

\* Use finds the segment of a value, if one has it.
LEMMA SegmentOfFound ==
    ASSUME NEW list, Good(list), NEW v \in Int
    PROVE  /\ SegmentOf(list, v) = 0 <=> v \notin SegValues(list)
           /\ SegmentOf(list, v) # 0 => /\ SegmentOf(list, v) \in 1 .. Len(list)
                                        /\ v \in Vals(list[SegmentOf(list, v)])
<1>0. list \in Seq(Segments) /\ Len(list) \in Nat
  BY DEF Good
<1> DEFINE I == {i \in 1 .. Len(list) : relativePosisionOf(list[i], v) = "withinThisSegment"}
<1>1. SegmentOf(list, v) = IF I # {} THEN Min(I) ELSE 0
  BY DEF SegmentOf, SelectInSeq
<1>2. \A i \in 1 .. Len(list) : i \in I <=> v \in Vals(list[i])
  BY SegmentAt, PositionOf
<1>3. I \subseteq 1 .. Len(list)
  OBVIOUS
<1> HIDE DEF I
<1>4. I # {} <=> v \in SegValues(list)
  <2>1. v \in SegValues(list) <=> \E i \in 1 .. Len(list) : v \in Vals(list[i])
    BY <1>0, ValuesOf DEF Vals
  <2> QED BY <1>2, <1>3, <2>1
<1>5. I \subseteq Nat /\ 0 \notin I
  BY <1>0, <1>3
<1>6. I # {} => Min(I) \in I
  BY <1>5, LeastNatural
<1> QED BY <1>1, <1>2, <1>3, <1>4, <1>5, <1>6

\* extendLast: the value behind the i-th segment joins it, and the next
\* segment too if the two now meet.
LEMMA ExtendGood ==
    ASSUME NEW list, Good(list), NEW i \in 1 .. Len(list), NEW v, v = list[i].last + 1,
           v \notin SegValues(list)
    PROVE  /\ Good(extendLast(list, i))
           /\ SegValues(extendLast(list, i)) = SegValues(list) \cup {v}
<1>0. list \in Seq(Segments) /\ Len(list) \in Nat
  BY DEF Good
<1>1. PICK f \in Int, l \in Int : f = list[i].first /\ l = list[i].last /\ f <= l
  BY SegmentAt
<1>2. v = l + 1 /\ v \in Int /\ Vals(list[i]) = f .. l /\ Vals(list[i]) \subseteq SegValues(list)
  BY <1>1, SegmentAt DEF Vals
<1>3. PICK new : new = extendLast(list, i)
  OBVIOUS
<1>4. Seg(f, l + 1).first = f /\ Seg(f, l + 1).last = l + 1
  BY DEF Seg
<1>5. new = IF i < Len(list) /\ (l + 1) + 1 = list[i + 1].first
            THEN RemoveAt(ReplaceAt(list, i, Seg(f, list[i + 1].last)), i + 1)
            ELSE ReplaceAt(list, i, Seg(f, l + 1))
  BY <1>1, <1>3, <1>4 DEF extendLast
<1>6. CASE i < Len(list) /\ (l + 1) + 1 = list[i + 1].first
  <2>1. i \in 1 .. Len(list) - 1 /\ i + 1 \in 1 .. Len(list)
    BY <1>0, <1>6
  <2>2. PICK m \in Int : m = list[i + 1].last /\ (l + 1) + 1 <= m
    BY <1>6, <2>1, SegmentAt
  <2>3. Vals(list[i + 1]) = (l + 1) + 1 .. m /\ Vals(list[i + 1]) \subseteq SegValues(list)
    BY <1>6, <2>1, <2>2, SegmentAt DEF Vals
  <2>4. PICK e : e = Seg(f, m)
    OBVIOUS
  <2>5. e \in Segments
    BY <2>4 DEF Seg, Segments
  <2>6. new = Splice(list, i, i + 1, <<e>>)
    BY <1>0, <1>5, <1>6, <2>1, <2>2, <2>4, <2>5, MergeForm
  <2>7. PICK mid : mid = <<e>>
    OBVIOUS
  <2>8. Good(mid) /\ SegValues(mid) = f .. m
    <3>1. f <= l /\ (l + 1) + 1 <= m
      BY <1>1, <2>2
    <3>2. f <= m
      BY <3>1
    <3> QED BY <2>4, <2>7, <3>2, OneSegment
  <2>9. PICK gone : gone = ValuesAt(list, i, i + 1)
    OBVIOUS
  <2>10. f .. m = gone \cup {v} /\ gone \subseteq SegValues(list)
    <3>1. f .. m = (f .. l) \cup ((l + 1) + 1 .. m) \cup {l + 1}
      <4>1. f <= l /\ (l + 1) + 1 <= m
        BY <1>1, <2>2
      <4> QED BY <4>1
    <3>2. gone = Vals(list[i]) \cup Vals(list[i + 1])
      BY <2>1, <2>9, ValuesAtTwo
    <3> QED BY <1>2, <2>3, <3>1, <3>2
  <2>11. SegValues(mid) \cap (SegValues(list) \ gone) = {}
    BY <2>8, <2>10
  <2>12. Good(new) /\ SegValues(new) = (SegValues(list) \ gone) \cup SegValues(mid)
    <3>1. Good(mid)
      BY <2>8
    <3>2. /\ Good(Splice(list, i, i + 1, mid))
          /\ SegValues(Splice(list, i, i + 1, mid)) = (SegValues(list) \ gone) \cup SegValues(mid)
      BY <2>1, <2>9, <2>11, <3>1, MergeGood
    <3> QED BY <2>6, <2>7, <3>2
  <2> QED BY <1>3, <2>8, <2>10, <2>12
<1>7. CASE ~(i < Len(list) /\ (l + 1) + 1 = list[i + 1].first)
  <2>1. PICK e : e = Seg(f, l + 1)
    OBVIOUS
  <2>2. e \in Segments
    BY <2>1 DEF Seg, Segments
  <2>3. new = Splice(list, i, i, <<e>>)
    BY <1>0, <1>5, <1>7, <2>1, <2>2, ReplaceForm
  <2>4. PICK mid : mid = <<e>>
    OBVIOUS
  <2>5. Good(mid) /\ SegValues(mid) = f .. l + 1
    <3>1. f <= l + 1 /\ l + 1 \in Int
      BY <1>1
    <3> QED BY <2>1, <2>4, <3>1, OneSegment
  <2>6. f .. l + 1 = Vals(list[i]) \cup {v}
    BY <1>1, <1>2
  <2>7. SegValues(mid) \cap (SegValues(list) \ Vals(list[i])) = {}
    BY <2>5, <2>6
  <2>8. Good(new) /\ SegValues(new) = (SegValues(list) \ Vals(list[i])) \cup SegValues(mid)
    BY <2>3, <2>4, <2>5, <2>7, ReplaceGood
  <2> QED BY <1>2, <1>3, <2>5, <2>6, <2>8
<1> QED BY <1>6, <1>7

\* The loop of Free stops at a segment after the head.
LEMMA StopAfterHead ==
    ASSUME NEW list, Good(list), Len(list) >= 2, NEW v
    PROVE  StopOf(list, v) \in 2 .. Len(list)
<1>0. list \in Seq(Segments) /\ Len(list) \in Nat
  BY DEF Good
<1>1. PICK i : i = StopOf(list, v)
  OBVIOUS
<1> DEFINE I == {k \in 2 .. Len(list) : relativePosisionOf(list[k], v) # "after"}
<1>2. i = IF I = {} THEN Len(list) ELSE Min(I)
  <2>1. SelectInSubSeq(list, 2, Len(list), LAMBDA s : relativePosisionOf(s, v) # "after")
          = IF I # {} THEN Min(I) ELSE 0
    BY DEF SelectInSubSeq
  <2>2. I # {} => Min(I) # 0
    <3>1. I \subseteq Nat /\ 0 \notin I
      BY <1>0
    <3> HIDE DEF I
    <3> QED BY <3>1, LeastNatural
  <2> QED BY <1>1, <2>1, <2>2 DEF StopOf
<1>3. I \subseteq Nat /\ I \subseteq 2 .. Len(list)
  BY <1>0
<1> HIDE DEF I
<1>4. I # {} => Min(I) \in I
  BY <1>3, LeastNatural
<1>5. Len(list) \in 2 .. Len(list)
  BY <1>0
<1> QED BY <1>1, <1>2, <1>3, <1>4, <1>5

\* Free puts a value that no segment has into the list, and only it.
LEMMA FreeGood ==
    ASSUME NEW list, Good(list), NEW v \in Int, v \notin SegValues(list)
    PROVE  Good(FreeInto(list, v)) /\ SegValues(FreeInto(list, v)) = SegValues(list) \cup {v}
<1>0. list \in Seq(Segments) /\ Len(list) \in Nat
  BY DEF Good
<1>1. PICK e : e = newSingleSegment(v)
  OBVIOUS
<1>2. PICK mid : mid = <<e>>
  OBVIOUS
<1>3. e \in Segments /\ e = Seg(v, v)
  BY <1>1 DEF newSingleSegment, Seg, Segments
<1>4. Good(mid) /\ SegValues(mid) = {v}
  <2>1. Good(mid) /\ SegValues(mid) = v .. v
    BY <1>2, <1>3, OneSegment
  <2>2. v .. v = {v}
    OBVIOUS
  <2> QED BY <2>1, <2>2
<1>5. SegValues(mid) \cap SegValues(list) = {}
  BY <1>4
<1>6. ASSUME NEW i \in Nat \ {0}, i <= Len(list) + 1
      PROVE  /\ Good(InsertAt(list, i, e))
             /\ SegValues(InsertAt(list, i, e)) = SegValues(list) \cup {v}
  <2>1. InsertAt(list, i, e) = Splice(list, i, i - 1, mid)
    <3>1. (i - 1) + 1 = i
      OBVIOUS
    <3> QED BY <1>2, <3>1 DEF InsertAt, Splice
  <2> QED BY <1>4, <1>5, <1>6, <2>1, InsertGood
<1>7. Good(Append(list, e)) /\ SegValues(Append(list, e)) = SegValues(list) \cup {v}
  <2>1. PICK i \in Nat \ {0} : i = Len(list) + 1
    BY <1>0
  <2>2. i - 1 = Len(list) /\ i <= Len(list) + 1
    BY <1>0, <2>1
  <2>3. Append(list, e) = Splice(list, i, i - 1, mid)
    BY <1>0, <1>2, <1>3, <2>1, <2>2, AppendForm
  <2> QED BY <1>4, <1>5, <2>2, <2>3, InsertGood
<1>8. ASSUME NEW i \in 1 .. Len(list), relativePosisionOf(list[i], v) = "adjacentToTheFront"
      PROVE  /\ Good(ReplaceAt(list, i, Seg(v, list[i].last)))
             /\ SegValues(ReplaceAt(list, i, Seg(v, list[i].last))) = SegValues(list) \cup {v}
  <2>1. PICK f \in Int, l \in Int : f = list[i].first /\ l = list[i].last /\ f <= l
    BY SegmentAt
  <2>2. v = f - 1 /\ Vals(list[i]) = f .. l /\ Vals(list[i]) \subseteq SegValues(list)
    BY <1>8, <2>1, SegmentAt, PositionOf DEF Vals
  <2>3. PICK d : d = Seg(v, l)
    OBVIOUS
  <2>4. d \in Segments
    BY <2>3 DEF Seg, Segments
  <2>5. PICK one : one = <<d>>
    OBVIOUS
  <2>6. ReplaceAt(list, i, Seg(v, list[i].last)) = Splice(list, i, i, one)
    BY <1>0, <2>1, <2>3, <2>4, <2>5, ReplaceForm
  <2>7. Good(one) /\ SegValues(one) = v .. l
    <3>1. v <= l
      BY <2>1, <2>2
    <3> QED BY <2>3, <2>5, <3>1, OneSegment
  <2>8. v .. l = Vals(list[i]) \cup {v}
    BY <2>1, <2>2
  <2>9. SegValues(one) \cap (SegValues(list) \ Vals(list[i])) = {}
    BY <2>7, <2>8
  <2>10. /\ Good(Splice(list, i, i, one))
         /\ SegValues(Splice(list, i, i, one)) = (SegValues(list) \ Vals(list[i])) \cup SegValues(one)
    BY <2>7, <2>9, ReplaceGood
  <2> QED BY <2>2, <2>6, <2>7, <2>8, <2>10
<1>9. ASSUME NEW i \in 1 .. Len(list), relativePosisionOf(list[i], v) = "adjacentToTheBack"
      PROVE  /\ Good(extendLast(list, i))
             /\ SegValues(extendLast(list, i)) = SegValues(list) \cup {v}
  BY <1>9, SegmentAt, PositionOf, ExtendGood
<1>10. ASSUME NEW i \in 1 .. Len(list)
       PROVE  /\ relativePosisionOf(list[i], v) # "withinThisSegment"
              /\ relativePosisionOf(list[i], v) \in
                   {"before", "adjacentToTheFront", "adjacentToTheBack", "after"}
  BY SegmentAt, PositionOf DEF Vals
<1>11. CASE list = <<>>
  <2>1. FreeInto(list, v) = mid
    BY <1>1, <1>2, <1>11 DEF FreeInto
  <2>2. SegValues(list) = {}
    BY <1>11, EmptyList
  <2> QED BY <1>4, <2>1, <2>2
<1>12. CASE list # <<>>
  <2>1. Len(list) >= 1 /\ 1 \in 1 .. Len(list) /\ Head(list) = list[1]
    BY <1>0, <1>12
  <2>2. relativePosisionOf(Head(list), v) # "withinThisSegment"
    BY <1>10, <2>1
  <2>3. CASE relativePosisionOf(Head(list), v) = "adjacentToTheBack"
    <3>1. FreeInto(list, v) = extendLast(list, 1)
      BY <1>12, <2>2, <2>3 DEF FreeInto
    <3> QED BY <1>9, <2>1, <2>3, <3>1
  <2>4. CASE relativePosisionOf(Head(list), v) # "adjacentToTheBack" /\ Len(list) = 1
    <3>1. FreeInto(list, v) = Append(list, e)
      BY <1>1, <1>12, <2>2, <2>4 DEF FreeInto
    <3> QED BY <1>7, <3>1
  <2>5. CASE relativePosisionOf(Head(list), v) # "adjacentToTheBack" /\ Len(list) # 1
    <3>1. PICK i : i = StopOf(list, v)
      OBVIOUS
    <3>2. i \in 1 .. Len(list)
      <4>0. \A n \in Nat : n >= 1 /\ n # 1 => n >= 2
        OBVIOUS
      <4>1. Len(list) >= 2
        BY <1>0, <2>1, <2>5, <4>0
      <4>2. i \in 2 .. Len(list)
        BY <3>1, <4>1, StopAfterHead
      <4> QED BY <1>0, <4>2
    <3>3. PICK pos : pos = relativePosisionOf(list[i], v)
      OBVIOUS
    <3>4. FreeInto(list, v) =
            CASE pos = "before"             -> InsertAt(list, i, e)
              [] pos = "adjacentToTheFront" -> ReplaceAt(list, i, Seg(v, list[i].last))
              [] pos = "withinThisSegment"  -> list
              [] pos = "adjacentToTheBack"  -> extendLast(list, i)
              [] pos = "after"              -> Append(list, e)
      BY <1>1, <1>12, <2>2, <2>5, <3>1, <3>3 DEF FreeInto
    <3>5. pos \in {"before", "adjacentToTheFront", "adjacentToTheBack", "after"}
      BY <1>10, <3>2, <3>3
    <3>6. CASE pos = "before"
      <4>1. i \in Nat \ {0} /\ i <= Len(list) + 1
        BY <1>0, <3>2
      <4>2. FreeInto(list, v) = InsertAt(list, i, e)
        BY <3>4, <3>6
      <4> QED BY <1>6, <4>1, <4>2
    <3>7. CASE pos = "adjacentToTheFront"
      <4>1. FreeInto(list, v) = ReplaceAt(list, i, Seg(v, list[i].last))
        BY <3>4, <3>7
      <4> QED BY <1>8, <3>2, <3>3, <3>7, <4>1
    <3>8. CASE pos = "adjacentToTheBack"
      <4>1. FreeInto(list, v) = extendLast(list, i)
        BY <3>4, <3>8
      <4> QED BY <1>9, <3>2, <3>3, <3>8, <4>1
    <3>9. CASE pos = "after"
      <4>1. FreeInto(list, v) = Append(list, e)
        BY <3>4, <3>9
      <4> QED BY <1>7, <4>1
    <3> QED BY <3>5, <3>6, <3>7, <3>8, <3>9
  <2> QED BY <2>3, <2>4, <2>5
<1> QED BY <1>11, <1>12

-----------------------------------------------------------------------------
(* Reserve, segment by segment                                              *)

\* What is left of one segment: its values outside the range.
LEMMA TrimGood ==
    ASSUME NEW s \in Segments, s.first <= s.last, NEW a \in Int, NEW b \in Int, a <= b
    PROVE  Good(Trim(s, a, b)) /\ SegValues(Trim(s, a, b)) = Vals(s) \ (a .. b)
<1>1. PICK f \in Int, l \in Int : f = s.first /\ l = s.last /\ f <= l
  BY DEF Segments
<1>2. s = Seg(f, l)
  BY <1>1 DEF Segments, Seg
<1>3. Vals(s) = f .. l
  BY <1>1 DEF Vals
<1>4. CASE a <= f /\ f <= b /\ b < l
  <2>1. Trim(s, a, b) = <<Seg(b + 1, l)>>
    BY <1>1, <1>4 DEF Trim
  <2>2. Good(<<Seg(b + 1, l)>>) /\ SegValues(<<Seg(b + 1, l)>>) = (b + 1) .. l
    BY <1>1, <1>4, OneSegment
  <2>3. (b + 1) .. l = (f .. l) \ (a .. b)
    BY <1>1, <1>4
  <2> QED BY <1>3, <2>1, <2>2, <2>3
<1>5. CASE f < a /\ a <= l /\ l <= b
  <2>1. Trim(s, a, b) = <<Seg(f, a - 1)>>
    BY <1>1, <1>5 DEF Trim
  <2>2. Good(<<Seg(f, a - 1)>>) /\ SegValues(<<Seg(f, a - 1)>>) = f .. (a - 1)
    BY <1>1, <1>5, OneSegment
  <2>3. f .. (a - 1) = (f .. l) \ (a .. b)
    BY <1>1, <1>5
  <2> QED BY <1>3, <2>1, <2>2, <2>3
<1>6. CASE f < a /\ b < l
  <2>1. PICK p : p = <<Seg(f, a - 1)>>
    OBVIOUS
  <2>2. PICK q : q = <<Seg(b + 1, l)>>
    OBVIOUS
  <2>3. Trim(s, a, b) = p \o q
    <3>1. Trim(s, a, b) = <<Seg(f, a - 1), Seg(b + 1, l)>>
      BY <1>1, <1>6 DEF Trim
    <3> QED BY <2>1, <2>2, <3>1
  <2>4. Good(p) /\ SegValues(p) = f .. (a - 1)
    BY <1>6, <2>1, OneSegment
  <2>5. Good(q) /\ SegValues(q) = (b + 1) .. l
    BY <1>6, <2>2, OneSegment
  <2>6. (f .. (a - 1)) \cap ((b + 1) .. l) = {}
    BY <1>6
  <2>7. Good(p \o q)
    BY <2>4, <2>5, <2>6, JoinGood
  <2>8. SegValues(p \o q) = SegValues(p) \cup SegValues(q)
    BY <2>4, <2>5, JoinValues DEF Good
  <2>9. (f .. (a - 1)) \cup ((b + 1) .. l) = (f .. l) \ (a .. b)
    BY <1>6
  <2> QED BY <1>3, <2>3, <2>4, <2>5, <2>7, <2>8, <2>9
<1>7. CASE a <= f /\ l <= b
  <2>1. Trim(s, a, b) = <<>>
    BY <1>1, <1>7 DEF Trim
  <2>2. (f .. l) \ (a .. b) = {}
    BY <1>1, <1>7
  <2> QED BY <1>3, <2>1, <2>2, EmptyList
<1>8. CASE l < a \/ b < f
  <2>1. Trim(s, a, b) = <<s>>
    BY <1>1, <1>8 DEF Trim
  <2>2. (f .. l) \ (a .. b) = f .. l
    BY <1>1, <1>8
  <2>3. Good(<<Seg(f, l)>>) /\ SegValues(<<Seg(f, l)>>) = f .. l
    BY <1>1, OneSegment
  <2> QED BY <1>2, <1>3, <2>1, <2>2, <2>3
<1> QED BY <1>1, <1>4, <1>5, <1>6, <1>7, <1>8

\* The first i of some lists, one behind the other.
FlattenBody(seqs, m, g) == [i \in 1 .. m |-> IF i = 1 THEN seqs[i] ELSE g[i - 1] \o seqs[i]]

\* The function that FlattenSeq defines by recursion exists, for every number
\* of lists: the least number without it would be one more than a number with it.
LEMMA FlattenExists ==
    ASSUME NEW seqs
    PROVE  \A m \in Nat : \E g : g = FlattenBody(seqs, m, g)
<1> DEFINE Without0 == {m \in Nat : ~\E g : g = FlattenBody(seqs, m, g)}
<1> SUFFICES ASSUME Without0 # {}  PROVE FALSE
  OBVIOUS
<1>1. PICK m \in Without0 : \A k \in Without0 : m <= k
  BY LeastNatural
<1>2. CASE m = 0
  <2>1. PICK g : g = [i \in 1 .. 0 |-> 0]
    OBVIOUS
  <2>2. g = FlattenBody(seqs, 0, g)
    BY <2>1 DEF FlattenBody
  <2> QED BY <1>1, <1>2, <2>2
<1>3. CASE m # 0
  <2>1. m - 1 \in Nat /\ m - 1 \notin Without0 /\ m \in Nat
    BY <1>1, <1>3
  <2>2. PICK g : g = FlattenBody(seqs, m - 1, g)
    BY <2>1
  <2>3. PICK h : h = [i \in 1 .. m |-> IF i = m THEN (IF m = 1 THEN seqs[m] ELSE g[m - 1] \o seqs[m])
                                                 ELSE g[i]]
    OBVIOUS
  <2>4. ASSUME NEW i \in 1 .. m
        PROVE  h[i] = IF i = 1 THEN seqs[i] ELSE h[i - 1] \o seqs[i]
    <3>1. CASE i = m
      <4>1. CASE m = 1
        BY <2>1, <2>3, <3>1, <4>1
      <4>2. CASE m # 1
        <5>1. m - 1 \in 1 .. m /\ m - 1 # m
          BY <2>1, <1>3, <4>2
        <5>2. h[m - 1] = g[m - 1]
          BY <2>3, <5>1
        <5>3. h[m] = g[m - 1] \o seqs[m]
          <6>1. m \in 1 .. m
            BY <1>3, <2>1
          <6> QED BY <2>3, <4>2, <6>1
        <5> QED BY <3>1, <4>2, <5>2, <5>3
      <4> QED BY <4>1, <4>2
    <3>2. CASE i # m
      <4>1. i \in 1 .. (m - 1)
        BY <2>1, <3>2
      <4>2. g[i] = IF i = 1 THEN seqs[i] ELSE g[i - 1] \o seqs[i]
        BY <2>2, <4>1 DEF FlattenBody
      <4>3. h[i] = g[i]
        BY <2>3, <3>2
      <4>4. CASE i = 1
        BY <4>2, <4>3, <4>4
      <4>5. CASE i # 1
        <5>1. i - 1 \in 1 .. m /\ i - 1 # m
          BY <2>1, <4>5
        <5>2. h[i - 1] = g[i - 1]
          BY <2>3, <5>1
        <5> QED BY <4>2, <4>3, <4>5, <5>2
      <4> QED BY <4>4, <4>5
    <3> QED BY <3>1, <3>2
  <2>5. h = FlattenBody(seqs, m, h)
    BY <2>3, <2>4 DEF FlattenBody
  <2> QED BY <1>1, <2>5
<1> QED BY <1>2, <1>3

\* FlattenSeq is the last value of a function that satisfies its equation.
LEMMA FlattenIs ==
    ASSUME NEW seqs, Len(seqs) \in Nat, Len(seqs) # 0
    PROVE  \E g : g = FlattenBody(seqs, Len(seqs), g) /\ FlattenSeq(seqs) = g[Len(seqs)]
<1> DEFINE Body(g) == [i \in 1 .. Len(seqs) |-> IF i = 1 THEN seqs[i] ELSE g[i - 1] \o seqs[i]]
<1>1. FlattenSeq(seqs) = (CHOOSE g : g = Body(g))[Len(seqs)]
  BY DEF FlattenSeq
<1>2. \A g : Body(g) = FlattenBody(seqs, Len(seqs), g)
  BY DEF FlattenBody
<1> HIDE DEF Body
<1>3. \E g : g = Body(g)
  <2>1. PICK n \in Nat : n = Len(seqs)
    OBVIOUS
  <2>2. \E g : g = FlattenBody(seqs, n, g)
    BY FlattenExists
  <2> QED BY <1>2, <2>1, <2>2
<1>4. PICK h : h = (CHOOSE g : g = Body(g))
  OBVIOUS
<1>5. h = Body(h)
  BY <1>3, <1>4
<1> QED BY <1>1, <1>2, <1>4, <1>5

\* Lists of disjoint values, one behind the other, are a list again, which
\* stands for the values of all.
ValuesUpTo(seqs, i) == UNION {SegValues(seqs[k]) : k \in 1 .. i}

\* FlattenSeq of such lists.
LEMMA FlattenGood ==
    ASSUME NEW n \in Nat, n # 0, NEW seqs, Len(seqs) = n,
           \A i \in 1 .. n : Good(seqs[i]),
           \A i, j \in 1 .. n : i < j => SegValues(seqs[i]) \cap SegValues(seqs[j]) = {}
    PROVE  Good(FlattenSeq(seqs)) /\ SegValues(FlattenSeq(seqs)) = ValuesUpTo(seqs, n)
<1>1. PICK g : g = FlattenBody(seqs, n, g) /\ FlattenSeq(seqs) = g[n]
  BY FlattenIs
<1>2. ASSUME NEW i \in 1 .. n  PROVE g[i] = IF i = 1 THEN seqs[i] ELSE g[i - 1] \o seqs[i]
  BY <1>1 DEF FlattenBody
<1> DEFINE Fine(i) == Good(g[i]) /\ SegValues(g[i]) = ValuesUpTo(seqs, i)
           Bad == {i \in 1 .. n : ~Fine(i)}
<1>3. Bad = {}
  <2> SUFFICES ASSUME Bad # {}  PROVE FALSE
    OBVIOUS
  <2>1. PICK i \in Bad : \A k \in Bad : i <= k
    <3>1. Bad \subseteq Nat
      OBVIOUS
    <3> QED BY <3>1, LeastNatural
  <2>2. i \in 1 .. n /\ ~Fine(i)
    BY <2>1
  <2>3. CASE i = 1
    <3>1. g[i] = seqs[1]
      BY <1>2, <2>2, <2>3
    <3>2. \A k \in 1 .. 1 : k = 1
      OBVIOUS
    <3>3. ValuesUpTo(seqs, 1) = SegValues(seqs[1])
      BY <3>2 DEF ValuesUpTo
    <3>4. Good(seqs[1])
      BY <2>2, <2>3
    <3> QED BY <2>2, <2>3, <3>1, <3>3, <3>4
  <2>4. CASE i # 1
    <3>0. PICK k : k = i - 1
      OBVIOUS
    <3>1. k \in 1 .. n /\ k < i
      BY <2>2, <2>4, <3>0
    <3>2. Fine(k)
      <4>1. k \notin Bad
        BY <2>1, <2>2, <3>1
      <4> QED BY <3>1, <4>1
    <3>3. g[i] = g[k] \o seqs[i]
      BY <1>2, <2>2, <2>4, <3>0
    <3>4. Good(seqs[i]) /\ Good(g[k]) /\ SegValues(g[k]) = ValuesUpTo(seqs, k)
      BY <2>2, <3>2
    <3> HIDE DEF Fine, Bad
    <3>5. SegValues(g[k]) \cap SegValues(seqs[i]) = {}
      <4>1. ASSUME NEW v \in ValuesUpTo(seqs, k)  PROVE v \notin SegValues(seqs[i])
        <5>1. PICK j \in 1 .. k : v \in SegValues(seqs[j])
          BY DEF ValuesUpTo
        <5>2. j \in 1 .. n /\ j < i
          BY <2>2, <3>0, <3>1
        <5>3. SegValues(seqs[j]) \cap SegValues(seqs[i]) = {}
          BY <2>2, <5>2
        <5> QED BY <5>1, <5>3
      <4> QED BY <3>4, <4>1
    <3>6. Good(g[i])
      BY <3>3, <3>4, <3>5, JoinGood
    <3>7. SegValues(g[i]) = SegValues(g[k]) \cup SegValues(seqs[i])
      BY <3>3, <3>4, JoinValues DEF Good
    <3>8. ValuesUpTo(seqs, i) = ValuesUpTo(seqs, k) \cup SegValues(seqs[i])
      <4>1. \A j : j \in 1 .. i <=> j \in 1 .. k \/ j = i
        BY <2>2, <3>0
      <4> QED BY <4>1 DEF ValuesUpTo
    <3>9. Fine(i)
      BY <3>4, <3>6, <3>7, <3>8 DEF Fine
    <3> QED BY <2>2, <3>9
  <2> QED BY <2>3, <2>4
<1>4. Fine(n)
  <2>1. n \in 1 .. n
    OBVIOUS
  <2> QED BY <1>3, <2>1
<1> QED BY <1>1, <1>4

\* Reserve takes the values of the range out of the list, and only them.
LEMMA ReserveGood ==
    ASSUME NEW list, Good(list), NEW a \in Int, NEW b \in Int, a <= b
    PROVE  /\ Good(ReserveFrom(list, a, b))
           /\ SegValues(ReserveFrom(list, a, b)) = SegValues(list) \ (a .. b)
<1>0. list \in Seq(Segments) /\ Len(list) \in Nat /\ DOMAIN list = 1 .. Len(list)
  BY DEF Good
<1>1. PICK n \in Nat : n = Len(list)
  BY <1>0
<1>2. PICK seqs : seqs = [i \in 1 .. n |-> Trim(list[i], a, b)]
  OBVIOUS
<1>3. ReserveFrom(list, a, b) = FlattenSeq(seqs)
  BY <1>0, <1>1, <1>2 DEF ReserveFrom
<1>4. Len(seqs) = n
  BY <1>2
<1>5. \A i \in 1 .. n : /\ list[i] \in Segments /\ list[i].first <= list[i].last
                        /\ seqs[i] = Trim(list[i], a, b)
  BY <1>0, <1>1, <1>2 DEF Good
<1>6. \A i \in 1 .. n : Good(seqs[i]) /\ SegValues(seqs[i]) = Vals(list[i]) \ (a .. b)
  BY <1>5, TrimGood
<1>7. CASE n = 0
  <2>1. list = <<>>
    BY <1>0, <1>1, <1>7
  <2>2. seqs = <<>>
    BY <1>2, <1>7
  <2>3. FlattenSeq(seqs) = seqs
    BY <1>4, <1>7 DEF FlattenSeq
  <2> QED BY <1>3, <2>1, <2>2, <2>3, EmptyList
<1>8. CASE n # 0
  <2>1. ASSUME NEW i \in 1 .. n, NEW j \in 1 .. n, i < j
        PROVE  SegValues(seqs[i]) \cap SegValues(seqs[j]) = {}
    <3>1. Apart(list[i], list[j])
      BY <1>1, <2>1 DEF Good
    <3>2. \A v \in Vals(list[i]) : v \notin Vals(list[j])
      BY <1>5, <3>1, ApartValues DEF Vals
    <3> QED BY <1>6, <3>2
  <2>2. Good(FlattenSeq(seqs)) /\ SegValues(FlattenSeq(seqs)) = ValuesUpTo(seqs, n)
    BY <1>4, <1>6, <1>8, <2>1, FlattenGood
  <2>3. ASSUME NEW v  PROVE v \in ValuesUpTo(seqs, n) <=> v \in SegValues(list) \ (a .. b)
    <3>1. v \in ValuesUpTo(seqs, n) <=> \E i \in 1 .. n : v \in SegValues(seqs[i])
      BY DEF ValuesUpTo
    <3>2. v \in SegValues(list) <=> \E i \in 1 .. n : v \in Vals(list[i])
      BY <1>0, <1>1, ValuesOf DEF Vals
    <3> QED BY <1>6, <3>1, <3>2
  <2> QED BY <1>3, <2>2, <2>3
<1> QED BY <1>7, <1>8

-----------------------------------------------------------------------------
(* Counting                                                                 *)

\* The recursion of the fold that Size is, over the positions of the list.
SizeBody(list, g) ==
    [s \in SUBSET (DOMAIN list) |->
       IF s = {} THEN 0
       ELSE g[s \ {CHOOSE x \in s : TRUE}]
              + (list[CHOOSE x \in s : TRUE].last - list[CHOOSE x \in s : TRUE].first + 1)]

\* Size is the value of that fold at all positions.
LEMMA SizeFold ==
    ASSUME NEW list
    PROVE  Size(list) = (CHOOSE g : g = SizeBody(list, g))[DOMAIN list]
  BY DEF Size, SizeBody, FoldSeq, FoldFunction, FoldFunctionOnSet, MapThenFoldSet

\* The values of the segments at some positions.
Among(list, s) == UNION {Vals(list[k]) : k \in s}

\* They are finitely many.
LEMMA AmongFinite ==
    ASSUME NEW list, Good(list), NEW s \in SUBSET (1 .. Len(list))
    PROVE  IsFiniteSet(s) /\ IsFiniteSet(Among(list, s))
<1>1. Len(list) \in Nat
  BY DEF Good
<1>2. IsFiniteSet(s)
  <2>1. IsFiniteSet(1 .. Len(list))
    BY <1>1, FS_Interval
  <2> QED BY <2>1, FS_Subset
<1> DEFINE T == {Vals(list[k]) : k \in s}
           f == [k \in s |-> Vals(list[k])]
<1>3. f \in Surjection(s, T)
  BY DEF Surjection
<1>4. IsFiniteSet(T)
  <2> HIDE DEF f, T
  <2> QED BY <1>2, <1>3, FS_Surjection
<1>5. ASSUME NEW V \in T  PROVE IsFiniteSet(V)
  <2>1. PICK k \in s : V = Vals(list[k])
    OBVIOUS
  <2>2. list[k].first \in Int /\ list[k].last \in Int
    BY SegmentAt
  <2> QED BY <2>1, <2>2, FS_Interval DEF Vals
<1>6. IsFiniteSet(UNION T)
  <2> HIDE DEF T
  <2> QED BY <1>4, <1>5, FS_UNION
<1> QED BY <1>2, <1>6 DEF Among

\* One segment more adds its length, for no other segment has its values.
LEMMA AmongStep ==
    ASSUME NEW list, Good(list), NEW s \in SUBSET (1 .. Len(list)), NEW x \in s
    PROVE  Cardinality(Among(list, s)) =
             Cardinality(Among(list, s \ {x})) + (list[x].last - list[x].first + 1)
<1>1. PICK f \in Int, l \in Int : f = list[x].first /\ l = list[x].last /\ f <= l
  BY SegmentAt
<1>2. PICK rest : rest = Among(list, s \ {x})
  OBVIOUS
<1>3. Among(list, s) = rest \cup (f .. l)
  BY <1>1, <1>2 DEF Among, Vals
<1>4. IsFiniteSet(rest) /\ Cardinality(rest) \in Nat
  BY <1>2, AmongFinite, FS_CardinalityType
<1>5. IsFiniteSet(f .. l) /\ Cardinality(f .. l) = l - f + 1
  <2>1. IsFiniteSet(f .. l) /\ Cardinality(f .. l) = IF f > l THEN 0 ELSE l - f + 1
    BY FS_Interval, Zenon
  <2>2. ~(f > l)
    BY <1>1
  <2> QED BY <2>1, <2>2
<1>6. ASSUME NEW v \in rest  PROVE v \notin f .. l
  <2>1. PICK k \in s : k # x /\ v \in Vals(list[k])
    BY <1>2 DEF Among
  <2>2. /\ list[k] \in Segments /\ list[k].first <= list[k].last
        /\ list[x] \in Segments /\ list[x].first <= list[x].last
    BY DEF Good
  <2>3. k \in 1 .. Len(list) /\ x \in 1 .. Len(list)
    OBVIOUS
  <2>4. Apart(list[k], list[x])
    <3>1. k < x \/ x < k
      BY <2>1, <2>3
    <3>2. Apart(list[k], list[x]) \/ Apart(list[x], list[k])
      BY <2>3, <3>1 DEF Good
    <3> QED BY <3>2 DEF Apart
  <2> QED BY <1>1, <2>1, <2>2, <2>4, ApartValues DEF Vals
<1>7. rest \cap (f .. l) = {}
  BY <1>6
<1>8. Cardinality(rest \cup (f .. l)) = Cardinality(rest) + Cardinality(f .. l) - 0
  <2>1. PICK own : own = f .. l
    OBVIOUS
  <2>2. Cardinality(rest \cup own) = Cardinality(rest) + Cardinality(own) - Cardinality(rest \cap own)
    BY <1>4, <1>5, <2>1, FS_Union, Zenon
  <2> QED BY <1>7, <2>1, <2>2, FS_EmptySet
<1> QED BY <1>1, <1>2, <1>3, <1>4, <1>5, <1>8

\* Size counts the values a list stands for.
LEMMA SizeIs ==
    ASSUME NEW list, Good(list)
    PROVE  IsFiniteSet(SegValues(list)) /\ Size(list) = Cardinality(SegValues(list))
<1>1. PICK D : D = DOMAIN list
  OBVIOUS
<1>2. D = 1 .. Len(list)
  BY <1>1 DEF Good
<1>3. SegValues(list) = Among(list, D)
  BY <1>1 DEF SegValues, Among, Vals
<1>4. IsFiniteSet(SegValues(list))
  BY <1>2, <1>3, AmongFinite
<1> DEFINE size(s) == Cardinality(Among(list, s))
           any(s) == CHOOSE x \in s : TRUE
           len(x) == list[x].last - list[x].first + 1
<1>5. \A s \in SUBSET D : s # {} => any(s) \in s
  OBVIOUS
<1>6. \A s \in SUBSET D : \A x \in s : size(s) = size(s \ {x}) + len(x)
  BY <1>2, AmongStep
<1>7. size({}) = 0
  BY FS_EmptySet DEF Among
<1>8. ASSUME NEW g, NEW s \in SUBSET D
      PROVE  SizeBody(list, g)[s] = IF s = {} THEN 0 ELSE g[s \ {any(s)}] + len(any(s))
  BY <1>1 DEF SizeBody
<1>9. \A g : SizeBody(list, g) = [s \in SUBSET D |-> SizeBody(list, g)[s]]
  BY <1>1 DEF SizeBody
<1> HIDE DEF size, any, len
<1>10. PICK g0 : g0 = [s \in SUBSET D |-> size(s)]
  OBVIOUS
<1>11. g0 = SizeBody(list, g0)
  <2>1. ASSUME NEW s \in SUBSET D  PROVE g0[s] = SizeBody(list, g0)[s]
    <3>1. CASE s = {}
      BY <1>7, <1>8, <1>10, <3>1
    <3>2. CASE s # {}
      <4>1. any(s) \in s /\ s \ {any(s)} \in SUBSET D
        BY <1>5, <3>2
      <4>2. g0[s] = size(s) /\ g0[s \ {any(s)}] = size(s \ {any(s)})
        BY <1>10, <4>1
      <4> QED BY <1>6, <1>8, <3>2, <4>1, <4>2
    <3> QED BY <3>1, <3>2
  <2>2. SizeBody(list, g0) = [s \in SUBSET D |-> SizeBody(list, g0)[s]]
    BY <1>9
  <2>3. g0 = [s \in SUBSET D |-> g0[s]]
    BY <1>10
  <2>4. [s \in SUBSET D |-> g0[s]] = [s \in SUBSET D |-> SizeBody(list, g0)[s]]
    BY <2>1
  <2> QED BY <2>2, <2>3, <2>4
<1>12. PICK g : g = (CHOOSE h : h = SizeBody(list, h))
  OBVIOUS
<1>13. g = SizeBody(list, g)
  BY <1>11, <1>12
<1> DEFINE Bad == {s \in SUBSET D : g[s] # size(s)}
           Counts == {n \in Nat : \E s \in Bad : n = Cardinality(s)}
<1>14. Bad = {}
  <2> SUFFICES ASSUME Bad # {}  PROVE FALSE
    OBVIOUS
  <2>1. \A s \in SUBSET D : IsFiniteSet(s) /\ Cardinality(s) \in Nat
    BY <1>2, AmongFinite, FS_CardinalityType
  <2>2. Counts # {} /\ Counts \subseteq Nat
    BY <2>1
  <2>3. PICK n \in Counts : \A m \in Counts : n <= m
    BY <2>2, LeastNatural
  <2>4. PICK s \in Bad : n = Cardinality(s)
    BY <2>3
  <2>5. s \in SUBSET D /\ g[s] # size(s)
    BY <2>4
  <2>6. s # {}
    BY <1>7, <1>8, <1>13, <2>5
  <2>7. any(s) \in s
    BY <1>5, <2>5, <2>6
  <2>8. PICK r : r = s \ {any(s)}
    OBVIOUS
  <2>9. r \in SUBSET D /\ Cardinality(r) = n - 1
    BY <2>1, <2>4, <2>5, <2>7, <2>8, FS_RemoveElement
  <2>10. r \notin Bad
    BY <2>1, <2>3, <2>9
  <2>11. g[r] = size(r)
    BY <2>9, <2>10
  <2>12. g[s] = g[r] + len(any(s))
    BY <1>8, <1>13, <2>5, <2>6, <2>8
  <2>13. size(s) = size(r) + len(any(s))
    BY <1>6, <2>5, <2>7, <2>8
  <2> QED BY <2>5, <2>11, <2>12, <2>13
<1>15. Size(list) = g[D]
  BY <1>1, <1>12, SizeFold
<1>16. g[D] = size(D)
  BY <1>14
<1> QED BY <1>3, <1>4, <1>15, <1>16 DEF size

-----------------------------------------------------------------------------
(* The pool                                                                 *)

\* The invariant: the list is good, stands for values of the pool that no
\* caller has, and remain counts them.
PoolInv ==
    /\ Good(segs)
    /\ SegValues(segs) \subseteq first .. last
    /\ out \subseteq first .. last
    /\ out \cap SegValues(segs) = {}
    /\ remain = Cardinality(SegValues(segs))

\* FreeSetPool counts as LazyReusePool does.
LEMMA SameCount == \A S : Abstract!Cardinality(S) = Cardinality(S)
  BY DEF Cardinality, Abstract!Cardinality

\* A new pool satisfies the invariant and is an initial state of FreeSetPool.
LEMMA InitPoolInv == Init => PoolInv /\ Abstract!Init
<1> SUFFICES ASSUME Init  PROVE PoolInv /\ Abstract!Init
  OBVIOUS
<1>1. Good(segs) /\ SegValues(segs) = first .. last
  BY BoundsAssumption, OneSegment DEF Init
<1>2. Cardinality(first .. last) = last - first + 1
  <2>1. Cardinality(first .. last) = IF first > last THEN 0 ELSE last - first + 1
    BY BoundsAssumption, FS_Interval, Zenon
  <2>2. ~(first > last)
    BY BoundsAssumption
  <2> QED BY <2>1, <2>2
<1> QED BY <1>1, <1>2 DEF Init, PoolInv, Abstract!Init, Answer, Abstract!Answer

\* Every call keeps the invariant and is the call of FreeSetPool of its name.
LEMMA AllocatePoolInv == PoolInv /\ Allocate => PoolInv' /\ Abstract!Allocate
<1> SUFFICES ASSUME PoolInv, Allocate  PROVE PoolInv' /\ Abstract!Allocate
  OBVIOUS
<1>1. Good(segs) /\ segs \in Seq(Segments)
  BY DEF PoolInv, Good
<1>2. CASE segs = <<>>
  <2>1. SegValues(segs) = {}
    BY <1>2, EmptyList
  <2>2. /\ res' = Answer("Allocate", <<>>, FALSE)
        /\ UNCHANGED <<segs, remain, out, ever, ordered>>
    BY <1>2 DEF Allocate
  <2> QED BY SameCount, <2>1, <2>2 DEF PoolInv, Abstract!Allocate, Answer, Abstract!Answer
<1>3. CASE segs # <<>>
  <2>1. PICK v : v = Head(segs).first
    OBVIOUS
  <2>2. /\ res' = Answer("Allocate", <<v>>, TRUE) /\ out' = out \cup {v}
        /\ segs' = AllocateFrom(segs) /\ remain' = remain - 1
    BY <1>3, <2>1 DEF Allocate
  <2>3. /\ v \in SegValues(segs) /\ Good(segs')
        /\ SegValues(segs') = SegValues(segs) \ {v}
    BY <1>1, <1>3, <2>1, <2>2, AllocateGood
  <2>4. remain' = Cardinality(SegValues(segs'))
    <3>1. IsFiniteSet(SegValues(segs))
      BY <1>1, SizeIs
    <3>2. Cardinality(SegValues(segs) \ {v}) = Cardinality(SegValues(segs)) - 1
      BY <2>3, <3>1, FS_RemoveElement
    <3> QED BY <2>2, <2>3, <3>2 DEF PoolInv
  <2>5. PoolInv'
    BY <2>2, <2>3, <2>4 DEF PoolInv
  <2>6. Abstract!Allocate
    BY SameCount, <2>2, <2>3, <2>4 DEF Abstract!Allocate, Answer, Abstract!Answer
  <2> QED BY <2>5, <2>6
<1> QED BY <1>2, <1>3

\* Use.
LEMMA UsePoolInv == ASSUME NEW v \in Args  PROVE PoolInv /\ Use(v) => PoolInv' /\ Abstract!Use(v)
<1> SUFFICES ASSUME PoolInv, Use(v)  PROVE PoolInv' /\ Abstract!Use(v)
  OBVIOUS
<1>1. Good(segs) /\ IsFiniteSet(SegValues(segs)) /\ v \in Int
  BY BoundsAssumption, SizeIs DEF PoolInv, Args
<1>2. PICK i : i = SegmentOf(segs, v)
  OBVIOUS
<1>3. /\ i = 0 <=> v \notin SegValues(segs)
      /\ i # 0 => i \in 1 .. Len(segs) /\ v \in Vals(segs[i])
  BY <1>1, <1>2, SegmentOfFound
<1>4. CASE i = 0
  <2>1. /\ res' = Answer("Use", <<v>>, FALSE)
        /\ UNCHANGED <<segs, remain, out, ever, ordered>>
    BY <1>2, <1>4 DEF Use
  <2>2. SegValues(segs) \ {v} = SegValues(segs)
    BY <1>3, <1>4
  <2>3. res' = Abstract!Answer("Use", <<v>>, v \in SegValues(segs))
    <3>1. (v \in SegValues(segs)) = FALSE
      BY <1>3, <1>4
    <3> QED BY <2>1, <3>1 DEF Answer, Abstract!Answer
  <2>4. PoolInv' /\ segs' = segs /\ remain' = Cardinality(SegValues(segs))
    BY <2>1 DEF PoolInv
  <2> QED BY SameCount, <2>2, <2>3, <2>4 DEF Abstract!Use
<1>5. CASE i # 0
  <2>1. /\ res' = Answer("Use", <<v>>, TRUE) /\ out' = out \cup {v}
        /\ segs' = UseFrom(segs, i, v) /\ remain' = remain - 1
    BY <1>2, <1>5 DEF Use
  <2>2. Good(segs') /\ SegValues(segs') = SegValues(segs) \ {v}
    BY <1>1, <1>3, <1>5, <2>1, UseGood DEF Vals
  <2>3. remain' = Cardinality(SegValues(segs'))
    <3>1. Cardinality(SegValues(segs) \ {v}) = Cardinality(SegValues(segs)) - 1
      BY <1>1, <1>3, <1>5, FS_RemoveElement
    <3> QED BY <2>1, <2>2, <3>1 DEF PoolInv
  <2>4. PoolInv'
    BY <1>3, <1>5, <2>1, <2>2, <2>3 DEF PoolInv
  <2>5. Abstract!Use(v)
    BY SameCount, <1>3, <1>5, <2>1, <2>2, <2>3 DEF Abstract!Use, Answer, Abstract!Answer
  <2> QED BY <2>4, <2>5
<1> QED BY <1>4, <1>5

\* Free, of a value its caller has or of one outside the pool.
LEMMA FreePoolInv ==
    ASSUME NEW v \in out \cup {first - 1, last + 1}
    PROVE  PoolInv /\ Free(v) => PoolInv' /\ Abstract!Free(v)
<1> SUFFICES ASSUME PoolInv, Free(v)  PROVE PoolInv' /\ Abstract!Free(v)
  OBVIOUS
<1>1. Good(segs) /\ IsFiniteSet(SegValues(segs)) /\ v \in Int
  BY BoundsAssumption, SizeIs DEF PoolInv
<1>2. CASE v \in out
  <2>1. v \in first .. last /\ v \notin SegValues(segs)
    BY <1>2 DEF PoolInv
  <2>2. Contains1(v, v)
    BY <2>1, BoundsAssumption DEF Contains1
  <2>3. PICK new : new = FreeInto(segs, v)
    OBVIOUS
  <2>4. Good(new) /\ SegValues(new) = SegValues(segs) \cup {v}
    BY <1>1, <2>1, <2>3, FreeGood
  <2>5. new # segs
    BY <2>1, <2>4
  <2>6. /\ res' = Answer("Free", <<v>>, TRUE) /\ segs' = new
        /\ remain' = remain + 1 /\ out' = out \ {v}
    BY <2>2, <2>3, <2>5 DEF Free
  <2>7. remain' = Cardinality(SegValues(segs'))
    <3>1. Cardinality(SegValues(segs) \cup {v}) = Cardinality(SegValues(segs)) + 1
      BY <1>1, <2>1, FS_AddElement
    <3> QED BY <2>4, <2>6, <3>1 DEF PoolInv
  <2>8. PoolInv'
    BY <2>1, <2>4, <2>6, <2>7 DEF PoolInv
  <2>9. {v} \cap (first .. last) = {v}
    BY <2>1
  <2>10. Abstract!Free(v)
    BY SameCount, <2>1, <2>4, <2>6, <2>7, <2>9 DEF Abstract!Free, Answer, Abstract!Answer
  <2> QED BY <2>8, <2>10
<1>3. CASE v \notin out
  <2>1. v \notin first .. last /\ ~Contains1(v, v)
    BY <1>3, BoundsAssumption DEF Contains1
  <2>2. /\ res' = Answer("Free", <<v>>, FALSE)
        /\ UNCHANGED <<segs, remain, out, ever, ordered>>
    BY <2>1 DEF Free
  <2>3. {v} \cap (first .. last) = {}
    BY <2>1
  <2>4. SegValues(segs) \cup ({v} \cap (first .. last)) = SegValues(segs)
    BY <2>3
  <2> QED BY SameCount, <2>1, <2>2, <2>4 DEF PoolInv, Abstract!Free, Answer, Abstract!Answer
<1> QED BY <1>2, <1>3

\* Reserve.
LEMMA ReservePoolInv ==
    ASSUME NEW a \in Int, NEW b \in Int
    PROVE  PoolInv /\ Reserve(a, b) => PoolInv' /\ Abstract!Reserve(a, b)
<1> SUFFICES ASSUME PoolInv, Reserve(a, b)  PROVE PoolInv' /\ Abstract!Reserve(a, b)
  OBVIOUS
<1>1. Good(segs)
  BY DEF PoolInv
<1>2. Contains1(a, b) <=> a <= b /\ first <= a /\ b <= last
  BY BoundsAssumption DEF Contains1
<1>3. CASE ~Contains1(a, b)
  <2>1. /\ res' = Answer("Reserve", <<a, b>>, FALSE)
        /\ UNCHANGED <<segs, remain, out, ever, ordered>>
    BY <1>3 DEF Reserve
  <2> QED BY SameCount, <1>2, <1>3, <2>1 DEF PoolInv, Abstract!Reserve, Answer, Abstract!Answer
<1>4. CASE Contains1(a, b)
  <2>1. /\ res' = Answer("Reserve", <<a, b>>, TRUE) /\ segs' = ReserveFrom(segs, a, b)
        /\ remain' = remain - (Size(segs) - Size(segs')) /\ out' = out
    BY <1>4 DEF Reserve
  <2>2. PICK gone : gone = a .. b
    OBVIOUS
  <2>3. Good(segs') /\ SegValues(segs') = SegValues(segs) \ gone
    BY <1>1, <1>2, <1>4, <2>1, <2>2, ReserveGood
  <2>4. remain' = Cardinality(SegValues(segs'))
    <3>1. Size(segs) = Cardinality(SegValues(segs)) /\ Cardinality(SegValues(segs)) \in Nat
      BY <1>1, SizeIs, FS_CardinalityType
    <3>2. Size(segs') = Cardinality(SegValues(segs')) /\ Cardinality(SegValues(segs')) \in Nat
      BY <2>3, SizeIs, FS_CardinalityType
    <3> QED BY <2>1, <3>1, <3>2 DEF PoolInv
  <2>5. PoolInv'
    BY <2>1, <2>3, <2>4 DEF PoolInv
  <2>6. Abstract!Reserve(a, b)
    BY SameCount, <1>2, <1>4, <2>1, <2>2, <2>3, <2>4 DEF Abstract!Reserve, Answer, Abstract!Answer
  <2> QED BY <2>5, <2>6
<1> QED BY <1>3, <1>4

\* The list takes every step of FreeSetPool that the pool takes.
LEMMA StepPoolInv == PoolInv /\ [NextOwners]_vars
                       => PoolInv' /\ [Abstract!Next]_<<SegValues(segs), remain, res>>
<1> SUFFICES ASSUME PoolInv, [NextOwners]_vars
             PROVE  PoolInv' /\ [Abstract!Next]_<<SegValues(segs), remain, res>>
  OBVIOUS
<1>1. CASE Allocate
  BY <1>1, AllocatePoolInv DEF Abstract!Next
<1>2. ASSUME NEW v \in Args, Use(v)
      PROVE  PoolInv' /\ [Abstract!Next]_<<SegValues(segs), remain, res>>
  BY <1>2, UsePoolInv DEF Abstract!Next
<1>3. ASSUME NEW v \in out \cup {first - 1, last + 1}, Free(v)
      PROVE  PoolInv' /\ [Abstract!Next]_<<SegValues(segs), remain, res>>
  <2>1. v \in Args
    BY BoundsAssumption DEF PoolInv, Args
  <2> QED BY <1>3, <2>1, FreePoolInv DEF Abstract!Next
<1>4. ASSUME NEW r \in Ranges, Reserve(r[1], r[2])
      PROVE  PoolInv' /\ [Abstract!Next]_<<SegValues(segs), remain, res>>
  <2>1. r[1] \in Int /\ r[2] \in Int
    BY RangesAssumption
  <2> QED BY <1>4, <2>1, ReservePoolInv DEF Abstract!Next
<1>5. CASE UNCHANGED vars
  BY <1>5 DEF vars, PoolInv
<1> QED BY <1>1, <1>2, <1>3, <1>4, <1>5 DEF NextOwners

\* The invariant holds of every pool whose callers free what they own.
THEOREM OwnersKeepTheList == SpecOwners => []PoolInv
  BY InitPoolInv, StepPoolInv, PTL DEF SpecOwners

\* The segments of lazyReusePool.go are not empty, stay inside the pool and
\* never overlap, for any bounds and any ranges reserved.
THEOREM SegmentsStayDisjoint == SpecOwners => []SegmentsDisjoint
<1>1. PoolInv => SegmentsDisjoint
  <2> SUFFICES ASSUME PoolInv  PROVE SegmentsDisjoint
    OBVIOUS
  <2>1. Good(segs) /\ DOMAIN segs = 1 .. Len(segs) /\ segs \in Seq(Segments)
    BY DEF PoolInv, Good
  <2>2. ASSUME NEW i \in DOMAIN segs
        PROVE  first <= segs[i].first /\ segs[i].first <= segs[i].last /\ segs[i].last <= last
    <3>1. PICK f \in Int, l \in Int : f = segs[i].first /\ l = segs[i].last /\ f <= l
      BY <2>1, SegmentAt
    <3>2. f \in SegValues(segs) /\ l \in SegValues(segs)
      <4>1. f \in f .. l /\ l \in f .. l
        BY <3>1
      <4> QED BY <2>1, <3>1, <4>1, ValuesOf
    <3>3. f \in first .. last /\ l \in first .. last
      BY <3>2 DEF PoolInv
    <3> QED BY <3>1, <3>3, BoundsAssumption
  <2>3. \A i, j \in DOMAIN segs :
          i < j => segs[i].last < segs[j].first \/ segs[j].last < segs[i].first
    BY <2>1 DEF Good, Apart
  <2> QED BY <2>2, <2>3 DEF SegmentsDisjoint
<1> QED BY <1>1, OwnersKeepTheList, PTL

\* Every call of Allocate, Use, Free and Reserve, for any bounds and any ranges
\* reserved, answers as a set of free values and the count of them would.
THEOREM ListImplementsFreeSet == SpecOwners => ImplementsFreeSet
<1>1. Init => Abstract!Init
  BY InitPoolInv
<1>2. PoolInv /\ [NextOwners]_vars => [Abstract!Next]_<<SegValues(segs), remain, res>>
  BY StepPoolInv
<1> QED BY <1>1, <1>2, OwnersKeepTheList, PTL DEF SpecOwners, ImplementsFreeSet, Abstract!Spec

-----------------------------------------------------------------------------
(* Lazy reuse                                                               *)

\* A change behind the head leaves the head.
LEMMA SpliceBehindHead ==
    ASSUME NEW list, Good(list), list # <<>>, NEW i \in Nat, i >= 2, NEW j \in Nat,
           i <= j + 1, j <= Len(list), NEW mid \in Seq(Segments),
           NEW new, new = Splice(list, i, j, mid)
    PROVE  new # <<>> /\ new[1] = list[1]
<1>1. list \in Seq(Segments) /\ Len(list) \in Nat
  BY DEF Good
<1>2. new \in Seq(Segments) /\ IsSplice(new, list, i, j, mid)
  BY <1>1, ReplacedElements
<1>3. 1 \in 1 .. i - 1
  OBVIOUS
<1>4. new[1] = list[1]
  BY <1>2, <1>3 DEF IsSplice
<1>5. Len(new) >= 1
  <2>1. PICK m \in Nat, n \in Nat : m = Len(mid) /\ n = Len(list)
    BY <1>1
  <2>2. Len(new) = (i - 1) + m + (n - j)
    BY <1>2, <2>1 DEF IsSplice
  <2> QED BY <2>1, <2>2
<1> QED BY <1>2, <1>4, <1>5

\* Free of a value before the head leaves the head: the value goes behind it.
LEMMA FreeKeepsHead ==
    ASSUME NEW list, Good(list), list # <<>>, NEW v \in Int, v < list[1].first
    PROVE  FreeInto(list, v) # <<>> /\ FreeInto(list, v)[1] = list[1]
<1>0. list \in Seq(Segments) /\ Len(list) \in Nat /\ Len(list) >= 1
  BY DEF Good
<1>1. 1 \in 1 .. Len(list) /\ Head(list) = list[1]
  BY <1>0
<1>2. /\ relativePosisionOf(Head(list), v) # "withinThisSegment"
      /\ relativePosisionOf(Head(list), v) # "adjacentToTheBack"
  <2>1. PICK f \in Int, l \in Int : f = list[1].first /\ l = list[1].last /\ f <= l
    BY <1>1, SegmentAt
  <2>2. list[1] \in Segments
    BY <1>0, <1>1
  <2>3. v \notin Vals(list[1]) /\ v # l + 1
    BY <2>1 DEF Vals
  <2> QED BY <1>1, <2>1, <2>2, <2>3, PositionOf
<1>3. PICK e : e = newSingleSegment(v)
  OBVIOUS
<1>4. PICK mid : mid = <<e>>
  OBVIOUS
<1>5. e \in Segments /\ mid \in Seq(Segments)
  BY <1>3, <1>4 DEF newSingleSegment, Seg, Segments
<1>6. Append(list, e) # <<>> /\ Append(list, e)[1] = list[1]
  BY <1>0, <1>5
<1>7. CASE Len(list) = 1
  <2>1. FreeInto(list, v) = Append(list, e)
    BY <1>2, <1>3, <1>7 DEF FreeInto
  <2> QED BY <1>6, <2>1
<1>8. CASE Len(list) # 1
  <2>1. PICK i : i = StopOf(list, v)
    OBVIOUS
  <2>2. i \in 2 .. Len(list)
    <3>0. \A n \in Nat : n >= 1 /\ n # 1 => n >= 2
      OBVIOUS
    <3>1. Len(list) >= 2
      BY <1>0, <1>8, <3>0
    <3> QED BY <2>1, <3>1, StopAfterHead
  <2>3. i \in 1 .. Len(list) /\ i \in Nat /\ i >= 2 /\ i <= Len(list) /\ i - 1 \in Nat
        /\ i <= (i - 1) + 1 /\ i <= i + 1 /\ i - 1 <= Len(list)
    BY <1>0, <2>2
  <2>4. PICK f \in Int, l \in Int : f = list[i].first /\ l = list[i].last /\ f <= l
    BY <2>3, SegmentAt
  <2>5. PICK pos : pos = relativePosisionOf(list[i], v)
    OBVIOUS
  <2>6. FreeInto(list, v) =
          CASE pos = "before"             -> InsertAt(list, i, e)
            [] pos = "adjacentToTheFront" -> ReplaceAt(list, i, Seg(v, list[i].last))
            [] pos = "withinThisSegment"  -> list
            [] pos = "adjacentToTheBack"  -> extendLast(list, i)
            [] pos = "after"              -> Append(list, e)
    BY <1>2, <1>3, <1>8, <2>1, <2>5 DEF FreeInto
  <2>7. pos \in {"before", "adjacentToTheFront", "withinThisSegment", "adjacentToTheBack", "after"}
    <3>1. list[i] \in Segments
      BY <1>0, <2>3
    <3> QED BY <2>4, <2>5, <3>1, PositionOf
  <2>8. ASSUME NEW d \in Segments
        PROVE  ReplaceAt(list, i, d) # <<>> /\ ReplaceAt(list, i, d)[1] = list[1]
    <3>1. PICK one : one = <<d>>
      OBVIOUS
    <3>2. one \in Seq(Segments)
      BY <3>1
    <3>3. PICK new : new = Splice(list, i, i, one)
      OBVIOUS
    <3>4. ReplaceAt(list, i, d) = new
      BY <1>0, <2>3, <3>1, <3>3, ReplaceForm
    <3>5. new # <<>> /\ new[1] = list[1]
      BY <2>3, <3>2, <3>3, SpliceBehindHead
    <3> QED BY <3>4, <3>5
  <2>9. CASE pos = "before"
    <3>1. FreeInto(list, v) = InsertAt(list, i, e)
      BY <2>6, <2>9
    <3>2. PICK new : new = Splice(list, i, i - 1, mid)
      OBVIOUS
    <3>3. InsertAt(list, i, e) = new
      <4>1. (i - 1) + 1 = i
        BY <2>3
      <4> QED BY <1>4, <3>2, <4>1 DEF InsertAt, Splice
    <3>4. PICK j \in Nat : j = i - 1
      BY <2>3
    <3>5. new = Splice(list, i, j, mid) /\ i <= j + 1 /\ j <= Len(list)
      BY <2>3, <3>2, <3>4
    <3>6. new # <<>> /\ new[1] = list[1]
      <4>1. i \in Nat /\ i >= 2
        BY <2>3
      <4> QED BY <1>5, <3>5, <4>1, SpliceBehindHead
    <3> QED BY <3>1, <3>3, <3>6
  <2>10. CASE pos = "adjacentToTheFront"
    <3>1. FreeInto(list, v) = ReplaceAt(list, i, Seg(v, l))
      BY <2>4, <2>6, <2>10
    <3>2. Seg(v, l) \in Segments
      BY DEF Seg, Segments
    <3> QED BY <2>8, <3>1, <3>2
  <2>11. CASE pos = "withinThisSegment"
    <3>1. FreeInto(list, v) = list
      BY <2>6, <2>11
    <3> QED BY <3>1
  <2>12. CASE pos = "adjacentToTheBack"
    <3>1. FreeInto(list, v) = extendLast(list, i)
      BY <2>6, <2>12
    <3>2. PICK d : d = Seg(f, l + 1)
      OBVIOUS
    <3>3. d \in Segments /\ d.first = f /\ d.last = l + 1
      BY <3>2 DEF Seg, Segments
    <3>4. CASE i < Len(list) /\ (l + 1) + 1 = list[i + 1].first
      <4>1. PICK c : c = Seg(f, list[i + 1].last)
        OBVIOUS
      <4>2. c \in Segments
        <5>1. i + 1 \in 1 .. Len(list)
          BY <1>0, <2>3, <3>4
        <5>2. list[i + 1].last \in Int
          BY <5>1, SegmentAt
        <5> QED BY <4>1, <5>2 DEF Seg, Segments
      <4>3. extendLast(list, i) = RemoveAt(ReplaceAt(list, i, c), i + 1)
        BY <2>4, <3>2, <3>3, <3>4, <4>1 DEF extendLast
      <4>4. PICK one : one = <<c>>
        OBVIOUS
      <4>5. one \in Seq(Segments)
        BY <4>2, <4>4
      <4>6. PICK j \in Nat : j = i + 1
        BY <2>3
      <4>7. i <= j + 1 /\ j <= Len(list) /\ i \in 1 .. Len(list) - 1
        BY <1>0, <2>3, <3>4, <4>6
      <4>8. PICK new : new = Splice(list, i, j, one)
        OBVIOUS
      <4>9. RemoveAt(ReplaceAt(list, i, c), i + 1) = new
        BY <1>0, <4>2, <4>4, <4>6, <4>7, <4>8, MergeForm
      <4>10. new # <<>> /\ new[1] = list[1]
        BY <2>3, <4>5, <4>7, <4>8, SpliceBehindHead
      <4> QED BY <3>1, <4>3, <4>9, <4>10
    <3>5. CASE ~(i < Len(list) /\ (l + 1) + 1 = list[i + 1].first)
      <4>1. extendLast(list, i) = ReplaceAt(list, i, d)
        BY <2>4, <3>2, <3>3, <3>5 DEF extendLast
      <4> QED BY <2>8, <3>1, <3>3, <4>1
    <3> QED BY <3>4, <3>5
  <2>13. CASE pos = "after"
    <3>1. FreeInto(list, v) = Append(list, e)
      BY <2>6, <2>13
    <3> QED BY <1>6, <3>1
  <2> QED BY <2>7, <2>9, <2>10, <2>11, <2>12, <2>13
<1> QED BY <1>7, <1>8

\* As long as values were taken from the front only, the head is what is left
\* of the first segment, and what is before it was handed out; after that,
\* everything was.
Fresh(list, had) ==
    /\ list # <<>>
    /\ list[1].last = last
    /\ had = first .. (list[1].first - 1)

FreshInv == ordered => first .. last \subseteq ever \/ Fresh(segs, ever)

\* What Allocate makes of such a list.
LEMMA AllocateFresh ==
    ASSUME NEW list, Good(list), NEW had, Fresh(list, had),
           SegValues(list) \subseteq first .. last,
           NEW v, v = Head(list).first
    PROVE  /\ v \notin had
           /\ first .. last \subseteq had \cup {v} \/ Fresh(AllocateFrom(list), had \cup {v})
<1>0. list \in Seq(Segments) /\ Len(list) \in Nat /\ list # <<>>
  BY DEF Good, Fresh
<1>1. 1 \in 1 .. Len(list) /\ Head(list) = list[1]
  BY <1>0
<1>2. PICK f \in Int, l \in Int : f = list[1].first /\ l = list[1].last /\ f <= l
  BY <1>1, SegmentAt
<1>3. v = f /\ l = last /\ had = first .. (f - 1)
  BY <1>1, <1>2 DEF Fresh
<1>4. f \in first .. last
  <2>1. f \in f .. l
    BY <1>2
  <2>2. f \in SegValues(list)
    BY <1>0, <1>1, <1>2, <2>1, ValuesOf
  <2> QED BY <2>2
<1>5. v \notin had
  BY <1>3, BoundsAssumption
<1>6. had \cup {v} = first .. f
  BY <1>3, <1>4, BoundsAssumption
<1>7. CASE f + 1 > l
  <2>1. f = last
    BY <1>2, <1>3, <1>7
  <2> QED BY <1>5, <1>6, <2>1
<1>8. CASE ~(f + 1 > l)
  <2>1. PICK d : d = [list[1] EXCEPT !.first = @ + 1]
    OBVIOUS
  <2>2. list[1] \in Segments
    BY <1>0, <1>1
  <2>3. d \in Segments /\ d.first = f + 1 /\ d.last = last
    <3>1. PICK z \in Segments : z = list[1]
      BY <2>2
    <3>2. z.first = f /\ z.last = l /\ d = [z EXCEPT !.first = @ + 1]
      BY <1>2, <2>1, <3>1
    <3>3. d \in Segments /\ d.first = z.first + 1 /\ d.last = z.last
      BY <3>1, <3>2 DEF Segments
    <3> QED BY <1>3, <3>2, <3>3
  <2>4. PICK new : new = ReplaceAt(list, 1, d)
    OBVIOUS
  <2>5. AllocateFrom(list) = new
    BY <1>1, <1>2, <1>8, <2>1, <2>4 DEF AllocateFrom
  <2>6. new # <<>> /\ new[1] = d
    BY <1>0, <1>1, <2>3, <2>4 DEF ReplaceAt
  <2>7. (f + 1) - 1 = f
    BY <1>2
  <2>8. Fresh(new, had \cup {v})
    BY <1>6, <2>3, <2>6, <2>7 DEF Fresh
  <2> QED BY <1>5, <2>5, <2>8
<1> QED BY <1>7, <1>8

\* The action of LazyReuse.
ReusesLast == ordered' => \A v \in (out' \ out) \cap ever : first .. last \subseteq ever

\* Every call keeps FreshInv and reuses a value only when it must.
LEMMA FreshStep == PoolInv /\ FreshInv /\ [NextOwners]_vars => FreshInv' /\ ReusesLast
<1> SUFFICES ASSUME PoolInv, FreshInv, [NextOwners]_vars  PROVE FreshInv' /\ ReusesLast
  OBVIOUS
<1>0. Good(segs) /\ SegValues(segs) \subseteq first .. last
  BY DEF PoolInv
<1>1. ASSUME segs' = segs, ever' = ever, out' = out, ordered' => ordered
      PROVE  FreshInv' /\ ReusesLast
  BY <1>1 DEF FreshInv, Fresh, ReusesLast
<1>2. CASE Allocate
  <2>1. CASE segs = <<>>
    BY <1>1, <1>2, <2>1 DEF Allocate
  <2>2. CASE segs # <<>>
    <3>1. PICK v : v = Head(segs).first
      OBVIOUS
    <3>2. /\ out' = out \cup {v} /\ ever' = ever \cup {v}
          /\ segs' = AllocateFrom(segs) /\ ordered' = ordered
      BY <1>2, <2>2, <3>1 DEF Allocate
    <3>3. CASE ~ordered
      BY <3>2, <3>3 DEF FreshInv, ReusesLast
    <3>4. CASE first .. last \subseteq ever
      BY <3>2, <3>4 DEF FreshInv, ReusesLast
    <3>5. CASE Fresh(segs, ever)
      <4>1. /\ v \notin ever
            /\ first .. last \subseteq ever' \/ Fresh(segs', ever')
        BY <1>0, <3>1, <3>2, <3>5, AllocateFresh
      <4>2. (out' \ out) \cap ever = {}
        BY <3>2, <4>1
      <4>3. FreshInv'
        BY <4>1 DEF FreshInv, Fresh
      <4> QED BY <4>2, <4>3 DEF ReusesLast
    <3> QED BY <3>3, <3>4, <3>5 DEF FreshInv
  <2> QED BY <2>1, <2>2
<1>3. ASSUME NEW v \in Args, Use(v)  PROVE FreshInv' /\ ReusesLast
  <2>1. CASE UNCHANGED <<segs, remain, out, ever, ordered>>
    BY <1>1, <2>1
  <2>2. CASE ordered' = FALSE
    BY <2>2 DEF FreshInv, ReusesLast
  <2> QED BY <1>3, <2>1, <2>2 DEF Use
<1>4. ASSUME NEW v \in out \cup {first - 1, last + 1}, Free(v)  PROVE FreshInv' /\ ReusesLast
  <2>1. CASE UNCHANGED <<segs, remain, out, ever, ordered>>
    BY <1>1, <2>1
  <2>2. CASE /\ Contains1(v, v) /\ segs' = FreeInto(segs, v) /\ out' = out \ {v}
             /\ UNCHANGED <<ever, ordered>>
    <3>1. ReusesLast
      BY <2>2 DEF ReusesLast
    <3>2. CASE ~ordered
      BY <2>2, <3>1, <3>2 DEF FreshInv
    <3>3. CASE first .. last \subseteq ever
      BY <2>2, <3>1, <3>3 DEF FreshInv
    <3>4. CASE Fresh(segs, ever)
      <4>1. v \in first .. last /\ v \notin SegValues(segs) /\ v \in Int
        BY <2>2, BoundsAssumption DEF Contains1, PoolInv
      <4>2. segs \in Seq(Segments) /\ Len(segs) \in Nat /\ segs # <<>>
        BY <1>0, <3>4 DEF Good, Fresh
      <4>3. 1 \in 1 .. Len(segs)
        BY <4>2
      <4>4. PICK f \in Int, l \in Int : f = segs[1].first /\ l = segs[1].last /\ f <= l
        BY <1>0, <4>3, SegmentAt
      <4>5. l = last /\ v \notin f .. l
        <5>1. v \notin segs[1].first .. segs[1].last
          BY <4>1, <4>2, <4>3, ValuesOf
        <5> QED BY <3>4, <4>4, <5>1 DEF Fresh
      <4>6. v < segs[1].first
        BY <4>1, <4>4, <4>5, BoundsAssumption
      <4>7. segs' # <<>> /\ segs'[1] = segs[1]
        BY <1>0, <2>2, <4>1, <4>2, <4>6, FreeKeepsHead
      <4>8. Fresh(segs', ever')
        BY <2>2, <3>4, <4>7 DEF Fresh
      <4>9. FreshInv'
        BY <4>8 DEF FreshInv, Fresh
      <4> QED BY <3>1, <4>9
    <3> QED BY <3>2, <3>3, <3>4 DEF FreshInv
  <2> QED BY <1>4, <2>1, <2>2 DEF Free
<1>5. ASSUME NEW r \in Ranges, Reserve(r[1], r[2])  PROVE FreshInv' /\ ReusesLast
  <2>1. CASE UNCHANGED <<segs, remain, out, ever, ordered>>
    BY <1>1, <2>1
  <2>2. CASE ordered' = (ordered /\ segs' = segs) /\ UNCHANGED <<out, ever>>
    <3>1. CASE segs' = segs
      BY <1>1, <2>2, <3>1
    <3>2. CASE segs' # segs
      BY <2>2, <3>2 DEF FreshInv, ReusesLast
    <3> QED BY <3>1, <3>2
  <2> QED BY <1>5, <2>1, <2>2 DEF Reserve
<1>6. CASE UNCHANGED vars
  BY <1>1, <1>6 DEF vars
<1> QED BY <1>2, <1>3, <1>4, <1>5, <1>6 DEF NextOwners

\* Lazy reuse, for any bounds: Allocate hands a value out again only when none
\* is left that was never handed out, unless Use or Reserve took values out of
\* the middle.
THEOREM ReuseIsLazy == SpecOwners => LazyReuse
<1>1. Init => FreshInv
  <2> SUFFICES ASSUME Init  PROVE Fresh(segs, ever)
    BY DEF FreshInv
  <2>1. PICK s : s = Seg(first, last)
    OBVIOUS
  <2>2. s.first = first /\ s.last = last
    BY <2>1 DEF Seg
  <2>3. segs # <<>> /\ segs[1] = s /\ ever = {}
    BY <2>1 DEF Init
  <2>4. first .. (first - 1) = {}
    BY BoundsAssumption
  <2> QED BY <2>2, <2>3, <2>4 DEF Fresh
<1>2. PoolInv /\ FreshInv /\ [NextOwners]_vars => FreshInv'
  BY FreshStep
<1>3. PoolInv /\ FreshInv /\ [NextOwners]_vars => [ReusesLast]_vars
  BY FreshStep
<1>4. SpecOwners => []FreshInv
  BY <1>1, <1>2, OwnersKeepTheList, PTL DEF SpecOwners
<1>5. SpecOwners => [][ReusesLast]_vars
  BY <1>3, <1>4, OwnersKeepTheList, PTL DEF SpecOwners
<1> QED BY <1>5 DEF LazyReuse, ReusesLast

-----------------------------------------------------------------------------
(* Address pools                                                            *)

\* What is assumed of a configuration: two pools, and no subnet that has the
\* address 0.0.0.0, which a 16-byte address is read as.
AddressPlan ==
    /\ Pools = {Dynamic, Static}
    /\ \A c \in CIDRs : c.host \in Nat /\ minAddr(c) \in Nat \ {0}

PoolRecord == [segs : Seq(Segments), first : Int, last : Int, remain : Int]

\* A pool whose list is good and whose remain counts it.
Counted(r) ==
    /\ r \in PoolRecord
    /\ Good(r.segs)
    /\ r.remain = Cardinality(SegValues(r.segs))

\* A pool as NewIPPool makes it: all but the network and the broadcast address.
IsNew(r) ==
    /\ Counted(r)
    /\ 0 < r.first /\ r.first < r.last
    /\ SegValues(r.segs) = (r.first + 1) .. (r.last - 1)

\* Reserve on a pool.
LEMMA WithoutCounted ==
    ASSUME NEW r, Counted(r), NEW a \in Int, NEW b \in Int, a <= b
    PROVE  LET w == Without(r, a, b)
           IN  /\ Counted(w) /\ w.first = r.first /\ w.last = r.last
               /\ SegValues(w.segs) = SegValues(r.segs) \ (a .. b)
<1>1. PICK left : left = ReserveFrom(r.segs, a, b)
  OBVIOUS
<1>2. Good(r.segs) /\ r \in PoolRecord
  BY DEF Counted
<1>3. Good(left) /\ SegValues(left) = SegValues(r.segs) \ (a .. b)
  BY <1>1, <1>2, ReserveGood
<1>4. PICK n : n = r.remain - (Size(r.segs) - Size(left))
  OBVIOUS
<1>5. PICK w : w = Without(r, a, b)
  OBVIOUS
<1>6. w = [r EXCEPT !.segs = left, !.remain = n]
  <2>1. w = [r EXCEPT !.segs = left, !.remain = r.remain - (Size(r.segs) - Size(left))]
    BY <1>1, <1>5 DEF Without
  <2> QED BY <1>4, <2>1
<1>7. /\ Size(r.segs) = Cardinality(SegValues(r.segs)) /\ Cardinality(SegValues(r.segs)) \in Nat
      /\ Size(left) = Cardinality(SegValues(left)) /\ Cardinality(SegValues(left)) \in Nat
  BY <1>2, <1>3, SizeIs, FS_CardinalityType
<1>8. n = Cardinality(SegValues(left)) /\ n \in Int
  BY <1>4, <1>7 DEF Counted
<1>9. left \in Seq(Segments)
  BY <1>3 DEF Good
<1>10. w \in PoolRecord /\ w.segs = left /\ w.remain = n /\ w.first = r.first /\ w.last = r.last
  BY <1>2, <1>6, <1>8, <1>9 DEF PoolRecord
<1>11. Counted(w) /\ SegValues(w.segs) = SegValues(r.segs) \ (a .. b)
  BY <1>3, <1>8, <1>10 DEF Counted
<1> QED BY <1>5, <1>10, <1>11

\* NewIPPool.
LEMMA NewPoolIsNew ==
    ASSUME AddressPlan, NEW c \in CIDRs, minAddr(c) < maxAddr(c)
    PROVE  IsNew(NewPool(c))
<1>1. PICK f \in Int : f = minAddr(c) /\ f > 0
  BY DEF AddressPlan
<1>2. PICK n \in Int : n = 2 ^ c.host
  BY DEF AddressPlan
<1>3. PICK l \in Int : l = f + n - 1
  OBVIOUS
<1>4. maxAddr(c) = l
  BY <1>1, <1>2, <1>3 DEF maxAddr
<1>5. f < l /\ n = l - f + 1
  BY <1>1, <1>3, <1>4
<1>6. PICK list : list = <<Seg(f, l)>>
  OBVIOUS
<1>7. Good(list) /\ SegValues(list) = f .. l
  BY <1>5, <1>6, OneSegment
<1>8. PICK all : all = [segs |-> list, first |-> f, last |-> l, remain |-> n]
  OBVIOUS
<1>9. Counted(all) /\ all.first = f /\ all.last = l /\ SegValues(all.segs) = f .. l
  <2>1. list \in Seq(Segments)
    BY <1>7 DEF Good
  <2>2. all \in PoolRecord /\ all.segs = list /\ all.first = f /\ all.last = l /\ all.remain = n
    BY <1>8, <2>1 DEF PoolRecord
  <2>3. Cardinality(f .. l) = IF f > l THEN 0 ELSE l - f + 1
    BY FS_Interval, Zenon
  <2>4. Cardinality(f .. l) = n
    BY <1>5, <2>3
  <2> QED BY <1>7, <2>2, <2>4 DEF Counted
<1>10. PICK w : w = Without(all, f, f)
  OBVIOUS
<1>11. PICK x : x = Without(w, l, l)
  OBVIOUS
<1>12. NewPool(c) = x
  BY <1>1, <1>2, <1>4, <1>6, <1>8, <1>10, <1>11 DEF NewPool
<1>13. Counted(w) /\ w.first = f /\ w.last = l /\ SegValues(w.segs) = (f .. l) \ (f .. f)
  BY <1>9, <1>10, WithoutCounted
<1>14. Counted(x) /\ x.first = f /\ x.last = l /\ SegValues(x.segs) = ((f .. l) \ (f .. f)) \ (l .. l)
  BY <1>11, <1>13, WithoutCounted
<1>15. ((f .. l) \ (f .. f)) \ (l .. l) = (f + 1) .. (l - 1)
  BY <1>5
<1> QED BY <1>1, <1>5, <1>12, <1>14, <1>15 DEF IsNew

-----------------------------------------------------------------------------
\* What pool p may hand out, and what its sessions have of it.
Usable(pl, p) ==
    ((pl[p].first + 1) .. (pl[p].last - 1))
      \ (IF p = Dynamic THEN pl[Static].first .. pl[Static].last ELSE {})
Has(ss, s, p, v) == ss[s] # NoAddr /\ ss[s].pool = p /\ ss[s].addr = v
Mine(ss, p) == {ss[s].addr : s \in {t \in Sessions : ss[t] # NoAddr /\ ss[t].pool = p}}

Lease == [pool : Pools, addr : Int]

\* An address is of a pool when a session has it from there.
LEMMA MineIs ==
    ASSUME NEW ss, NEW p
    PROVE  \A v : v \in Mine(ss, p) <=> \E s \in Sessions : Has(ss, s, p, v)
  BY DEF Mine, Has

\* A function changed in one place.
Changed(new, old, k, x) == new = [old EXCEPT ![k] = x]
LeaseOf(p, v) == [pool |-> p, addr |-> v]

\* A session without an address takes one.
LEMMA MineTaken ==
    ASSUME NEW ss \in [Sessions -> Lease], NEW s \in Sessions, ss[s] = NoAddr,
           NEW p \in Pools, NEW v \in Nat, NEW tt,
           Changed(tt, ss, s, LeaseOf(p, v))
    PROVE  /\ tt \in [Sessions -> Lease] /\ tt[s] # NoAddr
           /\ Mine(tt, p) = Mine(ss, p) \cup {v}
           /\ \A q \in Pools : q # p => Mine(tt, q) = Mine(ss, q)
<1>1. PICK e : e = LeaseOf(p, v)
  OBVIOUS
<1>2. e \in Lease /\ e.pool = p /\ e.addr = v /\ e # NoAddr
  <2>1. e \in Lease /\ e.pool = p /\ e.addr = v
    BY <1>1 DEF Lease, LeaseOf
  <2>2. NoAddr.addr = -1
    BY DEF NoAddr
  <2> QED BY <2>1, <2>2
<1>3. tt \in [Sessions -> Lease] /\ tt[s] = e /\ \A t \in Sessions : t # s => tt[t] = ss[t]
  BY <1>1, <1>2 DEF Changed
<1>4. \A q, u : \A t \in Sessions :
        Has(tt, t, q, u) <=> (t = s /\ q = p /\ u = v) \/ Has(ss, t, q, u)
  BY <1>2, <1>3 DEF Has
<1>5. \A q, u : u \in Mine(tt, q) <=> u \in Mine(ss, q) \/ (q = p /\ u = v)
  BY <1>4, MineIs
<1>6. \A u : u \in Mine(tt, p) <=> u \in Mine(ss, p) \cup {v}
  BY <1>5
<1>7. ASSUME NEW q \in Pools, q # p  PROVE Mine(tt, q) = Mine(ss, q)
  <2>1. \A u : u \in Mine(tt, q) <=> u \in Mine(ss, q)
    BY <1>5, <1>7
  <2> QED BY <2>1
<1>8. Mine(tt, p) = Mine(ss, p) \cup {v}
  BY <1>6
<1> QED BY <1>2, <1>3, <1>7, <1>8

\* A session gives its address back, which no other session of the pool has.
LEMMA MineDropped ==
    ASSUME NEW ss \in [Sessions -> Lease], NEW s \in Sessions, NEW p \in Pools, NEW v,
           Has(ss, s, p, v), Dynamic \in Pools,
           \A t \in Sessions : t # s => ~Has(ss, t, p, v),
           NEW tt, Changed(tt, ss, s, NoAddr)
    PROVE  /\ tt \in [Sessions -> Lease]
           /\ Mine(tt, p) = Mine(ss, p) \ {v}
           /\ \A q \in Pools : q # p => Mine(tt, q) = Mine(ss, q)
<1>1. NoAddr \in Lease
  BY DEF NoAddr, Lease
<1>2. PICK e : e = NoAddr
  OBVIOUS
<1>3. tt \in [Sessions -> Lease] /\ tt[s] = e /\ \A t \in Sessions : t # s => tt[t] = ss[t]
  BY <1>1, <1>2 DEF Changed
<1>4. \A q, u : \A t \in Sessions : Has(tt, t, q, u) <=> t # s /\ Has(ss, t, q, u)
  BY <1>2, <1>3 DEF Has
<1>5. \A q, u : Has(ss, s, q, u) => q = p /\ u = v
  BY DEF Has
<1>6. \A q, u : u \in Mine(tt, q) <=> u \in Mine(ss, q) /\ ~(q = p /\ u = v)
  <2> SUFFICES ASSUME NEW q, NEW u
               PROVE  u \in Mine(tt, q) <=> u \in Mine(ss, q) /\ ~(q = p /\ u = v)
    OBVIOUS
  <2>1. u \in Mine(tt, q) <=> \E t \in Sessions : t # s /\ Has(ss, t, q, u)
    BY <1>4, MineIs
  <2>2. u \in Mine(ss, q) <=> \E t \in Sessions : Has(ss, t, q, u)
    BY MineIs
  <2>3. CASE q = p /\ u = v
    BY <2>1, <2>3
  <2>4. CASE ~(q = p /\ u = v)
    BY <1>5, <2>1, <2>2, <2>4
  <2> QED BY <2>3, <2>4
<1>7. \A u : u \in Mine(tt, p) <=> u \in Mine(ss, p) \ {v}
  BY <1>6
<1>8. ASSUME NEW q \in Pools, q # p  PROVE Mine(tt, q) = Mine(ss, q)
  <2>1. \A u : u \in Mine(tt, q) <=> u \in Mine(ss, q)
    BY <1>6, <1>8
  <2> QED BY <2>1
<1>9. Mine(tt, p) = Mine(ss, p) \ {v}
  BY <1>7
<1> QED BY <1>3, <1>8, <1>9

\* While the pools serve: what a pool lost, its sessions have, each its own.
Serving(pl, ss) ==
    /\ pl \in [Pools -> PoolRecord] /\ ss \in [Sessions -> Lease]
    /\ \A p \in Pools : Counted(pl[p]) /\ 0 < pl[p].first /\ pl[p].first < pl[p].last
    /\ \A p \in Pools : Mine(ss, p) \subseteq Usable(pl, p)
    /\ \A p \in Pools : SegValues(pl[p].segs) = Usable(pl, p) \ Mine(ss, p)
    /\ Usable(pl, Dynamic) \cap Usable(pl, Static) = {}
    /\ \A p \in Pools, s, t \in Sessions : \A v : Has(ss, s, p, v) /\ Has(ss, t, p, v) => s = t

\* Pool p with another list and another count.
Relisted(r, list, n) == [r EXCEPT !.segs = list, !.remain = n]

IsCount(n, list) == n = Cardinality(SegValues(list))

\* A pool with another good list, counted again.
LEMMA RelistedCounted ==
    ASSUME NEW r, Counted(r), NEW list, Good(list), NEW n, IsCount(n, list),
           NEW w, w = Relisted(r, list, n)
    PROVE  Counted(w) /\ w.segs = list /\ w.first = r.first /\ w.last = r.last
<1>2. n \in Int /\ list \in Seq(Segments)
  BY SizeIs, FS_CardinalityType DEF Good, IsCount
<1>3. w \in PoolRecord /\ w.segs = list /\ w.remain = n /\ w.first = r.first /\ w.last = r.last
  BY <1>2 DEF Counted, PoolRecord, Relisted
<1>4. Counted(w)
  BY <1>3 DEF Counted, IsCount
<1> QED BY <1>3, <1>4

\* Relisting a pool does not change what it may hand out.
LEMMA RelistedUsable ==
    ASSUME NEW pl \in [Pools -> PoolRecord], NEW p \in Pools, Static \in Pools,
           NEW r \in PoolRecord, r.first = pl[p].first, r.last = pl[p].last,
           NEW new, Changed(new, pl, p, r)
    PROVE  \A q \in Pools : Usable(new, q) = Usable(pl, q)
<1>1. \A q \in Pools : new[q].first = pl[q].first /\ new[q].last = pl[q].last
  BY DEF Changed
<1> QED BY <1>1 DEF Usable

\* A session gets a free value of pool p.
LEMMA ServingTake ==
    ASSUME AddressPlan, NEW pl, NEW ss, Serving(pl, ss), NEW p \in Pools, NEW s \in Sessions,
           ss[s] = NoAddr, NEW v \in SegValues(pl[p].segs),
           NEW list, Good(list), SegValues(list) = SegValues(pl[p].segs) \ {v},
           NEW new, Changed(new, pl, p, Relisted(pl[p], list, pl[p].remain - 1)),
           NEW tt, Changed(tt, ss, s, LeaseOf(p, v))
    PROVE  Serving(new, tt)
<1>0. Static \in Pools /\ Dynamic \in Pools
  BY DEF AddressPlan
<1>1. /\ pl \in [Pools -> PoolRecord] /\ ss \in [Sessions -> Lease] /\ Counted(pl[p])
      /\ 0 < pl[p].first /\ v \in Usable(pl, p) /\ v \notin Mine(ss, p)
  BY DEF Serving
<1>2. v \in Nat
  <2>1. PICK f \in Int, l \in Int : f = pl[p].first /\ l = pl[p].last
    BY <1>1 DEF PoolRecord
  <2>2. v \in (f + 1) .. (l - 1) /\ 0 < f
    BY <1>1, <2>1 DEF Usable
  <2> QED BY <2>2
<1>3. PICK n : n = pl[p].remain - 1
  OBVIOUS
<1>4. PICK r : r = Relisted(pl[p], list, n)
  OBVIOUS
<1>5. IsCount(n, list)
  <2>1. IsFiniteSet(SegValues(pl[p].segs)) /\ pl[p].remain = Cardinality(SegValues(pl[p].segs))
    BY <1>1, SizeIs DEF Counted
  <2>2. Cardinality(SegValues(pl[p].segs) \ {v}) = Cardinality(SegValues(pl[p].segs)) - 1
    BY <2>1, FS_RemoveElement
  <2> QED BY <1>3, <2>1, <2>2 DEF IsCount
<1>6. Counted(r) /\ r.segs = list /\ r.first = pl[p].first /\ r.last = pl[p].last
  BY <1>1, <1>4, <1>5, RelistedCounted
<1>7. Changed(new, pl, p, r) /\ r \in PoolRecord
  BY <1>3, <1>4, <1>6 DEF Counted
<1>8. /\ new \in [Pools -> PoolRecord] /\ new[p] = r
      /\ \A q \in Pools : q # p => new[q] = pl[q]
  BY <1>1, <1>7 DEF Changed
<1>9. \A q \in Pools : Usable(new, q) = Usable(pl, q)
  BY <1>0, <1>1, <1>6, <1>7, RelistedUsable
<1>10. /\ tt \in [Sessions -> Lease] /\ Mine(tt, p) = Mine(ss, p) \cup {v}
       /\ \A q \in Pools : q # p => Mine(tt, q) = Mine(ss, q)
  BY <1>1, <1>2, MineTaken
<1>11. ASSUME NEW q \in Pools
       PROVE  /\ Counted(new[q]) /\ 0 < new[q].first /\ new[q].first < new[q].last
              /\ Mine(tt, q) \subseteq Usable(new, q)
              /\ SegValues(new[q].segs) = Usable(new, q) \ Mine(tt, q)
  <2>1. CASE q = p
    <3>1. new[q] = r /\ SegValues(r.segs) = SegValues(pl[p].segs) \ {v}
      BY <1>6, <1>8, <2>1
    <3>2. SegValues(pl[p].segs) = Usable(pl, p) \ Mine(ss, p) /\ Mine(ss, p) \subseteq Usable(pl, p)
          /\ pl[p].first < pl[p].last
      BY DEF Serving
    <3>3. SegValues(new[q].segs) = Usable(new, q) \ Mine(tt, q)
      BY <1>9, <1>10, <2>1, <3>1, <3>2
    <3>4. Mine(tt, q) \subseteq Usable(new, q)
      BY <1>1, <1>9, <1>10, <2>1, <3>2
    <3> QED BY <1>1, <1>6, <3>1, <3>2, <3>3, <3>4
  <2>2. CASE q # p
    BY <1>8, <1>9, <1>10, <2>2 DEF Serving
  <2> QED BY <2>1, <2>2
<1>12. Usable(new, Dynamic) \cap Usable(new, Static) = {}
  BY <1>0, <1>9 DEF Serving
<1>13. ASSUME NEW q \in Pools, NEW a \in Sessions, NEW b \in Sessions, NEW u,
              Has(tt, a, q, u), Has(tt, b, q, u)
       PROVE  a = b
  <2>1. \A t \in Sessions : t # s => tt[t] = ss[t]
    BY <1>1 DEF Changed
  <2>2. tt[s].pool = p /\ tt[s].addr = v
    BY <1>1 DEF Changed, LeaseOf
  <2>3. \A t \in Sessions : t # s /\ Has(tt, t, q, u) => Has(ss, t, q, u)
    BY <2>1 DEF Has
  <2>4. \A t \in Sessions : Has(ss, t, p, v) => FALSE
    BY <1>1, MineIs
  <2>5. Has(tt, s, q, u) => q = p /\ u = v
    BY <2>2 DEF Has
  <2>6. CASE a = s \/ b = s
    BY <1>13, <2>3, <2>4, <2>5, <2>6
  <2>7. CASE a # s /\ b # s
    BY <1>13, <2>3, <2>7 DEF Serving
  <2> QED BY <2>6, <2>7
<1> QED BY <1>8, <1>10, <1>11, <1>12, <1>13 DEF Serving

\* A session gives its value back to the pool it came from.
LEMMA ServingGive ==
    ASSUME AddressPlan, NEW pl, NEW ss, Serving(pl, ss), NEW p \in Pools, NEW s \in Sessions,
           NEW v, Has(ss, s, p, v),
           NEW list, Good(list), SegValues(list) = SegValues(pl[p].segs) \cup {v},
           NEW new, Changed(new, pl, p, Relisted(pl[p], list, pl[p].remain + 1)),
           NEW tt, Changed(tt, ss, s, NoAddr)
    PROVE  Serving(new, tt)
<1>0. Static \in Pools /\ Dynamic \in Pools
  BY DEF AddressPlan
<1>1. /\ pl \in [Pools -> PoolRecord] /\ ss \in [Sessions -> Lease] /\ Counted(pl[p])
      /\ v \in Mine(ss, p) /\ v \in Usable(pl, p) /\ v \notin SegValues(pl[p].segs)
  BY MineIs DEF Serving
<1>3. PICK n : n = pl[p].remain + 1
  OBVIOUS
<1>4. PICK r : r = Relisted(pl[p], list, n)
  OBVIOUS
<1>5. IsCount(n, list)
  <2>1. IsFiniteSet(SegValues(pl[p].segs)) /\ pl[p].remain = Cardinality(SegValues(pl[p].segs))
    BY <1>1, SizeIs DEF Counted
  <2>2. Cardinality(SegValues(pl[p].segs) \cup {v}) = Cardinality(SegValues(pl[p].segs)) + 1
    BY <1>1, <2>1, FS_AddElement
  <2> QED BY <1>3, <2>1, <2>2 DEF IsCount
<1>6. Counted(r) /\ r.segs = list /\ r.first = pl[p].first /\ r.last = pl[p].last
  BY <1>1, <1>4, <1>5, RelistedCounted
<1>7. Changed(new, pl, p, r) /\ r \in PoolRecord
  BY <1>3, <1>4, <1>6 DEF Counted
<1>8. /\ new \in [Pools -> PoolRecord] /\ new[p] = r
      /\ \A q \in Pools : q # p => new[q] = pl[q]
  BY <1>1, <1>7 DEF Changed
<1>9. \A q \in Pools : Usable(new, q) = Usable(pl, q)
  BY <1>0, <1>1, <1>6, <1>7, RelistedUsable
<1>10. /\ tt \in [Sessions -> Lease] /\ Mine(tt, p) = Mine(ss, p) \ {v}
       /\ \A q \in Pools : q # p => Mine(tt, q) = Mine(ss, q)
  <2>1. \A t \in Sessions : t # s => ~Has(ss, t, p, v)
    BY DEF Serving
  <2> QED BY <1>0, <1>1, <2>1, MineDropped
<1>11. ASSUME NEW q \in Pools
       PROVE  /\ Counted(new[q]) /\ 0 < new[q].first /\ new[q].first < new[q].last
              /\ Mine(tt, q) \subseteq Usable(new, q)
              /\ SegValues(new[q].segs) = Usable(new, q) \ Mine(tt, q)
  <2>1. CASE q = p
    <3>1. new[q] = r /\ SegValues(r.segs) = SegValues(pl[p].segs) \cup {v}
      BY <1>6, <1>8, <2>1
    <3>2. SegValues(pl[p].segs) = Usable(pl, p) \ Mine(ss, p) /\ Mine(ss, p) \subseteq Usable(pl, p)
          /\ 0 < pl[p].first /\ pl[p].first < pl[p].last
      BY DEF Serving
    <3>3. SegValues(new[q].segs) = Usable(new, q) \ Mine(tt, q)
      BY <1>1, <1>9, <1>10, <2>1, <3>1, <3>2
    <3>4. Mine(tt, q) \subseteq Usable(new, q)
      BY <1>9, <1>10, <2>1, <3>2
    <3> QED BY <1>6, <3>1, <3>2, <3>3, <3>4
  <2>2. CASE q # p
    BY <1>8, <1>9, <1>10, <2>2 DEF Serving
  <2> QED BY <2>1, <2>2
<1>12. Usable(new, Dynamic) \cap Usable(new, Static) = {}
  BY <1>0, <1>9 DEF Serving
<1>13. ASSUME NEW q \in Pools, NEW a \in Sessions, NEW b \in Sessions, NEW u,
              Has(tt, a, q, u), Has(tt, b, q, u)
       PROVE  a = b
  <2>1. \A t \in Sessions : t # s => tt[t] = ss[t]
    BY <1>1 DEF Changed
  <2>2. tt[s] = NoAddr
    BY <1>1 DEF Changed
  <2>3. \A t \in Sessions : Has(tt, t, q, u) => Has(ss, t, q, u)
    BY <2>1, <2>2 DEF Has
  <2> QED BY <1>13, <2>3 DEF Serving
<1> QED BY <1>8, <1>10, <1>11, <1>12, <1>13 DEF Serving

\* The invariant: before the pools serve, each is new or not made yet and no
\* session has an address; afterwards, what a pool lost its sessions have.
IPInv ==
    /\ pool \in [Pools -> PoolRecord] /\ sess \in [Sessions -> Lease]
    /\ ~serving => /\ \A s \in Sessions : sess[s] = NoAddr
                   /\ \A p \in Pools : pool[p] = NoPool \/ IsNew(pool[p])
    /\ serving => Serving(pool, sess)

\* The invariant holds before a pool is made.
LEMMA InitIPInv == AddressPlan /\ InitPools => IPInv
<1> SUFFICES ASSUME AddressPlan, InitPools  PROVE IPInv
  OBVIOUS
<1>1. NoPool \in PoolRecord
  <2>1. <<>> \in Seq(Segments)
    OBVIOUS
  <2> QED BY <2>1 DEF NoPool, PoolRecord
<1>2. NoAddr \in Lease
  BY DEF NoAddr, Lease, AddressPlan
<1> QED BY <1>1, <1>2 DEF InitPools, IPInv

\* Exclude starts to serve with two pools that share no address.
LEMMA ExcludeServes ==
    ASSUME AddressPlan, NEW pl \in [Pools -> PoolRecord], NEW ss \in [Sessions -> Lease],
           \A s \in Sessions : ss[s] = NoAddr,
           NEW d, d = pl[Dynamic], NEW t, t = pl[Static], IsNew(d), IsNew(t),
           NEW new \in [Pools -> PoolRecord], NEW w, new[Dynamic] = w, new[Static] = t,
           Counted(w), w.first = d.first, w.last = d.last,
           SegValues(w.segs) = SegValues(d.segs) \ (t.first .. t.last)
    PROVE  Serving(new, ss)
<1>0. Pools = {Dynamic, Static} /\ Dynamic # Static
  BY PoolsAssumption DEF AddressPlan
<1>1. \A p \in Pools : Mine(ss, p) = {}
  <2>1. \A p, v : \A s \in Sessions : ~Has(ss, s, p, v)
    BY DEF Has
  <2> QED BY <2>1, MineIs
<1>2. PICK a \in Int, b \in Int : a = d.first /\ b = d.last /\ 0 < a /\ a < b
  BY DEF IsNew, Counted, PoolRecord
<1>3. PICK f \in Int, l \in Int : f = t.first /\ l = t.last /\ 0 < f /\ f < l
  BY DEF IsNew, Counted, PoolRecord
<1>4. Usable(new, Dynamic) = ((a + 1) .. (b - 1)) \ (f .. l)
  BY <1>2, <1>3 DEF Usable
<1>5. Usable(new, Static) = (f + 1) .. (l - 1)
  BY <1>0, <1>3 DEF Usable
<1>6. SegValues(d.segs) = (a + 1) .. (b - 1) /\ SegValues(t.segs) = (f + 1) .. (l - 1)
  BY <1>2, <1>3 DEF IsNew
<1>7. SegValues(w.segs) = Usable(new, Dynamic) /\ SegValues(t.segs) = Usable(new, Static)
  BY <1>3, <1>4, <1>5, <1>6
<1>8. Usable(new, Dynamic) \cap Usable(new, Static) = {}
  BY <1>4, <1>5
<1>9. ASSUME NEW p \in Pools
      PROVE  /\ Counted(new[p]) /\ 0 < new[p].first /\ new[p].first < new[p].last
             /\ SegValues(new[p].segs) = Usable(new, p)
  <2>1. CASE p = Dynamic
    BY <1>2, <1>7, <2>1
  <2>2. CASE p = Static
    <3>1. Counted(t)
      BY DEF IsNew
    <3> QED BY <1>3, <1>7, <2>2, <3>1
  <2> QED BY <1>0, <2>1, <2>2
<1>10. \A p \in Pools : SegValues(new[p].segs) = Usable(new, p) \ Mine(ss, p)
  BY <1>1, <1>9
<1>11. \A p \in Pools, s, u \in Sessions : \A v : Has(ss, s, p, v) /\ Has(ss, u, p, v) => s = u
  BY DEF Has
<1>12. \A p \in Pools : Mine(ss, p) \subseteq Usable(new, p)
  BY <1>1
<1> QED BY <1>8, <1>9, <1>10, <1>11, <1>12 DEF Serving

\* Exclude keeps the invariant, whichever way it answers.
LEMMA ExcludeIPInv == AddressPlan /\ IPInv /\ Exclude => IPInv'
<1> SUFFICES ASSUME AddressPlan, IPInv, Exclude  PROVE IPInv'
  OBVIOUS
<1>0. Pools = {Dynamic, Static} /\ Dynamic # Static
  BY PoolsAssumption DEF AddressPlan
<1>1. PICK d : d = pool[Dynamic]
  OBVIOUS
<1>2. PICK t : t = pool[Static]
  OBVIOUS
<1>3. /\ ~serving /\ sess' = sess
      /\ d # NoPool /\ t # NoPool
      /\ serving' = (Contained(d, t) \/ ~IsJoint(d, t))
  BY <1>1, <1>2 DEF Exclude
<1>4. /\ IsNew(d) /\ IsNew(t) /\ \A s \in Sessions : sess[s] = NoAddr
      /\ pool \in [Pools -> PoolRecord] /\ sess \in [Sessions -> Lease]
  BY <1>0, <1>1, <1>2, <1>3 DEF IPInv
<1>5. PICK a \in Int, b \in Int : a = d.first /\ b = d.last /\ 0 < a /\ a < b
  BY <1>4 DEF IsNew, Counted, PoolRecord
<1>6. PICK f \in Int, l \in Int : f = t.first /\ l = t.last /\ 0 < f /\ f < l
  BY <1>4 DEF IsNew, Counted, PoolRecord
<1>7. CASE Contained(d, t)
  <2>1. PICK w : w = Without(d, f, l)
    OBVIOUS
  <2>2. Changed(pool', pool, Dynamic, w)
    BY <1>1, <1>2, <1>6, <1>7, <2>1 DEF Exclude, Changed
  <2>3. /\ Counted(w) /\ w.first = d.first /\ w.last = d.last
        /\ SegValues(w.segs) = SegValues(d.segs) \ (f .. l)
    <3>1. Counted(d) /\ f <= l
      BY <1>4, <1>6 DEF IsNew
    <3> QED BY <2>1, <3>1, WithoutCounted
  <2>4. pool' \in [Pools -> PoolRecord] /\ pool'[Dynamic] = w /\ pool'[Static] = t
    <3>1. w \in PoolRecord
      BY <2>3 DEF Counted
    <3> QED BY <1>0, <1>2, <1>4, <2>2, <3>1 DEF Changed
  <2>5. SegValues(w.segs) = SegValues(d.segs) \ (t.first .. t.last)
    BY <1>6, <2>3
  <2>6. Serving(pool', sess)
    BY <1>1, <1>2, <1>4, <2>3, <2>4, <2>5, ExcludeServes
  <2>7. serving' /\ Serving(pool', sess')
    BY <1>3, <1>7, <2>6
  <2> QED BY <1>3, <1>4, <2>4, <2>7 DEF IPInv
<1>8. CASE ~Contained(d, t) /\ ~IsJoint(d, t)
  <2>1. pool' = pool
    BY <1>1, <1>2, <1>8 DEF Exclude
  <2>2. l < a \/ b < f
    BY <1>5, <1>6, <1>8 DEF IsJoint
  <2>3. SegValues(d.segs) = (a + 1) .. (b - 1)
    BY <1>4, <1>5 DEF IsNew
  <2>4. SegValues(d.segs) = SegValues(d.segs) \ (t.first .. t.last)
    BY <1>6, <2>2, <2>3
  <2>5. Counted(d)
    BY <1>4 DEF IsNew
  <2>6. Serving(pool, sess)
    BY <1>1, <1>2, <1>4, <2>4, <2>5, ExcludeServes
  <2>7. serving' /\ Serving(pool', sess')
    BY <1>3, <1>8, <2>1, <2>6
  <2> QED BY <1>3, <1>4, <2>1, <2>7 DEF IPInv
<1>9. CASE ~Contained(d, t) /\ IsJoint(d, t)
  <2>1. pool' = pool /\ ~serving'
    BY <1>1, <1>2, <1>3, <1>9 DEF Exclude
  <2> QED BY <1>3, <2>1 DEF IPInv
<1> QED BY <1>7, <1>8, <1>9

\* NewIPPool keeps the invariant.
LEMMA NewIPInv ==
    ASSUME NEW p \in Pools, NEW c \in CIDRs
    PROVE  AddressPlan /\ IPInv /\ NewIPPool(p, c) => IPInv'
<1> SUFFICES ASSUME AddressPlan, IPInv, NewIPPool(p, c)  PROVE IPInv'
  OBVIOUS
<1>1. PICK r : r = NewPool(c)
  OBVIOUS
<1>2. /\ ~serving /\ ~serving' /\ sess' = sess /\ minAddr(c) < maxAddr(c)
      /\ Changed(pool', pool, p, r)
  BY <1>1 DEF NewIPPool, Changed
<1>3. IsNew(r)
  BY <1>1, <1>2, NewPoolIsNew
<1>4. r \in PoolRecord
  BY <1>3 DEF IsNew, Counted
<1>5. /\ pool' \in [Pools -> PoolRecord] /\ pool'[p] = r
      /\ \A q \in Pools : q # p => pool'[q] = pool[q]
  BY <1>2, <1>4 DEF IPInv, Changed
<1>6. \A q \in Pools : pool'[q] = NoPool \/ IsNew(pool'[q])
  BY <1>2, <1>3, <1>5 DEF IPInv
<1> QED BY <1>2, <1>5, <1>6 DEF IPInv

\* Both parts of a pool that a call changes, as one change.
BothParts(new, pl, p, list, n) == new = [pl EXCEPT ![p].segs = list, ![p].remain = n]

\* The two ways to write it are one.
LEMMA RelistPool ==
    ASSUME NEW pl \in [Pools -> PoolRecord], NEW p \in Pools, NEW list, NEW n,
           NEW new, BothParts(new, pl, p, list, n)
    PROVE  Changed(new, pl, p, Relisted(pl[p], list, n))
  BY DEF BothParts, Changed, Relisted, PoolRecord

\* Allocate(nil) keeps the invariant.
LEMMA AllocateIPInv ==
    ASSUME NEW s \in Sessions, NEW p \in Pools
    PROVE  AddressPlan /\ IPInv /\ AllocateNil(s, p) => IPInv'
<1> SUFFICES ASSUME AddressPlan, IPInv, AllocateNil(s, p)  PROVE IPInv'
  OBVIOUS
<1>1. /\ serving /\ serving' /\ sess[s] = NoAddr /\ pool[p].segs # <<>>
      /\ Serving(pool, sess) /\ pool \in [Pools -> PoolRecord]
  BY DEF AllocateNil, IPInv
<1>2. PICK list : list = pool[p].segs
  OBVIOUS
<1>3. PICK v : v = Head(list).first
  OBVIOUS
<1>4. PICK left : left = AllocateFrom(list)
  OBVIOUS
<1>5. Good(list) /\ list # <<>>
  BY <1>1, <1>2 DEF Serving, Counted
<1>6. v \in SegValues(pool[p].segs) /\ Good(left) /\ SegValues(left) = SegValues(pool[p].segs) \ {v}
  BY <1>2, <1>3, <1>4, <1>5, AllocateGood
<1>7. Changed(sess', sess, s, LeaseOf(p, v))
  BY <1>2, <1>3 DEF AllocateNil, Changed, LeaseOf
<1>8. Changed(pool', pool, p, Relisted(pool[p], left, pool[p].remain - 1))
  <2>1. BothParts(pool', pool, p, left, pool[p].remain - 1)
    BY <1>2, <1>4 DEF AllocateNil, BothParts
  <2> QED BY <1>1, <2>1, RelistPool
<1>9. Serving(pool', sess')
  BY <1>1, <1>6, <1>7, <1>8, ServingTake
<1> QED BY <1>1, <1>9 DEF IPInv, Serving

\* Allocate and Reallocate of a requested address keep the invariant.
LEMMA RequestIPInv ==
    ASSUME NEW s \in Sessions, NEW p \in Pools, NEW a \in Addresses, NEW len \in {4, 16}
    PROVE  AddressPlan /\ IPInv /\ AllocateRequest(s, p, IP(a, len)) => IPInv'
<1> SUFFICES ASSUME AddressPlan, IPInv, AllocateRequest(s, p, IP(a, len))  PROVE IPInv'
  OBVIOUS
<1>1. PICK list : list = pool[p].segs
  OBVIOUS
<1>2. PICK v : v = Uint32(IP(a, len))
  OBVIOUS
<1>3. PICK i : i = SegmentOf(list, v)
  OBVIOUS
<1>4. PICK left : left = UseFrom(list, i, v)
  OBVIOUS
<1>5. v \in Int
  <2>1. a \in Int
    <3>1. PICK c \in CIDRs : a \in minAddr(c) .. maxAddr(c)
      BY DEF Addresses
    <3>2. minAddr(c) \in Int
      BY DEF AddressPlan
    <3> QED BY <3>1, <3>2
  <2> QED BY <1>2, <2>1 DEF Uint32, IP
<1>6. /\ serving /\ serving' /\ sess[s] = NoAddr /\ i # 0
      /\ Serving(pool, sess) /\ pool \in [Pools -> PoolRecord]
  BY <1>1, <1>2, <1>3 DEF AllocateRequest, IPInv
<1>7. Good(list)
  BY <1>1, <1>6 DEF Serving, Counted
<1>8. v \in SegValues(list) /\ i \in 1 .. Len(list) /\ v \in Vals(list[i])
  BY <1>3, <1>5, <1>6, <1>7, SegmentOfFound
<1>9. Good(left) /\ SegValues(left) = SegValues(list) \ {v}
  BY <1>4, <1>7, <1>8, UseGood DEF Vals
<1>10. Changed(sess', sess, s, LeaseOf(p, v))
  BY <1>2 DEF AllocateRequest, Changed, LeaseOf
<1>11. Changed(pool', pool, p, Relisted(pool[p], left, pool[p].remain - 1))
  <2>1. BothParts(pool', pool, p, left, pool[p].remain - 1)
    BY <1>1, <1>2, <1>3, <1>4 DEF AllocateRequest, BothParts
  <2> QED BY <1>6, <2>1, RelistPool
<1>12. v \in SegValues(pool[p].segs) /\ SegValues(left) = SegValues(pool[p].segs) \ {v}
  BY <1>1, <1>8, <1>9
<1>13. Serving(pool', sess')
  BY <1>6, <1>9, <1>10, <1>11, <1>12, ServingTake
<1> QED BY <1>6, <1>13 DEF IPInv, Serving

\* Release keeps the invariant: it finds the address of the session, or nothing.
LEMMA ReleaseIPInv ==
    ASSUME NEW s \in Sessions, NEW len \in {4, 16}
    PROVE  AddressPlan /\ IPInv /\ Release(s, len) => IPInv'
<1> SUFFICES ASSUME AddressPlan, IPInv, Release(s, len)  PROVE IPInv'
  OBVIOUS
<1>1. PICK p : p = sess[s].pool
  OBVIOUS
<1>2. PICK v : v = Uint32(IP(sess[s].addr, len))
  OBVIOUS
<1>3. PICK list : list = pool[p].segs
  OBVIOUS
<1>4. PICK more : more = FreeInto(list, v)
  OBVIOUS
<1>5. /\ serving /\ serving' /\ sess[s] # NoAddr /\ v \in pool[p].first .. pool[p].last
      /\ Serving(pool, sess)
      /\ pool \in [Pools -> PoolRecord] /\ sess \in [Sessions -> Lease]
  BY <1>1, <1>2 DEF Release, IPInv
<1>6. p \in Pools /\ sess[s].addr \in Int
  BY <1>1, <1>5 DEF Lease
<1>7. v = sess[s].addr /\ v \in Int
  <2>1. pool[p].first \in Int /\ 0 < pool[p].first
    BY <1>5, <1>6 DEF Serving, PoolRecord
  <2>2. v # 0
    BY <1>5, <2>1
  <2> QED BY <1>2, <1>6, <2>2 DEF Uint32, IP
<1>8. Has(sess, s, p, v)
  BY <1>1, <1>5, <1>7 DEF Has
<1>9. Good(list) /\ v \notin SegValues(list)
  <2>1. v \in Mine(sess, p)
    BY <1>8, MineIs
  <2> QED BY <1>3, <1>5, <1>6, <2>1 DEF Serving, Counted
<1>10. Good(more) /\ SegValues(more) = SegValues(pool[p].segs) \cup {v}
  BY <1>3, <1>4, <1>7, <1>9, FreeGood
<1>11. Changed(sess', sess, s, NoAddr)
  BY DEF Release, Changed
<1>12. Changed(pool', pool, p, Relisted(pool[p], more, pool[p].remain + 1))
  <2>1. BothParts(pool', pool, p, more, pool[p].remain + 1)
    BY <1>1, <1>2, <1>3, <1>4 DEF Release, BothParts
  <2> QED BY <1>5, <1>6, <2>1, RelistPool
<1>13. Serving(pool', sess')
  BY <1>5, <1>6, <1>8, <1>10, <1>11, <1>12, ServingGive
<1> QED BY <1>5, <1>13 DEF IPInv, Serving

\* The invariant of the address pools.
THEOREM PoolsKeepTheirAddresses == ASSUME AddressPlan PROVE Spec => []IPInv
<1>1. InitPools => IPInv
  BY InitIPInv
<1>2. IPInv /\ [Next]_poolVars => IPInv'
  <2> SUFFICES ASSUME IPInv, [Next]_poolVars  PROVE IPInv'
    OBVIOUS
  <2>1. CASE UNCHANGED poolVars
    BY <2>1 DEF poolVars, IPInv
  <2> QED BY <2>1, NewIPInv, ExcludeIPInv, AllocateIPInv, RequestIPInv, ReleaseIPInv DEF Next
<1> QED BY <1>1, <1>2, PTL DEF Spec

\* No two sessions have one address, for any subnets of the two pools and any
\* number of sessions.
THEOREM AddressesNotShared == ASSUME AddressPlan PROVE Spec => []NoSharedAddress
<1>1. IPInv => NoSharedAddress
  <2> SUFFICES ASSUME IPInv, NEW s \in Sessions, NEW t \in Sessions, s # t,
                      sess[s] # NoAddr, sess[t] # NoAddr, sess[s].addr = sess[t].addr
               PROVE  FALSE
    BY DEF NoSharedAddress, Held
  <2>1. serving /\ Serving(pool, sess)
    BY DEF IPInv
  <2>2. PICK p, q, v : p = sess[s].pool /\ q = sess[t].pool /\ v = sess[s].addr
    OBVIOUS
  <2>3. p \in Pools /\ q \in Pools
    BY <2>2 DEF IPInv, Lease
  <2>4. Has(sess, s, p, v) /\ Has(sess, t, q, v)
    BY <2>2 DEF Has
  <2>5. p # q
    BY <2>1, <2>3, <2>4 DEF Serving
  <2>6. v \in Usable(pool, p) /\ v \in Usable(pool, q)
    BY <2>1, <2>3, <2>4, MineIs DEF Serving
  <2>7. Usable(pool, Dynamic) \cap Usable(pool, Static) = {}
    BY <2>1 DEF Serving
  <2> QED BY <2>3, <2>5, <2>6, <2>7 DEF AddressPlan
<1> QED BY <1>1, PoolsKeepTheirAddresses, PTL

\* No address leaks from a pool that serves, and remain counts what is left.
THEOREM AddressesAccounted == ASSUME AddressPlan PROVE Spec => []NothingLost
<1>1. IPInv => NothingLost
  <2> SUFFICES ASSUME IPInv, serving, NEW p \in Pools
               PROVE  /\ Mine(sess, p) \subseteq Usable(pool, p)
                      /\ SegValues(pool[p].segs) = Usable(pool, p) \ Mine(sess, p)
                      /\ pool[p].remain = Cardinality(Usable(pool, p) \ Mine(sess, p))
    BY DEF NothingLost, Held, Mine, Usable
  <2>1. Serving(pool, sess)
    BY DEF IPInv
  <2>2. /\ Mine(sess, p) \subseteq Usable(pool, p)
        /\ SegValues(pool[p].segs) = Usable(pool, p) \ Mine(sess, p)
        /\ pool[p].remain = Cardinality(SegValues(pool[p].segs))
    BY <2>1 DEF Serving, Counted
  <2> QED BY <2>2
<1> QED BY <1>1, PoolsKeepTheirAddresses, PTL
=============================================================================
