---------------------------- MODULE SegmentList ----------------------------
(***************************************************************************)
(* The linked list of free segments of lib/util/ippool/lazyReusePool.go as *)
(* a sequence of [first, last] records, head first, and what each method   *)
(* of LazyReusePool and of segment does to it.  Pointer surgery becomes    *)
(* replacing, inserting or removing elements; the order of the elements,   *)
(* which the methods rely on, is kept.                                     *)
(***************************************************************************)
EXTENDS Integers, Sequences, FiniteSets, SequencesExt

Seg(first, last) == [first |-> first, last |-> last]
newSingleSegment(num) == Seg(num, num)

\* The values a list stands for.
SegValues(list) == UNION {list[i].first .. list[i].last : i \in DOMAIN list}

relativePosisionOf(s, value) ==
    CASE value < s.first - 1              -> "before"
      [] value = s.first - 1              -> "adjacentToTheFront"
      [] s.first <= value /\ value <= s.last -> "withinThisSegment"
      [] value = s.last + 1               -> "adjacentToTheBack"
      [] OTHER                            -> "after"

-----------------------------------------------------------------------------
\* Allocate on a non-empty list: the first value of the head leaves it.
AllocateFrom(list) ==
    IF Head(list).first + 1 > Head(list).last
    THEN Tail(list)
    ELSE ReplaceAt(list, 1, [Head(list) EXCEPT !.first = @ + 1])

\* split: value `use' leaves the i-th segment, which has more than one value.
split(list, i, use) ==
    LET s == list[i]
    IN  IF use = s.first THEN ReplaceAt(list, i, Seg(s.first + 1, s.last))
        ELSE IF use = s.last THEN ReplaceAt(list, i, Seg(s.first, s.last - 1))
        ELSE InsertAt(ReplaceAt(list, i, Seg(s.first, use - 1)),
                      i + 1, Seg(use + 1, s.last))

\* Where Use finds value: the first segment that has it, 0 when none has.
SegmentOf(list, value) ==
    SelectInSeq(list, LAMBDA s : relativePosisionOf(s, value) = "withinThisSegment")

\* Use of a value that the i-th segment has.
UseFrom(list, i, value) ==
    IF list[i].first = list[i].last THEN RemoveAt(list, i)
                                    ELSE split(list, i, value)

-----------------------------------------------------------------------------
\* Mutant of extendLast: the swallowed successor stays in the list.
MutExtendLast(list, i) ==
    LET s == Seg(list[i].first, list[i].last + 1)
    IN  IF i < Len(list) /\ s.last + 1 = list[i + 1].first
        THEN ReplaceAt(list, i, Seg(s.first, list[i + 1].last))
        ELSE ReplaceAt(list, i, s)

\* extendLast: the i-th segment grows by one and swallows its successor when
\* the two meet.
extendLast(list, i) ==
    LET s == Seg(list[i].first, list[i].last + 1)
    IN  IF i < Len(list) /\ s.last + 1 = list[i + 1].first
        THEN RemoveAt(ReplaceAt(list, i, Seg(s.first, list[i + 1].last)), i + 1)
        ELSE ReplaceAt(list, i, s)

\* Where Free's loop over the segments after the head stops: at the first
\* segment that value is not behind, or at the last one.
StopOf(list, value) ==
    LET i == SelectInSubSeq(list, 2, Len(list),
                            LAMBDA s : relativePosisionOf(s, value) # "after")
    IN  IF i = 0 THEN Len(list) ELSE i

\* Mutant of FreeInto: a value that precedes the head is put before it.
MutFreeInto(list, value) ==
    IF list # <<>> /\ relativePosisionOf(Head(list), value) \in {"before", "adjacentToTheFront"}
    THEN <<newSingleSegment(value)>> \o list
    ELSE Append(list, newSingleSegment(value))

\* Free of a value of the pool.  The list comes back unchanged exactly when
\* the free is taken for a duplicate.
FreeInto(list, value) ==
    IF list = <<>> THEN <<newSingleSegment(value)>>
    ELSE IF relativePosisionOf(Head(list), value) = "withinThisSegment" THEN list
    ELSE IF relativePosisionOf(Head(list), value) = "adjacentToTheBack" THEN extendLast(list, 1)
    ELSE IF Len(list) = 1 THEN Append(list, newSingleSegment(value))
    ELSE LET i == StopOf(list, value)
             pos == relativePosisionOf(list[i], value)
         IN  CASE pos = "before"             -> InsertAt(list, i, newSingleSegment(value))
               [] pos = "adjacentToTheFront" -> ReplaceAt(list, i, Seg(value, list[i].last))
               [] pos = "withinThisSegment"  -> list
               [] pos = "adjacentToTheBack"  -> extendLast(list, i)
               [] pos = "after"              -> Append(list, newSingleSegment(value))

-----------------------------------------------------------------------------
\* What the loop of Reserve(first, last) makes of one segment.
Trim(s, first, last) ==
    CASE first <= s.first /\ s.first <= last /\ last < s.last -> <<Seg(last + 1, s.last)>>
      [] s.first < first /\ first <= s.last /\ s.last <= last -> <<Seg(s.first, first - 1)>>
      [] s.first < first /\ last < s.last -> <<Seg(s.first, first - 1), Seg(last + 1, s.last)>>
      [] first <= s.first /\ s.last <= last -> <<>>
      [] OTHER -> <<s>>

\* Mutant of ReserveFrom: the upper part of a segment cut in two is lost.
MutReserveFrom(list, first, last) ==
    FlattenSeq([i \in DOMAIN list |->
                  LET t == Trim(list[i], first, last)
                  IN  IF t = <<>> THEN t ELSE <<t[1]>>])

\* Reserve on a list: every segment is trimmed, cut in two or dropped.
ReserveFrom(list, first, last) ==
    FlattenSeq([i \in DOMAIN list |-> Trim(list[i], first, last)])

\* How many values the segments count, one by one.
Size(list) == FoldSeq(LAMBDA s, n : n + (s.last - s.first + 1), 0, list)
=============================================================================
