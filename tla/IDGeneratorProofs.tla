------------------------- MODULE IDGeneratorProofs -------------------------
(***************************************************************************)
(* Proofs about IDGenerator for every range and every set of callers: the  *)
(* safety properties that MCSharedObjects checks on three IDs.             *)
(***************************************************************************)
EXTENDS IDGenerator, TLAPS

\* The range is not empty, so the modulus of updateOffset is not 0.
LEMMA RangeFacts == /\ valueRange \in Nat \ {0}
                    /\ 0 \in Offsets
                    /\ \A o \in Offsets : o \in Int /\ 0 <= o /\ o < valueRange
  BY RangeAssumption DEF valueRange, Offsets

\* updateOffset without the modulus: one up, or back to 0 at the end.
LEMMA NextOffsetIs ==
  ASSUME NEW o \in Offsets
  PROVE  NextOffset(o) = IF o + 1 = valueRange THEN 0 ELSE o + 1
<1>1. o \in Int /\ 0 <= o /\ o < valueRange /\ valueRange \in Nat \ {0}
  BY RangeFacts
<1>2. CASE o + 1 = valueRange
  BY <1>1, <1>2 DEF NextOffset
<1>3. CASE o + 1 # valueRange
  <2>1. o + 1 < valueRange
    BY <1>1, <1>3
  <2> DEFINE a == o + 1
             r == valueRange
  <2>2. a \in Nat /\ r \in Nat /\ a < r
    BY <1>1, <2>1
  <2> HIDE DEF a, r
  <2>3. a % r = a
    BY <2>2, SMT
  <2> QED BY <2>3, <1>3 DEF a, r, NextOffset
<1> QED BY <1>2, <1>3

-----------------------------------------------------------------------------
(* The inductive invariant.  Named parts: who is in the critical section,   *)
(* what a loop that ended found, what a scan has seen, what the cursor has  *)
(* passed, and what waits to be given back.                                 *)

\* The mutex: whoever is inside Allocate's critical section holds it.
LockInv == \A c \in Callers : pc[c] \in {"scan", "take"} => lock = c

\* The offset Allocate is about to mark is still free.
TakeInv == \A c \in Callers : pc[c] = "take" => offset \notin usedMap

\* The offsets the running scan has gone over are all used.
ScanInv ==
    \A c \in Callers : pc[c] = "scan" =>
      \A o \in Offsets :
        (IF offsetBegin <= offset THEN offsetBegin <= o /\ o < offset
                                  ELSE offsetBegin <= o \/ o < offset)
           => o \in usedMap

\* Since o was handed out the cursor has left every offset from o up to
\* where it stands now; all of them when it stands on o again.
PassedInv ==
    \A o, p \in Offsets :
      (IF o < offset THEN o <= p /\ p < offset ELSE o <= p \/ p < offset)
         => p \in passed[o]

\* IDs on their way back belong to nobody and are given back once.
FreeInv ==
    \A c \in Callers : pc[c] = "wantFree" =>
      \A d \in Callers : /\ arg[c] \notin held[d]
                         /\ c # d /\ pc[d] = "wantFree" => arg[c] # arg[d]

\* usedMap seen from the IDs: marked exactly when held or on the way back.
MarkedInv ==
    \A id \in IDs :
      id - minValue \in usedMap <=>
        \E c \in Callers : id \in held[c] \/ (pc[c] = "wantFree" /\ arg[c] = id)

IInv == /\ TypeOK
        /\ LockInv
        /\ TakeInv
        /\ ScanInv
        /\ PassedInv
        /\ FreeInv
        /\ UniqueIDs
        /\ MarkedInv

-----------------------------------------------------------------------------
\* FreeID's id - minValue and Allocate's offset + minValue are each other's
\* inverse, so a mark is removed under the key it was made with.
LEMMA OffsetOfID == /\ \A id \in IDs : id \in Int /\ id - minValue \in Offsets
                    /\ \A o \in Offsets : o + minValue \in IDs /\ (o + minValue) - minValue = o
  BY RangeAssumption DEF IDs, Offsets, valueRange

\* Init => IInv.
LEMMA InitIInv == Init => IInv
<1> SUFFICES ASSUME Init PROVE IInv
  OBVIOUS
<1>1. TypeOK
  BY RangeFacts, RangeAssumption DEF Init, TypeOK, IDs
<1>2. LockInv /\ TakeInv /\ ScanInv /\ FreeInv /\ UniqueIDs
  BY DEF Init, LockInv, TakeInv, ScanInv, FreeInv, UniqueIDs
<1>3. PassedInv
  BY DEF Init, PassedInv
<1>4. MarkedInv
  BY DEF Init, MarkedInv
<1> QED BY <1>1, <1>2, <1>3, <1>4 DEF IInv

\* Entering Allocate.
LEMMA CallAllocateIInv ==
  ASSUME IInv, NEW c \in Callers, CallAllocate(c)
  PROVE  IInv'
<1>1. TypeOK'
  BY DEF IInv, CallAllocate, TypeOK
<1>2. LockInv' /\ TakeInv' /\ ScanInv'
  BY DEF IInv, CallAllocate, TypeOK, LockInv, TakeInv, ScanInv
<1>3. PassedInv' /\ UniqueIDs'
  BY DEF IInv, CallAllocate, PassedInv, UniqueIDs
<1>4. FreeInv' /\ MarkedInv'
  BY DEF IInv, CallAllocate, TypeOK, FreeInv, MarkedInv
<1> QED BY <1>1, <1>2, <1>3, <1>4 DEF IInv

\* Getting the mutex: nobody else is inside, so the fresh scan claims nothing.
LEMMA LockAllocateIInv ==
  ASSUME IInv, NEW c \in Callers, LockAllocate(c)
  PROVE  IInv'
<1>1. TypeOK'
  BY DEF IInv, LockAllocate, TypeOK
<1>2. LockInv'
  BY CallersAssumption DEF IInv, LockAllocate, TypeOK, LockInv
<1>3. TakeInv'
  BY DEF IInv, LockAllocate, TypeOK, TakeInv
<1>4. ScanInv'
  BY RangeFacts DEF IInv, LockAllocate, TypeOK, ScanInv
<1>5. PassedInv' /\ UniqueIDs'
  BY DEF IInv, LockAllocate, PassedInv, UniqueIDs
<1>6. FreeInv' /\ MarkedInv'
  BY DEF IInv, LockAllocate, TypeOK, FreeInv, MarkedInv
<1> QED BY <1>1, <1>2, <1>3, <1>4, <1>5, <1>6 DEF IInv

\* Moving the cursor over an offset that it adds to every passed set.
LEMMA PassedAdvance ==
  ASSUME TypeOK, PassedInv,
         offset' = NextOffset(offset),
         passed' \in [Offsets -> SUBSET Offsets],
         \A o \in Offsets : offset \in passed'[o],
         \A o \in Offsets : o # offset => passed[o] \subseteq passed'[o]
  PROVE  PassedInv'
<1> SUFFICES ASSUME NEW o \in Offsets, NEW p \in Offsets,
                    IF o < offset' THEN o <= p /\ p < offset' ELSE o <= p \/ p < offset'
             PROVE  p \in passed'[o]
  BY DEF PassedInv
<1>1. offset \in Offsets /\ offset' = IF offset + 1 = valueRange THEN 0 ELSE offset + 1
  BY NextOffsetIs DEF TypeOK
<1>2. CASE p = offset
  BY <1>2
<1>3. CASE p # offset
  <2>1. o # offset
    BY <1>1, <1>3, RangeFacts
  <2>2. IF o < offset THEN o <= p /\ p < offset ELSE o <= p \/ p < offset
    BY <1>1, <1>3, <2>1, RangeFacts
  <2>3. p \in passed[o]
    BY <2>2 DEF PassedInv
  <2> QED BY <2>1, <2>3
<1> QED BY <1>2, <1>3

\* One loop iteration over a used offset.
LEMMA ScanUsedIInv ==
  ASSUME IInv, NEW c \in Callers, ScanUsed(c)
  PROVE  IInv'
<1>1. offset \in Offsets /\ offset' = IF offset + 1 = valueRange THEN 0 ELSE offset + 1
  BY NextOffsetIs DEF IInv, TypeOK, ScanUsed
<1>2. offset' \in Offsets
  BY <1>1, RangeFacts DEF Offsets
<1>3. \A d \in Callers : d # c => pc[d] \notin {"scan", "take"}
  BY DEF IInv, LockInv, ScanUsed
<1>4. \A d \in Callers : /\ d # c => pc'[d] = pc[d]
                         /\ pc'[d] # "wantFree" \/ (d # c /\ pc[d] = "wantFree")
                         /\ pc[d] = "wantFree" => pc'[d] = "wantFree"
  BY DEF IInv, TypeOK, ScanUsed
<1>5. pc'[c] = "idle" \/ (pc'[c] = "scan" /\ offset' # offsetBegin)
  BY DEF IInv, TypeOK, ScanUsed
<1>6. TypeOK'
  BY <1>1, <1>2 DEF IInv, TypeOK, ScanUsed
<1>7. LockInv'
  BY <1>3, <1>4, <1>5 DEF IInv, LockInv, TypeOK, ScanUsed
<1>8. TakeInv'
  BY <1>3, <1>4, <1>5 DEF TakeInv
<1>9. ScanInv'
  <2> SUFFICES ASSUME NEW d \in Callers, pc'[d] = "scan", NEW o \in Offsets,
                      IF offsetBegin <= offset' THEN offsetBegin <= o /\ o < offset'
                                                ELSE offsetBegin <= o \/ o < offset'
               PROVE  o \in usedMap
    BY DEF ScanInv, ScanUsed
  <2>1. d = c /\ pc[c] = "scan" /\ offset' # offsetBegin /\ offset \in usedMap
    BY <1>3, <1>4, <1>5 DEF ScanUsed
  <2>2. CASE o = offset
    BY <2>1, <2>2
  <2>3. CASE o # offset
    <3>1. offsetBegin \in Offsets
      BY DEF IInv, TypeOK
    <3>2. IF offsetBegin <= offset THEN offsetBegin <= o /\ o < offset
                                   ELSE offsetBegin <= o \/ o < offset
      BY <1>1, <2>1, <2>3, <3>1, RangeFacts
    <3> QED BY <2>1, <3>2 DEF IInv, ScanInv
  <2> QED BY <2>2, <2>3
<1>10. PassedInv'
  BY <1>6, PassedAdvance DEF IInv, TypeOK, ScanUsed
<1>11. FreeInv' /\ MarkedInv'
  BY <1>4 DEF IInv, FreeInv, MarkedInv, ScanUsed
<1>12. UniqueIDs'
  BY DEF IInv, UniqueIDs, ScanUsed
<1> QED BY <1>6, <1>7, <1>8, <1>9, <1>10, <1>11, <1>12 DEF IInv

\* Leaving the loop at a free offset.
LEMMA ScanFreeIInv ==
  ASSUME IInv, NEW c \in Callers, ScanFree(c)
  PROVE  IInv'
<1>1. TypeOK'
  BY DEF IInv, ScanFree, TypeOK
<1>2. LockInv' /\ TakeInv' /\ ScanInv'
  BY DEF IInv, ScanFree, TypeOK, LockInv, TakeInv, ScanInv
<1>3. PassedInv' /\ UniqueIDs'
  BY DEF IInv, ScanFree, PassedInv, UniqueIDs
<1>4. FreeInv' /\ MarkedInv'
  BY DEF IInv, ScanFree, TypeOK, FreeInv, MarkedInv
<1> QED BY <1>1, <1>2, <1>3, <1>4 DEF IInv

\* Handing out a free offset: by MarkedInv its ID is nobody's.
LEMMA TakeIInv ==
  ASSUME IInv, NEW c \in Callers, Take(c)
  PROVE  IInv'
<1> DEFINE id == offset + minValue
<1>1. offset \in Offsets /\ offset' = IF offset + 1 = valueRange THEN 0 ELSE offset + 1
  BY NextOffsetIs DEF IInv, TypeOK, Take
<1>2. offset' \in Offsets
  BY <1>1, RangeFacts DEF Offsets
<1>3. offset \notin usedMap
  BY DEF IInv, TakeInv, Take
<1>4. id \in IDs /\ id - minValue = offset
  BY <1>1, OffsetOfID
<1>5. \A d \in Callers : id \notin held[d] /\ ~(pc[d] = "wantFree" /\ arg[d] = id)
  BY <1>3, <1>4 DEF IInv, MarkedInv
<1>6. /\ pc[c] = "take" /\ pc'[c] = "idle"
      /\ \A d \in Callers : d # c => pc'[d] = pc[d]
      /\ held'[c] = held[c] \cup {id}
      /\ \A d \in Callers : d # c => held'[d] = held[d]
      /\ usedMap' = usedMap \cup {offset}
      /\ arg' = arg
  BY DEF IInv, TypeOK, Take
<1>7. \A d \in Callers : pc'[d] \notin {"scan", "take"}
  BY <1>6 DEF IInv, LockInv
<1> HIDE DEF id
<1>8. TypeOK'
  BY <1>1, <1>2, <1>4 DEF IInv, TypeOK, Take, id
<1>9. LockInv' /\ TakeInv' /\ ScanInv'
  BY <1>7 DEF LockInv, TakeInv, ScanInv
<1>10. PassedInv'
  BY <1>1, <1>8, PassedAdvance DEF IInv, TypeOK, Take
<1>11. FreeInv'
  BY <1>5, <1>6 DEF IInv, FreeInv
<1>12. UniqueIDs'
  BY <1>5, <1>6 DEF IInv, UniqueIDs
<1>13. MarkedInv'
  <2> SUFFICES ASSUME NEW i \in IDs
               PROVE  i - minValue \in usedMap' <=>
                        \E d \in Callers : i \in held'[d] \/ (pc'[d] = "wantFree" /\ arg'[d] = i)
    BY DEF MarkedInv
  <2>1. CASE i = id
    BY <1>4, <1>6, <2>1
  <2>2. CASE i # id
    <3>1. i - minValue \in usedMap' <=> i - minValue \in usedMap
      BY <1>4, <1>6, <2>2, OffsetOfID, RangeAssumption
    <3>2. \A d \in Callers : i \in held'[d] <=> i \in held[d]
      BY <1>6, <2>2
    <3>3. \A d \in Callers : pc'[d] = "wantFree" <=> pc[d] = "wantFree"
      BY <1>6
    <3> QED BY <1>6, <3>1, <3>2, <3>3 DEF IInv, MarkedInv
  <2> QED BY <2>1, <2>2
<1> QED BY <1>8, <1>9, <1>10, <1>11, <1>12, <1>13 DEF IInv

\* FreeID before the mutex: an ID of the caller changes to "on its way back".
LEMMA CallFreeIDIInv ==
  ASSUME IInv, NEW c \in Callers, CallFreeID(c)
  PROVE  IInv'
<1>1. CASE UNCHANGED <<pc, arg, held>>
  BY <1>1 DEF IInv, CallFreeID, TypeOK, LockInv, TakeInv, ScanInv, PassedInv, FreeInv, UniqueIDs, MarkedInv
<1>2. ASSUME NEW id \in held[c],
             pc' = [pc EXCEPT ![c] = "wantFree"],
             arg' = [arg EXCEPT ![c] = id],
             held' = [held EXCEPT ![c] = @ \ {id}]
      PROVE  IInv'
  <2>1. id \in IDs
    BY DEF IInv, TypeOK
  <2>2. /\ pc[c] = "idle" /\ pc'[c] = "wantFree" /\ arg'[c] = id
        /\ held'[c] = held[c] \ {id}
        /\ \A d \in Callers : d # c => pc'[d] = pc[d] /\ arg'[d] = arg[d] /\ held'[d] = held[d]
        /\ UNCHANGED <<lock, offset, usedMap, offsetBegin, failed, passed>>
    BY <1>2 DEF IInv, TypeOK, CallFreeID
  <2>3. \A d \in Callers : d # c => id \notin held[d]
    BY DEF IInv, UniqueIDs
  <2>4. TypeOK'
    BY <1>2, <2>1, <2>2 DEF IInv, TypeOK
  <2>5. LockInv' /\ TakeInv' /\ ScanInv'
    BY <2>2 DEF IInv, LockInv, TakeInv, ScanInv
  <2>6. PassedInv'
    BY <2>2 DEF IInv, PassedInv
  <2>7. FreeInv'
    BY <2>2, <2>3 DEF IInv, FreeInv
  <2>8. UniqueIDs'
    BY <2>2 DEF IInv, UniqueIDs
  <2>9. MarkedInv'
    BY <2>2 DEF IInv, MarkedInv
  <2> QED BY <2>4, <2>5, <2>6, <2>7, <2>8, <2>9 DEF IInv
<1>3. CASE ~UNCHANGED <<pc, arg, held>>
  <2>1. PICK id \in held[c] \cup {minValue - 1, maxValue + 1} :
          /\ ~(id < minValue \/ id > maxValue)
          /\ pc' = [pc EXCEPT ![c] = "wantFree"]
          /\ arg' = [arg EXCEPT ![c] = id]
          /\ held' = [held EXCEPT ![c] = @ \ {id}]
    BY <1>3 DEF CallFreeID
  <2>2. id \in held[c]
    BY <2>1, RangeAssumption
  <2> QED BY <1>2, <2>1, <2>2
<1> QED BY <1>1, <1>3

\* FreeID under the mutex: nobody is scanning, and the ID is nobody's.
LEMMA FreeIDIInv ==
  ASSUME IInv, NEW c \in Callers, FreeID(c)
  PROVE  IInv'
<1>1. /\ pc[c] = "wantFree" /\ pc'[c] = "idle"
      /\ \A d \in Callers : d # c => pc'[d] = pc[d] /\ arg'[d] = arg[d]
      /\ usedMap' = usedMap \ {arg[c] - minValue}
      /\ UNCHANGED <<lock, offset, offsetBegin, failed, held, passed>>
  BY DEF IInv, TypeOK, FreeID
<1>2. \A d \in Callers : pc'[d] \notin {"scan", "take"}
  BY <1>1, CallersAssumption DEF IInv, LockInv, FreeID
<1>3. TypeOK'
  BY RangeAssumption DEF IInv, TypeOK, FreeID, IDs
<1>4. LockInv' /\ TakeInv' /\ ScanInv'
  BY <1>2 DEF LockInv, TakeInv, ScanInv
<1>5. PassedInv' /\ UniqueIDs'
  BY <1>1 DEF IInv, PassedInv, UniqueIDs
<1>6. FreeInv'
  BY <1>1 DEF IInv, FreeInv
<1>7. MarkedInv'
  <2> SUFFICES ASSUME NEW i \in IDs
               PROVE  i - minValue \in usedMap' <=>
                        \E d \in Callers : i \in held'[d] \/ (pc'[d] = "wantFree" /\ arg'[d] = i)
    BY DEF MarkedInv
  <2>1. arg[c] \in IDs
    BY DEF IInv, TypeOK
  <2>2. CASE i = arg[c]
    <3>1. i - minValue \notin usedMap'
      BY <1>1, <2>2
    <3>2. \A d \in Callers : i \notin held'[d] /\ ~(pc'[d] = "wantFree" /\ arg'[d] = i)
      BY <1>1, <2>2 DEF IInv, FreeInv
    <3> QED BY <3>1, <3>2
  <2>3. CASE i # arg[c]
    <3>1. i - minValue \in usedMap' <=> i - minValue \in usedMap
      BY <1>1, <2>1, <2>3, OffsetOfID, RangeAssumption
    <3>2. \A d \in Callers : (pc'[d] = "wantFree" /\ arg'[d] = i) <=> (pc[d] = "wantFree" /\ arg[d] = i)
      BY <1>1, <2>3
    <3> QED BY <1>1, <3>1, <3>2 DEF IInv, MarkedInv
  <2> QED BY <2>2, <2>3
<1> QED BY <1>3, <1>4, <1>5, <1>6, <1>7 DEF IInv

\* Every step preserves the invariant, one case per action.
LEMMA NextIInv == IInv /\ [Next]_vars => IInv'
<1> SUFFICES ASSUME IInv, [Next]_vars PROVE IInv'
  OBVIOUS
<1>1. CASE UNCHANGED vars
  BY <1>1 DEF vars, IInv, TypeOK, LockInv, TakeInv, ScanInv, PassedInv, FreeInv, UniqueIDs, MarkedInv
<1>2. CASE Next
  <2>1. PICK c \in Callers : Allocate(c) \/ Free(c)
    BY <1>2 DEF Next
  <2> QED BY <2>1, CallAllocateIInv, LockAllocateIInv, ScanUsedIInv, ScanFreeIInv, TakeIInv,
             CallFreeIDIInv, FreeIDIInv DEF Allocate, Free
<1> QED BY <1>1, <1>2

-----------------------------------------------------------------------------
\* The generator never leaves the invariant, whatever its range and callers.
THEOREM Invariance == Spec => []IInv
  BY InitIInv, NextIInv, PTL DEF Spec

\* Every variable keeps its type: in particular the cursor stays in range.
THEOREM TypeCorrect == Spec => []TypeOK
<1>1. IInv => TypeOK
  BY DEF IInv
<1> QED BY <1>1, Invariance, PTL

\* Concurrent callers of Allocate never share an ID.
THEOREM Uniqueness == Spec => []UniqueIDs
<1>1. IInv => UniqueIDs
  BY DEF IInv
<1> QED BY <1>1, Invariance, PTL

\* usedMap holds exactly the IDs that are held or on their way back.
THEOREM NoLeak == Spec => []UsedIsHeld
<1>1. IInv => UsedIsHeld
  <2> SUFFICES ASSUME IInv PROVE UsedIsHeld
    OBVIOUS
  <2> DEFINE Out == BeingFreed \cup UNION {held[c] : c \in Callers}
  <2>1. Out \subseteq IDs
    BY DEF IInv, TypeOK, BeingFreed
  <2>2. \A id \in IDs : id \in Out <=> id - minValue \in usedMap
    BY DEF IInv, MarkedInv, BeingFreed
  <2>3. usedMap \subseteq Offsets
    BY DEF IInv, TypeOK
  <2> HIDE DEF Out
  <2>4. ASSUME NEW o \in usedMap PROVE o \in {id - minValue : id \in Out}
    BY <2>2, <2>3, OffsetOfID
  <2>5. {id - minValue : id \in Out} \subseteq usedMap
    BY <2>1, <2>2
  <2> QED BY <2>4, <2>5 DEF UsedIsHeld, Out
<1> QED BY <1>1, Invariance, PTL

\* Allocate gives up only when every ID is in use.
THEOREM FailureIsExhaustion == Spec => FailsOnlyWhenFull
<1>1. IInv /\ [Next]_vars =>
        [\A c \in Callers : c \in failed' \ failed => usedMap = Offsets]_vars
  <2> SUFFICES ASSUME IInv, Next, NEW d \in Callers, d \in failed' \ failed
               PROVE  usedMap = Offsets
    OBVIOUS
  <2>1. PICK c \in Callers : ScanUsed(c)
    BY DEF Next, Allocate, Free, CallAllocate, LockAllocate, ScanFree, Take, CallFreeID, FreeID
  <2>2. pc[c] = "scan" /\ offset \in usedMap /\ offset' = offsetBegin
    BY <2>1 DEF ScanUsed
  <2>3. offset \in Offsets /\ offsetBegin = IF offset + 1 = valueRange THEN 0 ELSE offset + 1
    BY <2>1, <2>2, NextOffsetIs DEF IInv, TypeOK, ScanUsed
  <2>4. ASSUME NEW o \in Offsets, o # offset PROVE o \in usedMap
    <3>1. IF offsetBegin <= offset THEN offsetBegin <= o /\ o < offset
                                   ELSE offsetBegin <= o \/ o < offset
      BY <2>3, <2>4, RangeFacts
    <3> QED BY <2>2, <3>1 DEF IInv, ScanInv
  <2> QED BY <2>2, <2>4 DEF IInv, TypeOK
<1> QED BY <1>1, Invariance, PTL DEF Spec, FailsOnlyWhenFull

\* A freed ID rests for one full turn of the cursor before it is reused.
THEOREM RoundRobin == Spec => ReusedOnlyAfterWrap
<1>1. IInv /\ [Next]_vars => [\A o \in usedMap' \ usedMap : passed[o] = Offsets]_vars
  <2> SUFFICES ASSUME IInv, Next, NEW o \in usedMap' \ usedMap
               PROVE  passed[o] = Offsets
    OBVIOUS
  <2>1. PICK c \in Callers : Take(c)
    BY DEF Next, Allocate, Free, CallAllocate, LockAllocate, ScanUsed, ScanFree, CallFreeID, FreeID
  <2>2. o = offset /\ o \in Offsets
    BY <2>1 DEF Take, IInv, TypeOK
  <2>3. \A p \in Offsets : p \in passed[o]
    BY <2>2, RangeFacts DEF IInv, PassedInv
  <2> QED BY <2>2, <2>3 DEF IInv, TypeOK
<1> QED BY <1>1, Invariance, PTL DEF Spec, ReusedOnlyAfterWrap
=============================================================================
