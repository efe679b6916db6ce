---------------------------- MODULE IDGenerator ----------------------------
(***************************************************************************)
(* lib/util/idgenerator/idgenerator.go: a generator that hands out the IDs *)
(* of [minValue, maxValue] in round-robin order.  Several goroutines call  *)
(* Allocate and FreeID.  Allocate holds the generator's mutex for its      *)
(* whole scan, which is modelled one loop iteration per step; FreeID       *)
(* checks the range before it takes the mutex and deletes under it.        *)
(*                                                                         *)
(* held and passed are history variables: which goroutine owns which ID,   *)
(* and which offsets the cursor has left since an offset was handed out.   *)
(***************************************************************************)
EXTENDS Integers, FiniteSets

CONSTANTS minValue, maxValue,   \* the bounds given to NewGenerator
          Callers,              \* the goroutines that share the generator
          NoCaller              \* "the mutex is free"

ASSUME RangeAssumption == /\ minValue \in Int
                          /\ maxValue \in Int
                          /\ minValue <= maxValue

ASSUME CallersAssumption == NoCaller \notin Callers

\* valueRange, as init computes it.
valueRange == maxValue - minValue + 1

Offsets == 0 .. (valueRange - 1)
IDs == minValue .. maxValue

VARIABLES
    lock,         \* the goroutine that holds the mutex, or NoCaller
    offset,       \* the cursor
    usedMap,      \* the keys of usedMap
    pc,           \* where each goroutine is
    offsetBegin,  \* the local variable of the Allocate that has the mutex
    arg,          \* the argument of FreeID, minValue between its calls
    failed,       \* goroutines whose last Allocate returned the error
    held,         \* history: the IDs each goroutine got and has not freed
    passed        \* history: offsets the cursor left since this one was given

vars == <<lock, offset, usedMap, pc, offsetBegin, arg, failed, held, passed>>

Init ==
    /\ lock = NoCaller
    /\ offset = 0
    /\ usedMap = {}
    /\ pc = [c \in Callers |-> "idle"]
    /\ offsetBegin = 0
    /\ arg = [c \in Callers |-> minValue]
    /\ failed = {}
    /\ held = [c \in Callers |-> {}]
    /\ passed = [o \in Offsets |-> Offsets]

-----------------------------------------------------------------------------
\* updateOffset: the next value of the cursor.
NextOffset(o) == (o + 1) % valueRange

\* A goroutine enters Allocate and waits for the mutex.
CallAllocate(c) ==
    /\ pc[c] = "idle"
    /\ pc' = [pc EXCEPT ![c] = "wantAllocate"]
    /\ failed' = failed \ {c}
    /\ UNCHANGED <<lock, offset, usedMap, offsetBegin, arg, held, passed>>

\* Mutant of LockAllocate: Allocate does not wait for the mutex.
MutLockAllocateUnguarded(c) ==
    /\ pc[c] = "wantAllocate"
    /\ lock' = c
    /\ pc' = [pc EXCEPT ![c] = "scan"]
    /\ offsetBegin' = offset
    /\ UNCHANGED <<offset, usedMap, arg, failed, held, passed>>

\* Mutant of LockAllocate: every scan is taken to begin at offset 0.
MutLockAllocateFromZero(c) ==
    /\ pc[c] = "wantAllocate"
    /\ lock = NoCaller
    /\ lock' = c
    /\ pc' = [pc EXCEPT ![c] = "scan"]
    /\ offsetBegin' = 0
    /\ UNCHANGED <<offset, usedMap, arg, failed, held, passed>>

\* Allocate gets the mutex and remembers where its scan begins.
LockAllocate(c) ==
    /\ pc[c] = "wantAllocate"
    /\ lock = NoCaller
    /\ lock' = c
    /\ pc' = [pc EXCEPT ![c] = "scan"]
    /\ offsetBegin' = offset
    /\ UNCHANGED <<offset, usedMap, arg, failed, held, passed>>

\* Mutant of ScanUsed: the test for a full turn is missing.
MutScanUsedForever(c) ==
    /\ pc[c] = "scan"
    /\ offset \in usedMap
    /\ offset' = NextOffset(offset)
    /\ passed' = [o \in Offsets |-> passed[o] \cup {offset}]
    /\ UNCHANGED <<lock, usedMap, pc, offsetBegin, arg, failed, held>>

\* One iteration that finds its offset used: the cursor moves on, and a
\* cursor that is back where the scan began ends Allocate with the error.
ScanUsed(c) ==
    /\ pc[c] = "scan"
    /\ offset \in usedMap
    /\ offset' = NextOffset(offset)
    /\ passed' = [o \in Offsets |-> passed[o] \cup {offset}]
    /\ \/ /\ offset' # offsetBegin
          /\ UNCHANGED <<pc, lock, failed>>
       \/ /\ offset' = offsetBegin
          /\ pc' = [pc EXCEPT ![c] = "idle"]
          /\ lock' = NoCaller
          /\ failed' = failed \cup {c}
    /\ UNCHANGED <<usedMap, offsetBegin, arg, held>>

\* The iteration that finds a free offset leaves the loop.
ScanFree(c) ==
    /\ pc[c] = "scan"
    /\ offset \notin usedMap
    /\ pc' = [pc EXCEPT ![c] = "take"]
    /\ UNCHANGED <<lock, offset, usedMap, offsetBegin, arg, failed, held, passed>>

\* After the loop: mark the offset, move the cursor on, return the ID.
Take(c) ==
    /\ pc[c] = "take"
    /\ usedMap' = usedMap \cup {offset}
    /\ held' = [held EXCEPT ![c] = @ \cup {offset + minValue}]
    /\ passed' = [o \in Offsets |-> IF o = offset THEN {offset}
                                                  ELSE passed[o] \cup {offset}]
    /\ offset' = NextOffset(offset)
    /\ pc' = [pc EXCEPT ![c] = "idle"]
    /\ lock' = NoCaller
    /\ UNCHANGED <<offsetBegin, arg, failed>>

\* FreeID up to the mutex: an ID outside the range returns at once.  The
\* callers of this model free an ID they hold, once, or one out of range.
CallFreeID(c) ==
    /\ pc[c] = "idle"
    /\ \E id \in held[c] \cup {minValue - 1, maxValue + 1} :
         IF id < minValue \/ id > maxValue
         THEN UNCHANGED <<pc, arg, held>>
         ELSE /\ pc' = [pc EXCEPT ![c] = "wantFree"]
              /\ arg' = [arg EXCEPT ![c] = id]
              /\ held' = [held EXCEPT ![c] = @ \ {id}]
    /\ UNCHANGED <<lock, offset, usedMap, offsetBegin, failed, passed>>

\* Mutant of FreeID: the key deleted is the ID, not its offset.
MutFreeIDKey(c) ==
    /\ pc[c] = "wantFree"
    /\ lock = NoCaller
    /\ usedMap' = usedMap \ {arg[c]}
    /\ pc' = [pc EXCEPT ![c] = "idle"]
    /\ arg' = [arg EXCEPT ![c] = minValue]
    /\ UNCHANGED <<lock, offset, offsetBegin, failed, held, passed>>

\* Mutant of FreeID: the cursor goes back to the freed offset.
MutFreeIDRewinds(c) ==
    /\ pc[c] = "wantFree"
    /\ lock = NoCaller
    /\ usedMap' = usedMap \ {arg[c] - minValue}
    /\ offset' = arg[c] - minValue
    /\ pc' = [pc EXCEPT ![c] = "idle"]
    /\ arg' = [arg EXCEPT ![c] = minValue]
    /\ UNCHANGED <<lock, offsetBegin, failed, held, passed>>

\* FreeID under the mutex (lock, delete, unlock).
FreeID(c) ==
    /\ pc[c] = "wantFree"
    /\ lock = NoCaller
    /\ usedMap' = usedMap \ {arg[c] - minValue}
    /\ pc' = [pc EXCEPT ![c] = "idle"]
    /\ arg' = [arg EXCEPT ![c] = minValue]
    /\ UNCHANGED <<lock, offset, offsetBegin, failed, held, passed>>

Allocate(c) ==
    CallAllocate(c) \/ LockAllocate(c) \/ ScanUsed(c) \/ ScanFree(c) \/ Take(c)
Free(c) == CallFreeID(c) \/ FreeID(c)

Next == \E c \in Callers : Allocate(c) \/ Free(c)

\* A goroutine inside a call is scheduled; it is not obliged to make one.
\* Go's mutex hands the lock over to a starving waiter, hence SF on getting it.
Fairness == \A c \in Callers : /\ WF_vars(ScanUsed(c) \/ ScanFree(c) \/ Take(c))
                               /\ SF_vars(LockAllocate(c))
                               /\ SF_vars(FreeID(c))

Spec == Init /\ [][Next]_vars /\ Fairness

-----------------------------------------------------------------------------
TypeOK ==
    /\ lock \in Callers \cup {NoCaller}
    /\ offset \in Offsets
    /\ usedMap \subseteq Offsets
    /\ pc \in [Callers -> {"idle", "wantAllocate", "scan", "take", "wantFree"}]
    /\ offsetBegin \in Offsets
    /\ arg \in [Callers -> IDs]
    /\ failed \subseteq Callers
    /\ held \in [Callers -> SUBSET IDs]
    /\ passed \in [Offsets -> SUBSET Offsets]

\* An ID belongs to one caller at a time: two goroutines that got IDs from
\* Allocate and have not freed them hold different ones.
UniqueIDs ==
    \A c, d \in Callers : c # d => held[c] \cap held[d] = {}

\* IDs a FreeID that waits for the mutex is about to give back.
BeingFreed == {arg[c] : c \in {d \in Callers : pc[d] = "wantFree"}}

\* usedMap is exactly what the callers hold or are giving back: no ID leaks,
\* and none is marked free while a caller still has it.
UsedIsHeld ==
    usedMap = {id - minValue : id \in BeingFreed \cup UNION {held[c] : c \in Callers}}

\* Allocate returns "no available value range" only when every ID is in use
\* at the moment it gives up, wherever its scan began.
FailsOnlyWhenFull ==
    [][\A c \in Callers : c \in failed' \ failed => usedMap = Offsets]_vars

\* Round robin: an ID handed out before is handed out again only after the
\* cursor has gone over the whole range, so that a freed ID rests for one
\* full turn.
ReusedOnlyAfterWrap ==
    [][\A o \in usedMap' \ usedMap : passed[o] = Offsets]_vars

\* Every call returns: the scan cannot go round for ever, and nobody waits
\* for the mutex for ever.
CallsReturn == \A c \in Callers : (pc[c] # "idle") ~> (pc[c] = "idle")
=============================================================================
