--------------------------- MODULE LazyReusePool ---------------------------
(***************************************************************************)
(* lib/util/ippool/lazyReusePool.go: a pool of the integers first .. last  *)
(* that hands out every value before it gives one out again.  Allocate,    *)
(* Use and Free hold the mutex from their first line to their last, so a   *)
(* call of each is one step.  Reserve takes no mutex; here it is one step  *)
(* too: it is called while the pool is configured, before it is shared.    *)
(*                                                                         *)
(* out, ever and ordered are history variables: the values callers have    *)
(* now, the values they have had, and whether values were only ever taken  *)
(* from the front of the list.                                             *)
(***************************************************************************)
EXTENDS SegmentList

CONSTANTS first, last,   \* the bounds given to NewLazyReusePool
          Ranges         \* the pairs <<a, b>> that Reserve is called with

ASSUME BoundsAssumption == first \in Int /\ last \in Int /\ first <= last
ASSUME RangesAssumption == \A r \in Ranges : r[1] \in Int /\ r[2] \in Int

\* The values callers may name: those of the pool and its two neighbours.
Args == (first - 1) .. (last + 1)

VARIABLES
    segs,      \* the list that starts at head; <<>> when head is nil
    remain,    \* the field remain
    res,       \* the answer of the last call
    out,       \* history: values handed out and not given back
    ever,      \* history: values handed out at least once
    ordered    \* history: no Use and no Reserve has taken a value

vars == <<segs, remain, res, out, ever, ordered>>

Answer(op, vals, ok) == [op |-> op, vals |-> vals, ok |-> ok]

\* NewLazyReusePool.
Init ==
    /\ segs = <<Seg(first, last)>>
    /\ remain = last - first + 1
    /\ res = Answer("New", <<>>, TRUE)
    /\ out = {}
    /\ ever = {}
    /\ ordered = TRUE

-----------------------------------------------------------------------------
Allocate ==
    \/ /\ segs = <<>>
       /\ res' = Answer("Allocate", <<>>, FALSE)
       /\ UNCHANGED <<segs, remain, out, ever, ordered>>
    \/ /\ segs # <<>>
       /\ LET v == Head(segs).first
          IN  /\ res' = Answer("Allocate", <<v>>, TRUE)
              /\ out' = out \cup {v}
              /\ ever' = ever \cup {v}
       /\ segs' = AllocateFrom(segs)
       /\ remain' = remain - 1
       /\ UNCHANGED ordered

Use(v) ==
    LET i == SegmentOf(segs, v)
    IN  \/ /\ i = 0
           /\ res' = Answer("Use", <<v>>, FALSE)
           /\ UNCHANGED <<segs, remain, out, ever, ordered>>
        \/ /\ i # 0
           /\ res' = Answer("Use", <<v>>, TRUE)
           /\ segs' = UseFrom(segs, i, v)
           /\ remain' = remain - 1
           /\ out' = out \cup {v}
           /\ ever' = ever \cup {v}
           /\ ordered' = FALSE

\* Contains: Reserve's argument check.
Contains1(a, b) == a <= b /\ first <= a /\ last >= b

Free(v) ==
    LET new == FreeInto(segs, v)
    IN  \/ /\ ~Contains1(v, v) \/ new = segs
           /\ res' = Answer("Free", <<v>>, FALSE)
           /\ UNCHANGED <<segs, remain, out, ever, ordered>>
        \/ /\ Contains1(v, v)
           /\ new # segs
           /\ res' = Answer("Free", <<v>>, TRUE)
           /\ segs' = new
           /\ remain' = remain + 1
           /\ out' = out \ {v}
           /\ UNCHANGED <<ever, ordered>>

Reserve(a, b) ==
    \/ /\ ~Contains1(a, b)
       /\ res' = Answer("Reserve", <<a, b>>, FALSE)
       /\ UNCHANGED <<segs, remain, out, ever, ordered>>
    \/ /\ Contains1(a, b)
       /\ res' = Answer("Reserve", <<a, b>>, TRUE)
       /\ segs' = ReserveFrom(segs, a, b)
       /\ remain' = remain - (Size(segs) - Size(segs'))
       /\ ordered' = (ordered /\ segs' = segs)
       /\ UNCHANGED <<out, ever>>

-----------------------------------------------------------------------------
\* Callers that give back only what they were given, once.
NextOwners ==
    \/ Allocate
    \/ \E v \in Args : Use(v)
    \/ \E v \in out \cup {first - 1, last + 1} : Free(v)
    \/ \E r \in Ranges : Reserve(r[1], r[2])

SpecOwners == Init /\ [][NextOwners]_vars

\* Callers that may give back anything: a value twice, one they never had,
\* one outside the pool.
NextRepeats ==
    \/ Allocate
    \/ \E v \in Args : Free(v)

SpecRepeats == Init /\ [][NextRepeats]_vars

-----------------------------------------------------------------------------
TypeOK ==
    /\ segs \in Seq([first : Int, last : Int])
    /\ remain \in Int
    /\ out \subseteq first .. last
    /\ ever \subseteq first .. last
    /\ out \subseteq ever

\* The segments are not empty, stay inside the pool and never overlap, however
\* they were split, extended, merged and reserved.
SegmentsDisjoint ==
    /\ \A i \in DOMAIN segs : first <= segs[i].first /\ segs[i].first <= segs[i].last
                              /\ segs[i].last <= last
    /\ \A i, j \in DOMAIN segs :
         i < j => segs[i].last < segs[j].first \/ segs[j].last < segs[i].first

\* "duplecated free": freeing a value that is free answers false and leaves
\* the pool as it was (lazyReusePool.go:112 and :145).
DuplicateFreeRejected ==
    [][\A v \in Args : res'.op = "Free" /\ res'.vals = <<v>> /\ v \in SegValues(segs)
         => ~res'.ok /\ segs' = segs /\ remain' = remain]_vars

\* Lazy reuse: as long as values were taken from the front only, a value that
\* was handed out before is handed out again only when none is left that
\* never was.
LazyReuse ==
    [][ordered' => \A v \in (out' \ out) \cap ever : first .. last \subseteq ever]_vars

\* The list implements the set of free values and the count of them: every
\* call answers as FreeSetPool allows, remain included.
Abstract == INSTANCE FreeSetPool WITH free <- SegValues(segs)
ImplementsFreeSet == Abstract!Spec
=============================================================================
