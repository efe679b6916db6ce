---------------------------- MODULE FreeSetPool ----------------------------
(***************************************************************************)
(* What LazyReusePool promises its callers, with no list: a set of free    *)
(* values and a count of them.  Allocate gives any free value and fails    *)
(* only when there is none; Use gives the value asked for exactly when it  *)
(* is free; Free takes back exactly the values of the pool that are not    *)
(* free; Reserve withdraws the free values of a range inside the pool.     *)
(***************************************************************************)
EXTENDS Integers, FiniteSets

CONSTANTS first, last,   \* the bounds of the pool
          Args,          \* the values callers may name, in the pool or not
          Ranges         \* the pairs <<a, b>> that Reserve is called with

VARIABLES free,          \* the free values
          remain,        \* what Remain() answers
          res            \* the answer of the last call

Answer(op, vals, ok) == [op |-> op, vals |-> vals, ok |-> ok]

Init == /\ free = first .. last
        /\ remain = last - first + 1
        /\ res = Answer("New", <<>>, TRUE)

Allocate ==
    \/ /\ free = {}
       /\ res' = Answer("Allocate", <<>>, FALSE)
       /\ UNCHANGED <<free, remain>>
    \/ \E v \in free : /\ free' = free \ {v}
                       /\ remain' = Cardinality(free')
                       /\ res' = Answer("Allocate", <<v>>, TRUE)

Use(v) ==
    /\ free' = free \ {v}
    /\ remain' = Cardinality(free')
    /\ res' = Answer("Use", <<v>>, v \in free)

Free(v) ==
    /\ free' = free \cup ({v} \cap (first .. last))
    /\ remain' = Cardinality(free')
    /\ res' = Answer("Free", <<v>>, v \in first .. last /\ v \notin free)

Reserve(a, b) ==
    LET ok == a <= b /\ first <= a /\ b <= last
    IN  /\ free' = IF ok THEN free \ (a .. b) ELSE free
        /\ remain' = Cardinality(free')
        /\ res' = Answer("Reserve", <<a, b>>, ok)

Next == \/ Allocate
        \/ \E v \in Args : Use(v) \/ Free(v)
        \/ \E r \in Ranges : Reserve(r[1], r[2])

Spec == Init /\ [][Next]_<<free, remain, res>>
=============================================================================
