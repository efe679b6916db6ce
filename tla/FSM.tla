-------------------------------- MODULE FSM --------------------------------
(***************************************************************************)
(* lib/util/fsm: a table of transitions and SendEvent, which several       *)
(* goroutines may call on one State.  Current and Set each take the lock   *)
(* of State, but nothing is held between them: SendEvent reads the state,  *)
(* runs the event callback, then the exit callback, sets the new state and *)
(* runs the entry callback, each a step of its own.  Callbacks may call    *)
(* SendEvent again; a goroutine then has a stack of calls.                 *)
(*                                                                         *)
(* Serialised says that the callers take a lock of their own around a      *)
(* top-level SendEvent (the per-UE lock of the network functions, outside  *)
(* this repository); ReentryAt in which callbacks SendEvent is called.     *)
(***************************************************************************)
EXTENDS Integers, Sequences, FiniteSets, SequencesExt

CONSTANTS
    States, Events,
    Configs,       \* [trans |-> sequence of transitions, callbacks |-> states]
    initState,     \* the argument of NewState
    Goroutines,
    NoOne,         \* nobody holds the callers' lock
    Serialised,
    ReentryAt,     \* subset of {"event", "exit", "entry"}
    MaxDepth       \* bound on nested calls

Transition(e, from, to) == [event |-> e, from |-> from, to |-> to]

ASSUME ConfigAssumption ==
    \A c \in Configs : /\ c.trans \in Seq([event : Events, from : States, to : States])
                       /\ c.callbacks \subseteq States
ASSUME FSMAssumption == /\ initState \in States /\ NoOne \notin Goroutines
                        /\ Serialised \in BOOLEAN
                        /\ ReentryAt \subseteq {"event", "exit", "entry"}
                        /\ MaxDepth \in Nat \ {0}

VARIABLES
    transitions,  \* the table; empty before NewFSM
    current,      \* State.current
    stack,        \* stack[g]: the calls of SendEvent g is in, innermost first
    turn,         \* the callers' lock: the goroutine whose turn it is
    inside        \* history: entry minus exit callbacks of each state

fsmVars == <<transitions, current, stack, turn, inside>>

InitFSM ==
    /\ transitions = {}
    /\ current = initState
    /\ stack = [g \in Goroutines |-> <<>>]
    /\ turn = NoOne
    /\ inside = [s \in States |-> IF s = initState THEN 1 ELSE 0]

-----------------------------------------------------------------------------
\* States that occur in the transitions.
allStates(trans) == UNION {{trans[i].from, trans[i].to} : i \in DOMAIN trans}

Duplicate(trans) ==
    \E i, j \in DOMAIN trans : /\ i # j
                               /\ trans[i].event = trans[j].event
                               /\ trans[i].from = trans[j].from

\* NewFSM: two transitions for one event in one state, or a callback for a
\* state no transition names, is an error and makes no FSM.
NewFSM(c) ==
    /\ transitions = {}
    /\ ~Duplicate(c.trans)
    /\ c.callbacks \subseteq allStates(c.trans)
    /\ transitions' = ToSet(c.trans)
    /\ UNCHANGED <<current, stack, turn, inside>>

\* Mutant of Lookup: the key is the event alone.
MutLookup(e, s) == {t \in transitions : t.event = e}

\* The entry of the table for an event in a state: at most one.
Lookup(e, s) == {t \in transitions : t.event = e /\ t.from = s}

Top(g) == Head(stack[g])
Frame(t, at) == [trans |-> t, at |-> at]
Push(g, frame) == stack' = [stack EXCEPT ![g] = <<frame>> \o @]
GoOn(g, at) == stack' = [stack EXCEPT ![g] = <<Frame(Top(g).trans, at)>> \o Tail(@)]

\* SendEvent returns; the callers' lock goes with the outermost call.
Return(g) ==
    /\ stack' = [stack EXCEPT ![g] = Tail(@)]
    /\ turn' = IF turn = g /\ Len(stack[g]) = 1 THEN NoOne ELSE turn

\* A goroutine calls SendEvent: Current, look up, start the event callback.
\* With no transition the call returns the error and nothing happens.
SendEvent(g, e) ==
    /\ transitions # {}
    /\ stack[g] = <<>>
    /\ Serialised => turn = NoOne
    /\ \E t \in Lookup(e, current) : Push(g, Frame(t, "event"))
    /\ turn' = IF Serialised THEN g ELSE turn
    /\ UNCHANGED <<transitions, current, inside>>

\* A running callback calls SendEvent on the same State.
Reenter(g, e) ==
    /\ stack[g] # <<>> /\ Len(stack[g]) < MaxDepth
    /\ Top(g).at \in ReentryAt
    /\ \E t \in Lookup(e, current) : Push(g, Frame(t, "event"))
    /\ UNCHANGED <<transitions, current, turn, inside>>

\* The event callback has returned: a transition to the same state is done,
\* any other counts the transition and runs the exit callback of From.
EventCallback(g) ==
    /\ stack[g] # <<>> /\ Top(g).at = "event"
    /\ LET t == Top(g).trans
       IN  IF t.from = t.to
           THEN Return(g) /\ UNCHANGED inside
           ELSE /\ GoOn(g, "exit")
                /\ inside' = [inside EXCEPT ![t.from] = @ - 1]
                /\ UNCHANGED turn
    /\ UNCHANGED <<transitions, current>>

\* Mutant of SetState: the entry callback of From is run.
MutSetStateEntersFrom(g) ==
    /\ stack[g] # <<>> /\ Top(g).at = "exit"
    /\ current' = Top(g).trans.to
    /\ GoOn(g, "entry")
    /\ inside' = [inside EXCEPT ![Top(g).trans.from] = @ + 1]
    /\ UNCHANGED <<transitions, turn>>

\* The exit callback has returned: Set(To), and the entry callback of To runs.
SetState(g) ==
    /\ stack[g] # <<>> /\ Top(g).at = "exit"
    /\ current' = Top(g).trans.to
    /\ GoOn(g, "entry")
    /\ inside' = [inside EXCEPT ![Top(g).trans.to] = @ + 1]
    /\ UNCHANGED <<transitions, turn>>

\* The entry callback has returned.
EntryCallback(g) ==
    /\ stack[g] # <<>> /\ Top(g).at = "entry"
    /\ Return(g)
    /\ UNCHANGED <<transitions, current, inside>>

NextFSM ==
    \/ \E c \in Configs : NewFSM(c)
    \/ \E g \in Goroutines : \/ \E e \in Events : SendEvent(g, e) \/ Reenter(g, e)
                             \/ EventCallback(g)
                             \/ SetState(g)
                             \/ EntryCallback(g)

SpecFSM == InitFSM /\ [][NextFSM]_fsmVars

-----------------------------------------------------------------------------
FSMTypeOK ==
    /\ transitions \subseteq [event : Events, from : States, to : States]
    /\ current \in States
    /\ turn \in Goroutines \cup {NoOne}
    /\ \A g \in Goroutines : Len(stack[g]) <= MaxDepth
    /\ inside \in [States -> Int]

\* "a Event is triggered at From state, and transfer to To state after the
\* Event" (fsm.go:26-28): the state changes only along a transition that
\* starts in the state it has.
AlongATransition ==
    current' # current => \E t \in transitions : t.from = current /\ t.to = current'
FollowsTransitions == [][AlongATransition]_fsmVars

\* "on exit callback: call when fsm leave one state", "on entry callback: call
\* when fsm enter one state": the callbacks pair up, so that when no transition
\* is between its exit callback and its Set, exactly the current state has been
\* entered and not left.
Paired ==
    (\A g \in Goroutines : \A i \in DOMAIN stack[g] : stack[g][i].at # "exit")
      => inside = [s \in States |-> IF s = current THEN 1 ELSE 0]
=============================================================================
