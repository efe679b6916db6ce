----------------------------- MODULE FSMProofs -----------------------------
(***************************************************************************)
(* Proofs about FSM: with callers that take a lock around SendEvent and    *)
(* callbacks that send events only on entry, the state moves along the     *)
(* table and the exit and entry callbacks pair up, for any table, any      *)
(* number of goroutines and any depth of nested calls.                     *)
(*                                                                         *)
(* Both are needed.  Run fsm_concurrent shows what happens without the     *)
(* lock; a callback that sends an event on exit moves the state away       *)
(* behind the back of the call it runs in.                                 *)
(***************************************************************************)
EXTENDS FSM, TLAPS

Transitions == [event : Events, from : States, to : States]
Frames == [trans : Transitions, at : {"event", "exit", "entry"}]

\* The types, those of the frames included.
FrameType ==
    /\ transitions \subseteq Transitions
    /\ current \in States
    /\ stack \in [Goroutines -> Seq(Frames)]
    /\ turn \in Goroutines \cup {NoOne}
    /\ inside \in [States -> Int]

\* What the callers must do.
CallersAgree == Serialised /\ ReentryAt \subseteq {"entry"}

\* Only the goroutine with the lock is in SendEvent.
HolderInv == \A g \in Goroutines : stack[g] # <<>> => turn = g

\* The calls that wait for a nested one wait in their entry callback.
OuterInv == \A g \in Goroutines : \A i \in DOMAIN stack[g] : i > 1 => stack[g][i].at = "entry"

\* A call whose Set is still to come has a transition of the table that
\* starts in the state the machine has.
LeavingInv ==
    \A g \in Goroutines :
      /\ stack[g] # <<>>
      /\ Top(g).at \in {"event", "exit"}
      => Top(g).trans \in transitions /\ Top(g).trans.from = current

\* Between the exit callback and Set nothing is entered, else the current
\* state alone.
Leaving == \E g \in Goroutines : stack[g] # <<>> /\ Top(g).at = "exit"
InsideInv == inside = [s \in States |-> IF s = current /\ ~Leaving THEN 1 ELSE 0]

FSMInv == FrameType /\ HolderInv /\ OuterInv /\ LeavingInv /\ InsideInv

-----------------------------------------------------------------------------
\* What Push, GoOn and Return leave as the calls of g.
LEMMA PushedFrame ==
    ASSUME NEW s \in Seq(Frames), NEW f \in Frames
    PROVE  /\ <<f>> \o s \in Seq(Frames)
           /\ <<f>> \o s # <<>>
           /\ Head(<<f>> \o s) = f
           /\ Len(<<f>> \o s) = Len(s) + 1
           /\ \A i \in DOMAIN (<<f>> \o s) : i > 1 => i - 1 \in DOMAIN s /\ (<<f>> \o s)[i] = s[i - 1]
  OBVIOUS

\* Head and Tail of a stack that is not empty.
LEMMA TailFrames ==
    ASSUME NEW s \in Seq(Frames), s # <<>>
    PROVE  /\ Head(s) \in Frames
           /\ 1 \in DOMAIN s /\ Head(s) = s[1]
           /\ Tail(s) \in Seq(Frames)
           /\ Len(Tail(s)) = Len(s) - 1
           /\ \A i \in DOMAIN Tail(s) : i + 1 \in DOMAIN s /\ Tail(s)[i] = s[i + 1]
           /\ Tail(s) # <<>> => Head(Tail(s)) = s[2] /\ 2 \in DOMAIN s
           /\ (Tail(s) = <<>>) <=> (Len(s) = 1)
<1>1. /\ Head(s) \in Frames
      /\ 1 \in DOMAIN s /\ Head(s) = s[1]
      /\ Tail(s) \in Seq(Frames)
      /\ Len(Tail(s)) = Len(s) - 1
  OBVIOUS
<1>2. \A i \in DOMAIN Tail(s) : i + 1 \in DOMAIN s /\ Tail(s)[i] = s[i + 1]
  OBVIOUS
<1>3. (Tail(s) = <<>>) <=> (Len(s) = 1)
  <2>1. \A t \in Seq(Frames) : (t = <<>>) <=> (Len(t) = 0)
    OBVIOUS
  <2>2. (Tail(s) = <<>>) <=> (Len(Tail(s)) = 0)
    BY <1>1, <2>1
  <2> QED BY <1>1, <2>2
<1>4. Tail(s) # <<>> => Head(Tail(s)) = s[2] /\ 2 \in DOMAIN s
  <2>1. SUFFICES ASSUME Tail(s) # <<>>  PROVE Head(Tail(s)) = s[2] /\ 2 \in DOMAIN s
    OBVIOUS
  <2>2. Head(Tail(s)) = Tail(s)[1] /\ 1 \in DOMAIN Tail(s)
    BY <1>1, <2>1
  <2>3. 1 + 1 \in DOMAIN s /\ Tail(s)[1] = s[1 + 1]
    BY <1>2, <2>2
  <2> QED BY <2>2, <2>3
<1> QED BY <1>1, <1>2, <1>3, <1>4

\* The table a configuration gives is a set of transitions.
LEMMA TableType ==
    ASSUME NEW c \in Configs
    PROVE  ToSet(c.trans) \subseteq Transitions
<1>1. c.trans \in Seq(Transitions)
  BY ConfigAssumption DEF Transitions
<1>2. \A x \in ToSet(c.trans) : \E i \in DOMAIN c.trans : x = c.trans[i]
  BY DEF ToSet
<1> QED BY <1>1, <1>2

-----------------------------------------------------------------------------
\* Each step of the specification keeps the types.
LEMMA TypeStep ==
    ASSUME FrameType, [NextFSM]_fsmVars
    PROVE  FrameType'
<1> USE DEF FrameType
<1>1. ASSUME NEW c \in Configs, NewFSM(c)  PROVE FrameType'
  BY <1>1, TableType DEF NewFSM
<1>2. ASSUME NEW g \in Goroutines, NEW t \in Transitions,
             Push(g, Frame(t, "event"))
      PROVE  stack' \in [Goroutines -> Seq(Frames)]
  <2>1. Frame(t, "event") \in Frames
    BY DEF Frame, Frames
  <2>2. <<Frame(t, "event")>> \o stack[g] \in Seq(Frames)
    BY <2>1, PushedFrame
  <2> QED BY <1>2, <2>2 DEF Push
<1>3. ASSUME NEW g \in Goroutines, NEW e \in Events, SendEvent(g, e)  PROVE FrameType'
  <2>1. PICK t \in Lookup(e, current) : Push(g, Frame(t, "event"))
    BY <1>3 DEF SendEvent
  <2>2. t \in Transitions
    BY <2>1 DEF Lookup
  <2>3. stack' \in [Goroutines -> Seq(Frames)]
    BY <1>2, <2>1, <2>2
  <2>4. UNCHANGED <<transitions, current, inside>> /\ turn' \in {g, turn}
    BY <1>3 DEF SendEvent
  <2> QED BY <2>3, <2>4
<1>4. ASSUME NEW g \in Goroutines, NEW e \in Events, Reenter(g, e)  PROVE FrameType'
  <2>1. PICK t \in Lookup(e, current) : Push(g, Frame(t, "event"))
    BY <1>4 DEF Reenter
  <2>2. t \in Transitions
    BY <2>1 DEF Lookup
  <2>3. stack' \in [Goroutines -> Seq(Frames)]
    BY <1>2, <2>1, <2>2
  <2>4. UNCHANGED <<transitions, current, inside, turn>>
    BY <1>4 DEF Reenter
  <2> QED BY <2>3, <2>4
<1>5. ASSUME NEW g \in Goroutines, stack[g] # <<>>, NEW a \in {"exit", "entry"}, GoOn(g, a)
      PROVE  stack' \in [Goroutines -> Seq(Frames)]
  <2>1. Top(g) \in Frames /\ Tail(stack[g]) \in Seq(Frames)
    BY <1>5, TailFrames DEF Top
  <2>2. Frame(Top(g).trans, a) \in Frames
    BY <2>1, <1>5 DEF Frame, Frames
  <2>3. <<Frame(Top(g).trans, a)>> \o Tail(stack[g]) \in Seq(Frames)
    BY <2>1, <2>2, PushedFrame
  <2> QED BY <1>5, <2>3 DEF GoOn
<1>6. ASSUME NEW g \in Goroutines, stack[g] # <<>>, Return(g)
      PROVE  stack' \in [Goroutines -> Seq(Frames)] /\ turn' \in Goroutines \cup {NoOne}
  <2>1. Tail(stack[g]) \in Seq(Frames)
    BY <1>6, TailFrames
  <2>2. stack' \in [Goroutines -> Seq(Frames)]
    BY <1>6, <2>1 DEF Return
  <2>3. turn' \in {NoOne, turn}
    BY <1>6 DEF Return
  <2> QED BY <2>2, <2>3
<1>7. ASSUME NEW g \in Goroutines, stack[g] # <<>>
      PROVE  Top(g).trans \in Transitions /\ Top(g).trans.from \in States
             /\ Top(g).trans.to \in States
  <2>1. Top(g) \in Frames
    BY <1>7, TailFrames DEF Top
  <2> QED BY <2>1 DEF Frames, Transitions
<1>8. ASSUME NEW g \in Goroutines, EventCallback(g)  PROVE FrameType'
  <2>1. stack[g] # <<>> /\ UNCHANGED <<transitions, current>>
    BY <1>8 DEF EventCallback
  <2>2. CASE Top(g).trans.from = Top(g).trans.to
    <3>1. Return(g) /\ UNCHANGED inside
      BY <1>8, <2>2 DEF EventCallback
    <3> QED BY <3>1, <2>1, <1>6
  <2>3. CASE Top(g).trans.from # Top(g).trans.to
    <3>1. GoOn(g, "exit") /\ UNCHANGED turn
          /\ inside' = [inside EXCEPT ![Top(g).trans.from] = @ - 1]
      BY <1>8, <2>3 DEF EventCallback
    <3>2. stack' \in [Goroutines -> Seq(Frames)]
      BY <3>1, <2>1, <1>5
    <3>3. inside' \in [States -> Int]
      BY <3>1, <1>7, <2>1
    <3> QED BY <3>1, <3>2, <3>3, <2>1
  <2> QED BY <2>2, <2>3
<1>9. ASSUME NEW g \in Goroutines, SetState(g)  PROVE FrameType'
  <2>1. /\ stack[g] # <<>> /\ UNCHANGED <<transitions, turn>>
        /\ current' = Top(g).trans.to /\ GoOn(g, "entry")
        /\ inside' = [inside EXCEPT ![Top(g).trans.to] = @ + 1]
    BY <1>9 DEF SetState
  <2>2. stack' \in [Goroutines -> Seq(Frames)]
    BY <2>1, <1>5
  <2>3. inside' \in [States -> Int] /\ current' \in States
    BY <2>1, <1>7
  <2> QED BY <2>1, <2>2, <2>3
<1>10. ASSUME NEW g \in Goroutines, EntryCallback(g)  PROVE FrameType'
  <2>1. stack[g] # <<>> /\ Return(g) /\ UNCHANGED <<transitions, current, inside>>
    BY <1>10 DEF EntryCallback
  <2> QED BY <2>1, <1>6
<1>11. CASE UNCHANGED fsmVars
  BY <1>11 DEF fsmVars
<1> QED BY <1>1, <1>3, <1>4, <1>8, <1>9, <1>10, <1>11 DEF NextFSM

-----------------------------------------------------------------------------
\* While g has the lock, or nobody has, no other goroutine is in SendEvent.
LEMMA Alone ==
    ASSUME FrameType, HolderInv, NEW g \in Goroutines, turn \in {g, NoOne}
    PROVE  \A h \in Goroutines : h # g => stack[h] = <<>>
  BY FSMAssumption DEF HolderInv

\* What remains to be shown of a step of g when the others are outside: the
\* invariant for g.
LEMMA StepOfOne ==
    ASSUME NEW g \in Goroutines,
           \A h \in Goroutines : h # g => stack'[h] = <<>>,
           stack'[g] # <<>> => turn' = g,
           \A i \in DOMAIN stack'[g] : i > 1 => stack'[g][i].at = "entry",
           stack'[g] # <<>> /\ Head(stack'[g]).at \in {"event", "exit"}
             => Head(stack'[g]).trans \in transitions' /\ Head(stack'[g]).trans.from = current'
    PROVE  /\ HolderInv' /\ OuterInv' /\ LeavingInv'
           /\ Leaving' <=> (stack'[g] # <<>> /\ Head(stack'[g]).at = "exit")
<1>1. HolderInv'
  BY DEF HolderInv
<1>2. OuterInv'
  <2>1. SUFFICES ASSUME NEW h \in Goroutines, NEW i \in DOMAIN stack'[h], i > 1
                 PROVE  stack'[h][i].at = "entry"
    BY DEF OuterInv
  <2>2. CASE h = g
    BY <2>1, <2>2
  <2>3. CASE h # g
    BY <2>1, <2>3
  <2> QED BY <2>2, <2>3
<1>3. LeavingInv'
  BY DEF LeavingInv, Top
<1>4. Leaving' <=> (stack'[g] # <<>> /\ Head(stack'[g]).at = "exit")
  BY DEF Leaving, Top
<1> QED BY <1>1, <1>2, <1>3, <1>4

\* The same, read in the state before the step.
LEMMA LeavingOfOne ==
    ASSUME NEW g \in Goroutines, \A h \in Goroutines : h # g => stack[h] = <<>>
    PROVE  Leaving <=> (stack[g] # <<>> /\ Top(g).at = "exit")
  BY DEF Leaving

\* A call begins: at the top, or in the entry callback of another one.
LEMMA BeginStep ==
    ASSUME FSMInv, FrameType', NEW g \in Goroutines, NEW e \in Events,
           \A h \in Goroutines : h # g => stack[h] = <<>>,
           stack[g] # <<>> => Top(g).at = "entry",
           \E t \in Lookup(e, current) : Push(g, Frame(t, "event")),
           turn' = g,
           UNCHANGED <<transitions, current, inside>>
    PROVE  FSMInv'
<1> USE DEF FSMInv, FrameType
<1>1. PICK t \in Lookup(e, current) : Push(g, Frame(t, "event"))
  OBVIOUS
<1>2. t \in transitions /\ t.from = current /\ t \in Transitions
  BY <1>1 DEF Lookup
<1> DEFINE f == Frame(t, "event")
<1>3. f \in Frames /\ f.at = "event" /\ f.trans = t
  BY <1>2 DEF Frame, Frames
<1> HIDE DEF f
<1>4. stack'[g] = <<f>> \o stack[g] /\ \A h \in Goroutines : h # g => stack'[h] = stack[h]
  BY <1>1 DEF Push, f
<1>5. /\ stack'[g] # <<>> /\ Head(stack'[g]) = f
      /\ \A i \in DOMAIN stack'[g] : i > 1 => i - 1 \in DOMAIN stack[g] /\ stack'[g][i] = stack[g][i - 1]
  BY <1>3, <1>4, PushedFrame
<1>6. \A i \in DOMAIN stack[g] : stack[g][i].at = "entry"
  <2>1. SUFFICES ASSUME NEW i \in DOMAIN stack[g]  PROVE stack[g][i].at = "entry"
    OBVIOUS
  <2>2. CASE i = 1
    <3>1. stack[g] # <<>>
      BY <2>2
    <3> QED BY <3>1, <2>2, TailFrames DEF Top
  <2>3. CASE i # 1
    BY <2>1, <2>3 DEF OuterInv
  <2> QED BY <2>2, <2>3
<1>7. \A i \in DOMAIN stack'[g] : i > 1 => stack'[g][i].at = "entry"
  BY <1>5, <1>6
<1>8. /\ HolderInv' /\ OuterInv' /\ LeavingInv'
      /\ Leaving' <=> (stack'[g] # <<>> /\ Head(stack'[g]).at = "exit")
  BY <1>2, <1>3, <1>4, <1>5, <1>7, StepOfOne
<1>9. ~Leaving' /\ ~Leaving
  BY <1>8, <1>5, <1>3, LeavingOfOne
<1>10. InsideInv'
  BY <1>9 DEF InsideInv
<1> QED BY <1>8, <1>10

\* A call returns, from its event callback or its entry callback.
LEMMA ReturnStep ==
    ASSUME FSMInv, FrameType', NEW g \in Goroutines, stack[g] # <<>>,
           Top(g).at # "exit",
           Return(g),
           UNCHANGED <<transitions, current, inside>>
    PROVE  FSMInv'
<1> USE DEF FSMInv, FrameType
<1>1. turn = g /\ \A h \in Goroutines : h # g => stack[h] = <<>>
  BY Alone DEF HolderInv
<1>2. stack'[g] = Tail(stack[g]) /\ \A h \in Goroutines : h # g => stack'[h] = stack[h]
  BY DEF Return
<1>3. \A i \in DOMAIN stack'[g] : i + 1 \in DOMAIN stack[g] /\ stack'[g][i] = stack[g][i + 1]
  BY <1>2, TailFrames
<1>4. \A i \in DOMAIN stack'[g] : stack'[g][i].at = "entry"
  <2>1. SUFFICES ASSUME NEW i \in DOMAIN stack'[g]  PROVE stack[g][i + 1].at = "entry"
    BY <1>3
  <2>2. i \in Nat /\ i >= 1 /\ i + 1 \in DOMAIN stack[g]
    BY <1>2, <1>3, TailFrames
  <2> QED BY <2>2 DEF OuterInv
<1>5. stack'[g] # <<>> => Head(stack'[g]).at = "entry"
  <2>1. SUFFICES ASSUME stack'[g] # <<>>  PROVE Head(stack'[g]).at = "entry"
    OBVIOUS
  <2>2. stack'[g] \in Seq(Frames)
    OBVIOUS
  <2>3. 1 \in DOMAIN stack'[g] /\ Head(stack'[g]) = stack'[g][1]
    BY <2>1, <2>2, TailFrames
  <2> QED BY <2>3, <1>4
<1>6. stack'[g] # <<>> => turn' = g
  BY <1>1, <1>2, TailFrames DEF Return
<1>7. /\ HolderInv' /\ OuterInv' /\ LeavingInv'
      /\ Leaving' <=> (stack'[g] # <<>> /\ Head(stack'[g]).at = "exit")
  <2>1. \A h \in Goroutines : h # g => stack'[h] = <<>>
    BY <1>1, <1>2
  <2>2. stack'[g] # <<>> /\ Head(stack'[g]).at \in {"event", "exit"}
          => Head(stack'[g]).trans \in transitions' /\ Head(stack'[g]).trans.from = current'
    BY <1>5
  <2>3. \A i \in DOMAIN stack'[g] : i > 1 => stack'[g][i].at = "entry"
    BY <1>4
  <2> QED BY <2>1, <2>2, <2>3, <1>6, StepOfOne
<1>8. ~Leaving' /\ ~Leaving
  BY <1>7, <1>5, <1>1, LeavingOfOne
<1>9. InsideInv'
  BY <1>8 DEF InsideInv
<1> QED BY <1>7, <1>9

\* GoOn changes the callback the innermost call is in, and nothing else of
\* the calls.
LEMMA GoOnStack ==
    ASSUME FSMInv, NEW g \in Goroutines, stack[g] # <<>>,
           NEW a \in {"exit", "entry"}, GoOn(g, a)
    PROVE  /\ \A h \in Goroutines : h # g => stack'[h] = stack[h]
           /\ stack'[g] # <<>>
           /\ Head(stack'[g]).at = a /\ Head(stack'[g]).trans = Top(g).trans
           /\ \A i \in DOMAIN stack'[g] : i > 1 => stack'[g][i].at = "entry"
<1> USE DEF FSMInv, FrameType
<1>1. Top(g) \in Frames /\ Tail(stack[g]) \in Seq(Frames)
  BY TailFrames DEF Top
<1> DEFINE f == Frame(Top(g).trans, a)
<1>2. f \in Frames /\ f.at = a /\ f.trans = Top(g).trans
  BY <1>1 DEF Frame, Frames
<1> HIDE DEF f
<1>3. stack'[g] = <<f>> \o Tail(stack[g]) /\ \A h \in Goroutines : h # g => stack'[h] = stack[h]
  BY DEF GoOn, f
<1>4. /\ stack'[g] # <<>> /\ Head(stack'[g]) = f
      /\ \A i \in DOMAIN stack'[g] : i > 1 =>
            i - 1 \in DOMAIN Tail(stack[g]) /\ stack'[g][i] = Tail(stack[g])[i - 1]
  BY <1>1, <1>2, <1>3, PushedFrame
<1>5. ASSUME NEW i \in DOMAIN stack'[g], i > 1  PROVE stack'[g][i].at = "entry"
  <2>1. i \in Nat
    BY <1>1, <1>2, <1>3, PushedFrame
  <2>2. i - 1 \in DOMAIN Tail(stack[g]) /\ stack'[g][i] = Tail(stack[g])[i - 1]
    BY <1>4, <1>5
  <2>3. (i - 1) + 1 \in DOMAIN stack[g] /\ Tail(stack[g])[i - 1] = stack[g][(i - 1) + 1]
    BY <2>2, TailFrames
  <2>4. i \in DOMAIN stack[g] /\ stack'[g][i] = stack[g][i]
    BY <2>1, <2>2, <2>3
  <2> QED BY <2>4, <1>5 DEF OuterInv
<1> QED BY <1>2, <1>3, <1>4, <1>5

\* The exit callback starts: the state is left and not yet set.
LEMMA ExitStep ==
    ASSUME FSMInv, FrameType', NEW g \in Goroutines, EventCallback(g),
           Top(g).trans.from # Top(g).trans.to
    PROVE  FSMInv'
<1> USE DEF FSMInv, FrameType
<1>1. /\ stack[g] # <<>> /\ Top(g).at = "event"
      /\ GoOn(g, "exit") /\ UNCHANGED <<turn, transitions, current>>
      /\ inside' = [inside EXCEPT ![Top(g).trans.from] = @ - 1]
  BY DEF EventCallback
<1>2. turn = g /\ \A h \in Goroutines : h # g => stack[h] = <<>>
  BY <1>1, Alone DEF HolderInv
<1>3. Top(g).trans \in transitions /\ Top(g).trans.from = current
  BY <1>1 DEF LeavingInv
<1>4. /\ \A h \in Goroutines : h # g => stack'[h] = stack[h]
      /\ stack'[g] # <<>>
      /\ Head(stack'[g]).at = "exit" /\ Head(stack'[g]).trans = Top(g).trans
      /\ \A i \in DOMAIN stack'[g] : i > 1 => stack'[g][i].at = "entry"
  BY <1>1, GoOnStack
<1>5. /\ HolderInv' /\ OuterInv' /\ LeavingInv'
      /\ Leaving' <=> (stack'[g] # <<>> /\ Head(stack'[g]).at = "exit")
  BY <1>1, <1>2, <1>3, <1>4, StepOfOne
<1>6. ~Leaving /\ Leaving'
  BY <1>1, <1>2, <1>4, <1>5, LeavingOfOne
<1>7. inside = [s \in States |-> IF s = current THEN 1 ELSE 0]
  BY <1>6 DEF InsideInv
<1>8. inside' = [s \in States |-> 0]
  BY <1>1, <1>3, <1>7
<1>9. InsideInv'
  BY <1>6, <1>8 DEF InsideInv
<1> QED BY <1>5, <1>9

\* Set, and the entry callback starts.
LEMMA SetStep ==
    ASSUME FSMInv, FrameType', NEW g \in Goroutines, SetState(g)
    PROVE  FSMInv' /\ AlongATransition
<1> USE DEF FSMInv, FrameType
<1>1. /\ stack[g] # <<>> /\ Top(g).at = "exit"
      /\ current' = Top(g).trans.to
      /\ GoOn(g, "entry") /\ UNCHANGED <<turn, transitions>>
      /\ inside' = [inside EXCEPT ![Top(g).trans.to] = @ + 1]
  BY DEF SetState
<1>2. turn = g /\ \A h \in Goroutines : h # g => stack[h] = <<>>
  BY <1>1, Alone DEF HolderInv
<1>3. Top(g).trans \in transitions /\ Top(g).trans.from = current
  BY <1>1 DEF LeavingInv
<1>4. /\ \A h \in Goroutines : h # g => stack'[h] = stack[h]
      /\ stack'[g] # <<>>
      /\ Head(stack'[g]).at = "entry" /\ Head(stack'[g]).trans = Top(g).trans
      /\ \A i \in DOMAIN stack'[g] : i > 1 => stack'[g][i].at = "entry"
  BY <1>1, GoOnStack
<1>5. /\ HolderInv' /\ OuterInv' /\ LeavingInv'
      /\ Leaving' <=> (stack'[g] # <<>> /\ Head(stack'[g]).at = "exit")
  BY <1>1, <1>2, <1>4, StepOfOne
<1>6. Leaving /\ ~Leaving'
  BY <1>1, <1>2, <1>4, <1>5, LeavingOfOne
<1>7. inside = [s \in States |-> 0]
  BY <1>6 DEF InsideInv
<1>8. inside' = [s \in States |-> IF s = current' THEN 1 ELSE 0]
  <2>1. inside' = [inside EXCEPT ![current'] = @ + 1]
    BY <1>1
  <2>2. \A s \in States : inside'[s] = IF s = current' THEN 1 ELSE 0
    BY <1>7, <2>1
  <2>3. DOMAIN inside' = States /\ inside' = [s \in DOMAIN inside' |-> inside'[s]]
    BY <1>7, <2>1
  <2> QED BY <2>2, <2>3
<1>9. InsideInv'
  BY <1>6, <1>8 DEF InsideInv
<1>10. AlongATransition
  BY <1>1, <1>3 DEF AlongATransition
<1> QED BY <1>5, <1>9, <1>10

\* NewFSM gives the table while it is empty: no call has begun by then.
LEMMA NewFSMStep ==
    ASSUME FSMInv, FrameType', NEW c \in Configs, NewFSM(c)
    PROVE  FSMInv'
<1> USE DEF FSMInv, FrameType
<1>1. transitions = {} /\ UNCHANGED <<current, stack, turn, inside>>
  BY DEF NewFSM
<1>2. HolderInv' /\ OuterInv'
  BY <1>1 DEF HolderInv, OuterInv
<1>3. LeavingInv'
  BY <1>1 DEF LeavingInv, Top
<1>4. InsideInv'
  BY <1>1 DEF InsideInv, Leaving, Top
<1> QED BY <1>2, <1>3, <1>4

-----------------------------------------------------------------------------
\* The invariant holds before the first event.
LEMMA InitInv == InitFSM => FSMInv
<1>1. SUFFICES ASSUME InitFSM  PROVE FSMInv
  OBVIOUS
<1>2. FrameType
  BY <1>1, FSMAssumption DEF InitFSM, FrameType
<1>3. \A g \in Goroutines : stack[g] = <<>>
  BY <1>1 DEF InitFSM
<1>4. HolderInv /\ LeavingInv /\ ~Leaving
  BY <1>3 DEF HolderInv, LeavingInv, Leaving
<1>5. OuterInv
  BY <1>3 DEF OuterInv
<1>6. InsideInv
  BY <1>1, <1>4 DEF InsideInv, InitFSM
<1> QED BY <1>2, <1>4, <1>5, <1>6 DEF FSMInv

\* Every step keeps the invariant and moves along a transition, or not at all.
LEMMA StepInv ==
    ASSUME CallersAgree, FSMInv, [NextFSM]_fsmVars
    PROVE  FSMInv' /\ (AlongATransition \/ UNCHANGED fsmVars)
<1>1. FrameType'
  BY TypeStep DEF FSMInv
<1>2. ASSUME NEW c \in Configs, NewFSM(c)  PROVE FSMInv' /\ AlongATransition
  BY <1>1, <1>2, NewFSMStep DEF NewFSM, AlongATransition
<1>3. ASSUME NEW g \in Goroutines, NEW e \in Events, SendEvent(g, e)
      PROVE  FSMInv' /\ AlongATransition
  <2>1. /\ stack[g] = <<>> /\ turn = NoOne /\ turn' = g
        /\ \E t \in Lookup(e, current) : Push(g, Frame(t, "event"))
        /\ UNCHANGED <<transitions, current, inside>>
    BY <1>3 DEF SendEvent, CallersAgree
  <2>2. \A h \in Goroutines : h # g => stack[h] = <<>>
    BY <2>1, Alone DEF FSMInv
  <2>3. FSMInv'
    BY <1>1, <2>1, <2>2, BeginStep
  <2> QED BY <2>1, <2>3 DEF AlongATransition
<1>4. ASSUME NEW g \in Goroutines, NEW e \in Events, Reenter(g, e)
      PROVE  FSMInv' /\ AlongATransition
  <2>1. /\ stack[g] # <<>> /\ Top(g).at = "entry" /\ UNCHANGED turn
        /\ \E t \in Lookup(e, current) : Push(g, Frame(t, "event"))
        /\ UNCHANGED <<transitions, current, inside>>
    BY <1>4 DEF Reenter, CallersAgree
  <2>2. turn = g /\ \A h \in Goroutines : h # g => stack[h] = <<>>
    BY <2>1, Alone DEF FSMInv, HolderInv
  <2>3. FSMInv'
    BY <1>1, <2>1, <2>2, BeginStep
  <2> QED BY <2>1, <2>3 DEF AlongATransition
<1>5. ASSUME NEW g \in Goroutines, EventCallback(g)  PROVE FSMInv' /\ AlongATransition
  <2>1. stack[g] # <<>> /\ Top(g).at = "event" /\ UNCHANGED <<transitions, current>>
    BY <1>5 DEF EventCallback
  <2>2. CASE Top(g).trans.from = Top(g).trans.to
    <3>1. Return(g) /\ UNCHANGED inside
      BY <1>5, <2>2 DEF EventCallback
    <3> QED BY <1>1, <2>1, <3>1, ReturnStep DEF AlongATransition
  <2>3. CASE Top(g).trans.from # Top(g).trans.to
    BY <1>1, <1>5, <2>1, <2>3, ExitStep DEF AlongATransition
  <2> QED BY <2>2, <2>3
<1>6. ASSUME NEW g \in Goroutines, SetState(g)  PROVE FSMInv' /\ AlongATransition
  BY <1>1, <1>6, SetStep
<1>7. ASSUME NEW g \in Goroutines, EntryCallback(g)  PROVE FSMInv' /\ AlongATransition
  <2>1. /\ stack[g] # <<>> /\ Top(g).at = "entry" /\ Return(g)
        /\ UNCHANGED <<transitions, current, inside>>
    BY <1>7 DEF EntryCallback
  <2> QED BY <1>1, <2>1, ReturnStep DEF AlongATransition
<1>8. CASE UNCHANGED fsmVars
  <2>1. HolderInv' /\ OuterInv' /\ LeavingInv'
    BY <1>8 DEF FSMInv, fsmVars, HolderInv, OuterInv, LeavingInv, Top
  <2>2. InsideInv'
    BY <1>8 DEF FSMInv, fsmVars, InsideInv, Leaving, Top
  <2> QED BY <1>1, <1>8, <2>1, <2>2 DEF FSMInv
<1> QED BY <1>2, <1>3, <1>4, <1>5, <1>6, <1>7, <1>8 DEF NextFSM

\* FSMInv holds of every behaviour.
THEOREM Invariance == ASSUME CallersAgree PROVE SpecFSM => []FSMInv
<1>1. FSMInv /\ [NextFSM]_fsmVars => FSMInv'
  BY StepInv
<1> QED BY <1>1, InitInv, PTL DEF SpecFSM

\* The callbacks of SendEvent pair up: when no call is between its exit
\* callback and its Set, exactly the current state is entered and not left.
THEOREM CallbacksPair == ASSUME CallersAgree PROVE SpecFSM => []Paired
<1>1. FSMInv => Paired
  <2>1. SUFFICES ASSUME FSMInv,
                        \A g \in Goroutines : \A i \in DOMAIN stack[g] : stack[g][i].at # "exit"
                 PROVE  inside = [s \in States |-> IF s = current THEN 1 ELSE 0]
    BY DEF Paired
  <2>2. ~Leaving
    <3>1. SUFFICES ASSUME NEW g \in Goroutines, stack[g] # <<>>  PROVE Top(g).at # "exit"
      BY DEF Leaving
    <3>2. 1 \in DOMAIN stack[g] /\ Top(g) = stack[g][1]
      BY <2>1, <3>1, TailFrames DEF FSMInv, FrameType, Top
    <3> QED BY <2>1, <3>2
  <2> QED BY <2>1, <2>2 DEF FSMInv, InsideInv
<1> QED BY <1>1, Invariance, PTL

\* State.current changes only along a transition of the table that starts in
\* the state it has, however the goroutines and the nested calls interleave.
THEOREM MovesAlongTheTable == ASSUME CallersAgree PROVE SpecFSM => FollowsTransitions
<1>1. FSMInv /\ [NextFSM]_fsmVars => [AlongATransition]_fsmVars
  BY StepInv
<1> QED BY <1>1, Invariance, PTL DEF SpecFSM, FollowsTransitions
=============================================================================
