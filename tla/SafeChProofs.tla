---------------------------- MODULE SafeChProofs ----------------------------
(***************************************************************************)
(* Proofs about SafeCh for every capacity and any number of senders and    *)
(* closers: no send on, and no second close of, a closed channel, and no   *)
(* element lost between the senders and a receiver that drains the         *)
(* channel.                                                                *)
(***************************************************************************)
EXTENDS SafeCh, TLAPS

Elements == Senders \X Nat

\* What the proofs need of the types.
Types ==
    /\ closed \in BOOLEAN /\ panicked \in BOOLEAN
    /\ place \in [Threads -> {"idle", "sendCheck", "sending", "sendUnlock", "askClosed",
                           "readClosed", "receive", "awaitReaders", "done"}]
    /\ sends \in [Senders -> Nat]
    /\ ch \in Seq(Elements) /\ accepted \in Seq(Elements) /\ received \in Seq(Elements)

\* The read lock is held from Send's check to its RUnlock: whoever is past the
\* check is a reader.
ReadersInv == \A s \in Senders : place[s] \in {"sending", "sendUnlock"} => s \in readers

\* The field and the channel agree, and nobody sends once they say closed.
ClosedInv == /\ chClosed = closed
             /\ closed => \A s \in Senders : place[s] # "sending"

\* Elements are taken in the order they were put in; a receiver that is done
\* found the channel closed and empty.
ReceivedInv == /\ accepted = received \o ch
               /\ place[Receiver] = "done" => ch = <<>> /\ closed

IInv == Types /\ ReadersInv /\ ClosedInv /\ ReceivedInv /\ ~panicked

-----------------------------------------------------------------------------
\* Putting an element in commutes with what was received before it.
LEMMA AppendConcat ==
  ASSUME NEW s \in Seq(Elements), NEW t \in Seq(Elements), NEW e \in Elements
  PROVE  Append(s \o t, e) = s \o Append(t, e)
  OBVIOUS

\* Taking the first element of the channel moves it behind what was received.
LEMMA TakeConcat ==
  ASSUME NEW s \in Seq(Elements), NEW t \in Seq(Elements), t # <<>>
  PROVE  /\ Head(t) \in Elements /\ Tail(t) \in Seq(Elements)
         /\ Append(s, Head(t)) \o Tail(t) = s \o t
  OBVIOUS

\* Init => IInv.
LEMMA InitIInv == InitCh => IInv
<1> SUFFICES ASSUME InitCh PROVE IInv
  OBVIOUS
<1>1. Types
  <2>1. closed \in BOOLEAN /\ panicked \in BOOLEAN
    BY DEF InitCh
  <2>2. ch \in Seq(Elements) /\ accepted \in Seq(Elements) /\ received \in Seq(Elements)
    BY DEF InitCh
  <2>3. sends \in [Senders -> Nat]
    BY DEF InitCh
  <2>4. place \in [Threads -> {"idle", "sendCheck", "sending", "sendUnlock", "askClosed",
                            "readClosed", "receive", "awaitReaders", "done"}]
    BY DEF InitCh
  <2> QED BY <2>1, <2>2, <2>3, <2>4 DEF Types
<1>2. \A t \in Threads : place[t] \in {"receive", "idle"}
  BY DEF InitCh
<1>3. ReadersInv
  BY <1>2 DEF ReadersInv, Threads
<1>4. ClosedInv
  BY DEF InitCh, ClosedInv
<1>5. ReceivedInv
  <2>1. accepted = received \o ch
    BY DEF InitCh
  <2> QED BY <1>2, <2>1 DEF ReceivedInv, Threads
<1>6. ~panicked
  BY DEF InitCh
<1> QED BY <1>1, <1>3, <1>4, <1>5, <1>6 DEF IInv

\* A step that moves one goroutine other than the receiver, to a place that is
\* not inside Send's critical section, and leaves the channel alone.
LEMMA MoveIInv ==
  ASSUME IInv, NEW t \in Senders \cup Closers,
         NEW label \in {"idle", "sendCheck", "askClosed", "readClosed", "awaitReaders", "done"},
         Goto(t, label),
         sends' \in [Senders -> Nat],
         \A s \in Senders : s # t /\ s \in readers => s \in readers',
         UNCHANGED <<closed, ch, chClosed, panicked, accepted, received>>
  PROVE  IInv'
<1>1. t \in Threads /\ t # Receiver /\ Receiver \in Threads
  BY RolesAssumption DEF Threads
<1>2. Types'
  BY <1>1 DEF IInv, Types, Goto
<1>3. \A u \in Threads : place'[u] = IF u = t THEN label ELSE place[u]
  BY <1>1 DEF IInv, Types, Goto
<1>4. ReadersInv'
  BY <1>3 DEF IInv, ReadersInv, Threads
<1>5. ClosedInv'
  BY <1>3 DEF IInv, ClosedInv, Threads
<1>6. ReceivedInv'
  BY <1>1, <1>3 DEF IInv, ReceivedInv
<1> QED BY <1>2, <1>4, <1>5, <1>6 DEF IInv

\* Send up to its lock, its RUnlock, IsClosed, and Close up to its lock.
LEMMA CallsIInv ==
  ASSUME IInv
  PROVE  /\ \A s \in Senders : SendLock(s) \/ SendUnlock(s) \/ IsClosedLock(s) \/ IsClosed(s)
                                 => IInv'
         /\ \A t \in Closers : CloseLock(t) => IInv'
<1>1. ASSUME NEW s \in Senders, SendLock(s) PROVE IInv'
  <2>1. sends' \in [Senders -> Nat]
    BY <1>1 DEF SendLock, IInv, Types
  <2> QED BY <1>1, <2>1, MoveIInv DEF SendLock, RLock
<1>2. ASSUME NEW s \in Senders, SendUnlock(s) PROVE IInv'
  <2>1. sends' \in [Senders -> Nat]
    BY <1>2 DEF SendUnlock, IInv, Types
  <2> QED BY <1>2, <2>1, MoveIInv DEF SendUnlock, RUnlock
<1>3. ASSUME NEW s \in Senders, IsClosedLock(s) PROVE IInv'
  <2>1. sends' \in [Senders -> Nat]
    BY <1>3 DEF IsClosedLock, IInv, Types
  <2> QED BY <1>3, <2>1, MoveIInv DEF IsClosedLock, RLock
<1>4. ASSUME NEW s \in Senders, IsClosed(s) PROVE IInv'
  <2>1. sends' \in [Senders -> Nat]
    BY <1>4 DEF IsClosed, IInv, Types
  <2> QED BY <1>4, <2>1, MoveIInv DEF IsClosed, RUnlock
<1>5. ASSUME NEW t \in Closers, CloseLock(t) PROVE IInv'
  <2>1. sends' \in [Senders -> Nat]
    BY <1>5 DEF CloseLock, IInv, Types
  <2> QED BY <1>5, <2>1, MoveIInv DEF CloseLock
<1> QED BY <1>1, <1>2, <1>3, <1>4, <1>5

\* Send's check: with the read lock held, a channel found open is open.
LEMMA SendCheckIInv ==
  ASSUME IInv, NEW s \in Senders, SendCheck(s)
  PROVE  IInv'
<1> DEFINE label == IF closed THEN "sendUnlock" ELSE "sending"
<1>1. s \in Threads /\ s # Receiver /\ Receiver \in Threads
  BY RolesAssumption DEF Threads
<1>2. label \in {"sendUnlock", "sending"} /\ (closed => label # "sending")
  OBVIOUS
<1>3. place' = [place EXCEPT ![s] = label]
  BY DEF SendCheck, Goto
<1> HIDE DEF label
<1>4. Types'
  BY <1>2, <1>3 DEF IInv, Types, SendCheck, lockVars
<1>5. \A u \in Threads : place'[u] = IF u = s THEN label ELSE place[u]
  BY <1>3 DEF IInv, Types
<1>6. s \in readers /\ readers' = readers
  BY DEF SendCheck, lockVars
<1>7. ReadersInv'
  BY <1>5, <1>6 DEF IInv, ReadersInv, Threads
<1>8. ClosedInv'
  BY <1>2, <1>5 DEF IInv, ClosedInv, SendCheck, Threads
<1>9. ReceivedInv'
  BY <1>1, <1>5 DEF IInv, ReceivedInv, SendCheck
<1>10. ~panicked'
  BY DEF IInv, SendCheck
<1> QED BY <1>4, <1>7, <1>8, <1>9, <1>10 DEF IInv

\* Send's c.ch <- e: the channel is open, so it takes the element.
LEMMA SendingIInv ==
  ASSUME IInv, NEW s \in Senders, Sending(s)
  PROVE  IInv'
<1> DEFINE e == <<s, sends[s]>>
<1>1. s \in Threads /\ s # Receiver /\ Receiver \in Threads
  BY RolesAssumption DEF Threads
<1>2. ~closed /\ ~chClosed
  BY DEF IInv, ClosedInv, Sending
<1>3. /\ ch' = Append(ch, e) /\ accepted' = Append(accepted, e)
      /\ UNCHANGED <<panicked, closed, chClosed, readers, sends, received>>
  BY <1>2 DEF Sending, lockVars
<1>4. e \in Elements
  BY DEF IInv, Types, Elements
<1> HIDE DEF e
<1>5. place' = [place EXCEPT ![s] = "sendUnlock"] /\ place[s] = "sending"
  BY DEF Sending, Goto
<1>6. ch' \in Seq(Elements) /\ accepted' \in Seq(Elements) /\ received' \in Seq(Elements)
  BY <1>3, <1>4 DEF IInv, Types
<1>7. Types'
  BY <1>3, <1>5, <1>6 DEF IInv, Types
<1>8. \A u \in Threads : place'[u] = IF u = s THEN "sendUnlock" ELSE place[u]
  BY <1>5 DEF IInv, Types
<1>9. ReadersInv'
  BY <1>3, <1>5, <1>8 DEF IInv, ReadersInv, Threads
<1>10. ClosedInv'
  BY <1>2, <1>3 DEF IInv, ClosedInv
<1>11. accepted' = received' \o ch'
  BY <1>3, <1>4, AppendConcat DEF IInv, Types, ReceivedInv
<1>12. place'[Receiver] # "done"
  BY <1>1, <1>2, <1>8 DEF IInv, ReceivedInv
<1>13. ReceivedInv'
  BY <1>11, <1>12 DEF ReceivedInv
<1>14. ~panicked'
  BY <1>3 DEF IInv
<1> QED BY <1>7, <1>9, <1>10, <1>13, <1>14 DEF IInv

\* Close with the write lock: there is no reader, hence nobody in a send.
LEMMA CloseIInv ==
  ASSUME IInv, NEW t \in Closers, Close(t)
  PROVE  IInv'
<1>1. t \in Threads /\ t # Receiver /\ Receiver \in Threads /\ t \notin Senders
  BY RolesAssumption DEF Threads
<1>2. place' = [place EXCEPT ![t] = "done"] /\ readers = {}
  BY DEF Close, Goto
<1>3. UNCHANGED <<ch, sends, accepted, received>>
  BY DEF Close
<1>4. \A s \in Senders : place[s] \notin {"sending", "sendUnlock"}
  BY <1>2 DEF IInv, ReadersInv
<1>5. \A u \in Threads : place'[u] = IF u = t THEN "done" ELSE place[u]
  BY <1>2 DEF IInv, Types
<1>6. closed' = TRUE /\ chClosed' = TRUE /\ panicked' = FALSE
  <2>1. CASE closed
    <3>1. closed' = closed /\ chClosed' = chClosed /\ panicked' = panicked
      BY <2>1, Zenon DEF Close
    <3>2. closed \in BOOLEAN /\ panicked \in BOOLEAN /\ chClosed = closed /\ ~panicked
      BY DEF IInv, Types, ClosedInv
    <3> QED BY <2>1, <3>1, <3>2, Zenon
  <2>2. CASE ~closed
    <3>1. closed' = TRUE /\ chClosed' = TRUE /\ panicked' = (panicked \/ chClosed)
      BY <2>2, Zenon DEF Close
    <3>2. chClosed = closed /\ ~panicked
      BY DEF IInv, ClosedInv
    <3> QED BY <2>2, <3>1, <3>2, Zenon
  <2> QED BY <2>1, <2>2
<1>7. Types'
  BY <1>2, <1>3, <1>6 DEF IInv, Types
<1>8. ReadersInv'
  BY <1>1, <1>4, <1>5 DEF ReadersInv, Threads
<1>9. ClosedInv'
  BY <1>1, <1>4, <1>5, <1>6 DEF ClosedInv, Threads
<1>10. ReceivedInv'
  BY <1>1, <1>3, <1>5, <1>6 DEF IInv, ReceivedInv
<1> QED BY <1>6, <1>7, <1>8, <1>9, <1>10 DEF IInv

\* The receiver takes an element, or finds the channel closed and empty.
LEMMA ReceiveIInv ==
  ASSUME IInv, Receive
  PROVE  IInv'
<1>1. Receiver \in Threads /\ Receiver \notin Senders
  BY RolesAssumption DEF Threads
<1>2. UNCHANGED <<closed, chClosed, readers, panicked, sends, accepted>> /\ place[Receiver] = "receive"
  BY DEF Receive, lockVars
<1>3. CASE /\ ch # <<>> /\ received' = Append(received, Head(ch)) /\ ch' = Tail(ch)
           /\ UNCHANGED place
  <2>1. /\ Head(ch) \in Elements /\ Tail(ch) \in Seq(Elements)
        /\ Append(received, Head(ch)) \o Tail(ch) = received \o ch
    BY <1>3, TakeConcat DEF IInv, Types
  <2>2. received' \in Seq(Elements)
    BY <1>3, <2>1 DEF IInv, Types
  <2>3. Types'
    BY <1>2, <1>3, <2>1, <2>2 DEF IInv, Types
  <2>4. ReadersInv' /\ ClosedInv'
    BY <1>2, <1>3 DEF IInv, ReadersInv, ClosedInv
  <2>5. ReceivedInv'
    BY <1>2, <1>3, <2>1 DEF IInv, ReceivedInv
  <2> QED BY <1>2, <2>3, <2>4, <2>5 DEF IInv
<1>4. CASE ch = <<>> /\ chClosed /\ Goto(Receiver, "done") /\ UNCHANGED <<ch, received>>
  <2>1. Types'
    BY <1>2, <1>4 DEF IInv, Types, Goto
  <2>2. \A u \in Threads : place'[u] = IF u = Receiver THEN "done" ELSE place[u]
    BY <1>4 DEF IInv, Types, Goto
  <2>3. ReadersInv' /\ ClosedInv'
    BY <1>1, <1>2, <2>2 DEF IInv, ReadersInv, ClosedInv, Threads
  <2>4. ReceivedInv'
    BY <1>2, <1>4 DEF IInv, ReceivedInv, ClosedInv
  <2> QED BY <1>2, <2>1, <2>3, <2>4 DEF IInv
<1> QED BY <1>3, <1>4 DEF Receive

\* Every step preserves the invariant, one case per action.
LEMMA NextIInv == IInv /\ [NextCh]_chVars => IInv'
<1> SUFFICES ASSUME IInv, [NextCh]_chVars PROVE IInv'
  OBVIOUS
<1>1. CASE \E s \in Senders : SendLock(s) \/ SendUnlock(s) \/ IsClosedLock(s) \/ IsClosed(s)
  BY <1>1, CallsIInv
<1>2. CASE \E t \in Closers : CloseLock(t)
  BY <1>2, CallsIInv
<1>3. CASE \E s \in Senders : SendCheck(s)
  BY <1>3, SendCheckIInv
<1>4. CASE \E s \in Senders : Sending(s)
  BY <1>4, SendingIInv
<1>5. CASE \E t \in Closers : Close(t)
  BY <1>5, CloseIInv
<1>6. CASE Receive
  BY <1>6, ReceiveIInv
<1>7. CASE UNCHANGED chVars
  BY <1>7 DEF IInv, Types, ReadersInv, ClosedInv, ReceivedInv, chVars
<1> QED BY <1>1, <1>2, <1>3, <1>4, <1>5, <1>6, <1>7 DEF NextCh, SenderStep, CloseStep, Finished

-----------------------------------------------------------------------------
\* The channel never leaves the invariant, whatever its size and users.
THEOREM Invariance == SpecCh => []IInv
  BY InitIInv, NextIInv, PTL DEF SpecCh

\* Send racing Close never panics, for any number of senders and closers.
THEOREM Panicless == SpecCh => []NoPanic
<1>1. IInv => NoPanic
  BY DEF IInv, NoPanic
<1> QED BY <1>1, Invariance, PTL

\* A receiver that drains the channel until it is closed has received every
\* element that a Send put in, in order.
THEOREM Lossless == SpecCh => []AllReceived
<1>1. IInv => AllReceived
  BY DEF IInv, Types, ReceivedInv, AllReceived
<1> QED BY <1>1, Invariance, PTL
=============================================================================
