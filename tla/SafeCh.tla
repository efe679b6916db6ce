------------------------------- MODULE SafeCh -------------------------------
(***************************************************************************)
(* lib/util/safe_channel/safe_channel.go: a Go channel that may be closed  *)
(* while others send on it.  Send and IsClosed hold the read lock of an    *)
(* RWMutex, Close the write lock; Send keeps the read lock while it blocks *)
(* on a full channel.                                                      *)
(*                                                                         *)
(* Senders Send and then ask IsClosed, as in safe_channel_test.go; one     *)
(* receiver drains the channel and other goroutines close it.              *)
(***************************************************************************)
EXTENDS Integers, Sequences, FiniteSets

CONSTANTS
    size,             \* the capacity given to NewSafeCh
    Senders, Closers, \* goroutines
    Receiver,         \* the goroutine that reads GetRcvChan()
    MaxSends,         \* bound: how often a sender calls Send
    None              \* no goroutine

ASSUME SizeAssumption == size \in Nat /\ MaxSends \in Nat \ {0}
ASSUME RolesAssumption ==
    /\ Receiver \notin Senders \cup Closers
    /\ Senders \cap Closers = {}
    /\ None \notin Senders \cup Closers \cup {Receiver}

Threads == Senders \cup Closers \cup {Receiver}

VARIABLES
    closed,      \* the field closed
    ch,          \* the elements in the channel
    chClosed,    \* close(ch) has run
    readers,     \* who holds the read lock
    waitR,       \* who waits for it behind a writer
    writer,      \* who holds, or has announced that it waits for, the write lock
    place,       \* where each goroutine is
    panicked,    \* a send on, or a close of, a closed channel
    sends,       \* how many calls of Send each sender has made
    accepted,    \* history: the elements put into the channel, in order
    received     \* history: the elements the receiver took

lockVars == <<readers, waitR, writer>>
chVars == <<closed, ch, chClosed, readers, waitR, writer, place, panicked,
            sends, accepted, received>>

InitCh ==
    /\ closed = FALSE /\ ch = <<>> /\ chClosed = FALSE
    /\ readers = {} /\ waitR = {} /\ writer = None
    /\ place = [t \in Threads |-> IF t = Receiver THEN "receive" ELSE "idle"]
    /\ panicked = FALSE
    /\ sends = [s \in Senders |-> 0]
    /\ accepted = <<>> /\ received = <<>>

Goto(t, label) == place' = [place EXCEPT ![t] = label]

-----------------------------------------------------------------------------
(* sync.RWMutex: a writer that has called Lock keeps new readers out and    *)
(* waits for the present ones; when it unlocks, the readers that queued up  *)
(* meanwhile are let in before the next writer.                             *)

RLock(t) ==
    /\ \/ writer = None /\ readers' = readers \cup {t} /\ UNCHANGED waitR
       \/ writer # None /\ waitR' = waitR \cup {t} /\ UNCHANGED readers
    /\ UNCHANGED writer

RUnlock(t) == readers' = readers \ {t} /\ UNCHANGED <<waitR, writer>>

Unlock == writer' = None /\ readers' = waitR /\ waitR' = {}

-----------------------------------------------------------------------------
\* Send: RLock.
SendLock(s) ==
    /\ place[s] = "idle" /\ sends[s] < MaxSends
    /\ RLock(s)
    /\ sends' = [sends EXCEPT ![s] = @ + 1]
    /\ Goto(s, "sendCheck")
    /\ UNCHANGED <<closed, ch, chClosed, panicked, accepted, received>>

\* Send: `if !c.closed', once the read lock is held.
SendCheck(s) ==
    /\ place[s] = "sendCheck" /\ s \in readers
    /\ Goto(s, IF closed THEN "sendUnlock" ELSE "sending")
    /\ UNCHANGED <<closed, ch, chClosed, lockVars, panicked, sends, accepted, received>>

\* Send: c.ch <- e.  It blocks while the channel is full; a channel without
\* buffer takes an element when the receiver is waiting for one.
Sending(s) ==
    /\ place[s] = "sending"
    /\ \/ /\ chClosed
          /\ panicked' = TRUE
          /\ UNCHANGED <<ch, accepted>>
       \/ /\ ~chClosed
          /\ Len(ch) < size \/ (ch = <<>> /\ place[Receiver] = "receive")
          /\ ch' = Append(ch, <<s, sends[s]>>)
          /\ accepted' = Append(accepted, <<s, sends[s]>>)
          /\ UNCHANGED panicked
    /\ Goto(s, "sendUnlock")
    /\ UNCHANGED <<closed, chClosed, lockVars, sends, received>>

\* Mutant of SendUnlock: Send returns with the read lock held.
MutSendUnlock(s) ==
    /\ place[s] = "sendUnlock"
    /\ Goto(s, "askClosed")
    /\ UNCHANGED <<closed, ch, chClosed, lockVars, panicked, sends, accepted, received>>

\* Send: the deferred RUnlock.
SendUnlock(s) ==
    /\ place[s] = "sendUnlock"
    /\ RUnlock(s)
    /\ Goto(s, "askClosed")
    /\ UNCHANGED <<closed, ch, chClosed, panicked, sends, accepted, received>>

\* IsClosed: RLock, then the read and RUnlock.
IsClosedLock(s) ==
    /\ place[s] = "askClosed"
    /\ RLock(s)
    /\ Goto(s, "readClosed")
    /\ UNCHANGED <<closed, ch, chClosed, panicked, sends, accepted, received>>

IsClosed(s) ==
    /\ place[s] = "readClosed" /\ s \in readers
    /\ RUnlock(s)
    /\ Goto(s, "idle")
    /\ UNCHANGED <<closed, ch, chClosed, panicked, sends, accepted, received>>

-----------------------------------------------------------------------------
\* Close: Lock announces the writer ...
CloseLock(t) ==
    /\ place[t] = "idle"
    /\ writer = None
    /\ writer' = t
    /\ Goto(t, "awaitReaders")
    /\ UNCHANGED <<closed, ch, chClosed, readers, waitR, panicked, sends, accepted, received>>

\* Mutant of Close: the channel is closed again on every call.
MutClose(t) ==
    /\ place[t] = "awaitReaders" /\ readers = {}
    /\ panicked' = (panicked \/ chClosed)
    /\ chClosed' = TRUE
    /\ closed' = TRUE
    /\ Unlock
    /\ Goto(t, "done")
    /\ UNCHANGED <<ch, sends, accepted, received>>

\* Mutant of Close: the write lock is not released.
MutCloseKeepsLock(t) ==
    /\ place[t] = "awaitReaders" /\ readers = {}
    /\ IF closed THEN UNCHANGED <<closed, chClosed, panicked>>
       ELSE /\ panicked' = (panicked \/ chClosed)
            /\ chClosed' = TRUE
            /\ closed' = TRUE
    /\ Goto(t, "done")
    /\ UNCHANGED <<ch, lockVars, sends, accepted, received>>

\* ... and, when the present readers have left, closes the channel once.
Close(t) ==
    /\ place[t] = "awaitReaders" /\ readers = {}
    /\ IF closed THEN UNCHANGED <<closed, chClosed, panicked>>
       ELSE /\ panicked' = (panicked \/ chClosed)
            /\ chClosed' = TRUE
            /\ closed' = TRUE
    /\ Unlock
    /\ Goto(t, "done")
    /\ UNCHANGED <<ch, sends, accepted, received>>

\* Mutant of Receive: the receiver stops as soon as the channel is closed.
MutReceive ==
    /\ place[Receiver] = "receive"
    /\ \/ /\ ch # <<>>
          /\ received' = Append(received, Head(ch))
          /\ ch' = Tail(ch)
          /\ UNCHANGED place
       \/ /\ chClosed
          /\ Goto(Receiver, "done")
          /\ UNCHANGED <<ch, received>>
    /\ UNCHANGED <<closed, chClosed, lockVars, panicked, sends, accepted>>

\* The receiver: <-GetRcvChan(), until the channel is closed and empty.
Receive ==
    /\ place[Receiver] = "receive"
    /\ \/ /\ ch # <<>>
          /\ received' = Append(received, Head(ch))
          /\ ch' = Tail(ch)
          /\ UNCHANGED place
       \/ /\ ch = <<>> /\ chClosed
          /\ Goto(Receiver, "done")
          /\ UNCHANGED <<ch, received>>
    /\ UNCHANGED <<closed, chClosed, lockVars, panicked, sends, accepted>>

-----------------------------------------------------------------------------
SenderStep(s) == \/ SendCheck(s) \/ Sending(s) \/ SendUnlock(s)
                 \/ IsClosedLock(s) \/ IsClosed(s)

CloseStep(t) == CloseLock(t) \/ Close(t)

\* Everybody has returned from the last call.
Finished == /\ \A s \in Senders : place[s] = "idle" /\ sends[s] = MaxSends
            /\ \A t \in Closers : place[t] = "done"
            /\ UNCHANGED chVars

NextCh ==
    \/ \E s \in Senders : SendLock(s) \/ SenderStep(s)
    \/ \E t \in Closers : CloseStep(t)
    \/ Receive
    \/ Finished

\* A goroutine inside a call runs when it can; a sender need not call Send,
\* a closer does call Close, and the receiver keeps receiving.  Lock queues
\* writers first in first out, hence SF for getting it.
ChFairness ==
    /\ \A s \in Senders : WF_chVars(SenderStep(s))
    /\ \A t \in Closers : SF_chVars(CloseLock(t)) /\ WF_chVars(Close(t))
    /\ WF_chVars(Receive)

SpecCh == InitCh /\ [][NextCh]_chVars /\ ChFairness

-----------------------------------------------------------------------------
ChTypeOK ==
    /\ closed \in BOOLEAN /\ chClosed \in BOOLEAN /\ panicked \in BOOLEAN
    /\ Len(ch) <= (IF size = 0 THEN 1 ELSE size)
    /\ readers \subseteq Threads /\ waitR \subseteq Threads
    /\ writer \in Closers \cup {None}
    /\ place \in [Threads -> {"idle", "sendCheck", "sending", "sendUnlock", "askClosed",
                              "readClosed", "receive", "awaitReaders", "done"}]
    /\ sends \in [Senders -> 0 .. MaxSends]

\* "No panic" (safe_channel_test.go:24): no interleaving of Send, Close and
\* the receiver sends on a closed channel or closes one twice.
NoPanic == ~panicked

\* A receiver that drains the channel until it is closed has got every
\* element that a Send put in, in order: none slips in behind the close.
AllReceived ==
    place[Receiver] = "done" => received = accepted

\* Every Close returns, although senders may be blocked on a full channel with
\* the read lock that Close waits for.
CloseReturns == \A t \in Closers : <>(place[t] = "done")

\* Every Send and IsClosed returns, although the channel may be full and
\* writers may be waiting.
SendReturns == \A s \in Senders : (place[s] # "idle") ~> (place[s] = "idle")
=============================================================================
