--------------------------- MODULE SharedObjects ---------------------------
(***************************************************************************)
(* The objects of lib/util that goroutines share and that are no pools: an *)
(* ID generator, a safe channel, a state machine.  They have nothing in    *)
(* common; a behaviour is about one of them.                               *)
(***************************************************************************)
EXTENDS IDGenerator, SafeCh, FSM

VARIABLE subject    \* what the behaviour is about

shared == <<vars, chVars, fsmVars, subject>>

\* A channel that everybody is done with.
NoChannel ==
    /\ closed = TRUE /\ ch = <<>> /\ chClosed = TRUE
    /\ readers = {} /\ waitR = {} /\ writer = None
    /\ place = [t \in Threads |-> IF t \in Senders THEN "idle" ELSE "done"]
    /\ panicked = FALSE
    /\ sends = [s \in Senders |-> MaxSends]
    /\ accepted = <<>> /\ received = <<>>

SharedInit ==
    /\ Init /\ InitFSM
    /\ \/ subject \in {"generator", "machine"} /\ NoChannel
       \/ subject = "channel" /\ InitCh

SharedNext ==
    /\ \/ subject = "generator" /\ Next /\ UNCHANGED <<chVars, fsmVars>>
       \/ subject = "channel" /\ NextCh /\ UNCHANGED <<vars, fsmVars>>
       \/ subject = "machine" /\ NextFSM /\ UNCHANGED <<vars, chVars>>
    /\ UNCHANGED subject

\* Fairness of calls that are under way and of closers: of the others nothing
\* is under way.
SharedSpec == SharedInit /\ [][SharedNext]_shared /\ Fairness /\ ChFairness
=============================================================================
