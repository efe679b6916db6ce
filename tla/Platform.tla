------------------------------ MODULE Platform ------------------------------
(***************************************************************************)
(* What lib/util gives a running network function: its data in MongoDB and *)
(* the service around it.  The two share no state; a behaviour is about    *)
(* one of them.                                                            *)
(***************************************************************************)
EXTENDS MongoApi, Service

\* No client makes a call.
NoCalls ==
    /\ docs = {} /\ pc = [c \in Clients |-> "idle"] /\ call = [c \in Clients |-> NoCall]
    /\ modified = [c \in Clients |-> NoData] /\ calls = MaxCalls
    /\ raced = {} /\ doubled = {} /\ ret = NoRet

PlatformInit == (Init /\ NoService) \/ (NoCalls /\ ServiceInit)

PlatformNext == \/ Next /\ UNCHANGED servicevars
                \/ ServiceNext /\ UNCHANGED vars

PlatformSpec == PlatformInit /\ [][PlatformNext]_<<vars, servicevars>> /\ ServiceFairness
=============================================================================
