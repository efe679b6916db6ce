-------------------------- MODULE MCSharedObjects --------------------------
(* Instance of SharedObjects for TLC.  Two goroutines share three IDs, so   *)
(* that the generator runs full, wraps round and sees an Allocate wait      *)
(* while a FreeID is under way; senders outnumber the capacity of the       *)
(* channel; the tables of the state machine are those of MCFSM.             *)
EXTENDS SharedObjects, MCFSM
=============================================================================
