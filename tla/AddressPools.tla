---------------------------- MODULE AddressPools ----------------------------
(***************************************************************************)
(* The two pools of lib/util/ippool, each on its own: the lazy reuse pool  *)
(* with callers that use, free and reserve values, and the IP pools with   *)
(* their sessions.  A behaviour is about one of them.                      *)
(***************************************************************************)
EXTENDS LazyReusePool, IPPool

VARIABLE subject    \* what the behaviour is about

AddressPoolsInit == Init /\ InitPools /\ subject \in {"values", "addresses"}

AddressPoolsNext ==
    /\ \/ subject = "values" /\ NextOwners /\ UNCHANGED poolVars
       \/ subject = "addresses" /\ Next /\ UNCHANGED vars
    /\ UNCHANGED subject

AddressPoolsSpec ==
    AddressPoolsInit /\ [][AddressPoolsNext]_<<vars, poolVars, subject>>
=============================================================================
