--------------------------- MODULE MCAddressPools ---------------------------
(* Instance of AddressPools for TLC: the values and ranges of               *)
(* MCLazyReusePool; /29, /30, /31 and /32 subnets around one another, so    *)
(* that the static pool lies inside the dynamic one, beside it, or is empty *)
(* after its reservations.                                                  *)
EXTENDS AddressPools, MCLazyReusePool, TLC

MCCIDRs == {[base |-> 9,  host |-> 3], [base |-> 12, host |-> 2],
            [base |-> 21, host |-> 2], [base |-> 10, host |-> 1],
            [base |-> 11, host |-> 0]}

Symmetry == Permutations(Sessions)
=============================================================================
