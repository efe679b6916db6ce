---------------------------- MODULE MCMonitoring ----------------------------
(* An instance of Monitoring for TLC: two sectors of one mast, a third cell *)
(* the topology does not know, and another mast.                            *)
EXTENDS Monitoring

MCsite_group == [a1 |-> "a", a2 |-> "a", x |-> "", b |-> "b"]
MCLocs == DOMAIN MCsite_group
MCTypes == <<"LOCATION_REPORTING">>

At(u, l) == [type |-> "LOCATION_REPORT", supi |-> u, loc |-> l]
MCBodies ==
    {[reports |-> <<[type |-> "other"], At("u1", "a1")>>, large |-> FALSE],
     [reports |-> <<At("u1", "x"), At("u2", "a2"), At("u1", "b")>>, large |-> TRUE]}
=============================================================================
