----------------------------- MODULE MCTracker -----------------------------
(* Instances of Tracker for TLC.  The topology of the script's comments:    *)
(* TAI 3 is two hops from the ROI 11, by way of 10; TAI 7 lies behind 3 and *)
(* is out of the horizon; TAI 3 has two cells.                              *)
EXTENDS Tracker

MCtac == [a |-> 3, b |-> 3, c |-> 10, d |-> 11, e |-> 7]
MCCells == DOMAIN MCtac
MCneigh == LET half == {<<"a", "b">>, <<"b", "c">>, <<"c", "d">>, <<"e", "a">>}
           IN  half \cup {<<p[2], p[1]>> : p \in half}
MCPatterns == {<<>>, <<3, 10, 11>>}
MCNoPattern == {<<>>}
=============================================================================
