-------------------------- MODULE MCLazyReusePool --------------------------
(* Instances of LazyReusePool for TLC.  The ranges reserved reach into a    *)
(* segment from below, from above and in the middle, cover one or more      *)
(* segments, and leave the pool or are empty, which Reserve refuses.        *)
EXTENDS LazyReusePool

MCRanges == {<<1, 2>>, <<3, 3>>, <<2, 4>>, <<5, 5>>, <<0, 2>>, <<3, 2>>}
=============================================================================
