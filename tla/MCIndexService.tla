--------------------------- MODULE MCIndexService ---------------------------
(* Two versions, a lifetime of two moments over three windows, and clocks   *)
(* that are right, or one moment off either way.                            *)
EXTENDS IndexService

SkewsOne == {-1, 0, 1}
=============================================================================
