--------------------------- MODULE MCNntpMultiPool ---------------------------
(* Three servers, the last one taking overflow; walks are interchangeable. *)
EXTENDS NntpMultiPool, TLC

MCSpillover == {3}
MCExclusions == {{}, {1}}
MCSymmetry == Permutations(Walks)
=============================================================================
