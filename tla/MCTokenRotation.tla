--------------------------- MODULE MCTokenRotation --------------------------
(* Instances of TokenRotation for TLC. *)
EXTENDS TokenRotation, TLC

RowSymmetry == Permutations(Requests) \cup Permutations(Sessions)

OneLifetime == {2}
LongLock == {2}
ShortLock == {1}
=============================================================================
