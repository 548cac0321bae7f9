------------------------- MODULE MCFilterListStore -------------------------
(* Instances of FilterListStore for TLC. *)
EXTENDS FilterListStore, TLC

CONSTANTS c1, c2, c3, u1, u2

TwoCallers == {c1, c2}
ThreeCallers == {c1, c2, c3}
OneUrl == {u1}
TwoUrls == {u1, u2}

CallerSymmetry == Permutations(Callers)
=============================================================================
