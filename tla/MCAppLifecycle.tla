--------------------------- MODULE MCAppLifecycle ---------------------------
\* AppLifecycle with model values as goroutines, which are interchangeable.
EXTENDS AppLifecycle, TLC

CONSTANTS c1, c2, c3

TwoCalls == {c1, c2}
ThreeCalls == {c1, c2, c3}
CallSymmetry == Permutations(ThreeCalls)
=============================================================================
