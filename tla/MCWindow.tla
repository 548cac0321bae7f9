---- MODULE MCWindow ----
\* A text with a blank and two without, two libraries and applications, one
\* filter list.
EXTENDS Window

ThreeTexts == {" a", "a", "b"}
Trimmed == [t \in ThreeTexts |-> IF t = " a" THEN "a" ELSE t]
TwoLibraries == {"j", "k"}
TwoApps == {"p", "q"}
====
