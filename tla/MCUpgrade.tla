----------------------------- MODULE MCUpgrade -----------------------------
(* Instances of Upgrade for TLC. *)
EXTENDS Upgrade, TLC

\* Programs of before v0.3.0, v0.9.0, v0.18.0, v0.21.0 and v0.25.0.
OlderVersions == {0, 900, 1800, 2100, 2500}
=============================================================================
