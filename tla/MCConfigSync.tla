---------------------------- MODULE MCConfigSync ----------------------------
(* One device for what its own window interleaves, two where another device  *)
(* replaces the file in between; the bounds are in the configurations.       *)
EXTENDS ConfigSync, TLC

CONSTANTS d1, d2, e1, e2

OneDevice == {d1}
MCDevices == {d1, d2}
NoEdit == {}
OneEdit == {e1}
MCEdits == {e1, e2}
EditSymmetry == Permutations(MCEdits)
=============================================================================
