---------------------------- MODULE MCVaultStore ----------------------------
(* Two windows, two fields that are present or absent, values as model       *)
(* values: enough for a commit to be overtaken, for two creations to race    *)
(* and for a window to hold a stale copy.                                    *)
EXTENDS VaultStore

CONSTANTS w1, w2, calendars, accounts, v1

MCWindows == {w1, w2}
MCFields == {calendars, accounts}
MCValues == {v1}
MCLegacy == [f \in MCFields |-> IF f = accounts THEN v1 ELSE Absent]

MCRemote == [f \in MCFields |-> IF f = calendars THEN v1 ELSE Absent]

(* One field is set; a restore replaces both, removing the other.            *)
MCWrites ==
    {[f \in {accounts} |-> v1],
     [f \in MCFields |-> IF f = calendars THEN v1 ELSE Absent]}

=============================================================================
