--------------------------- MODULE MCAndroidSync ---------------------------
(* Instances of AndroidSync for TLC.                                        *)
EXTENDS AndroidSync

CONSTANTS c1, c2

OneConversation == {c1}

=============================================================================
