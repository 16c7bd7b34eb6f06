------------------------- MODULE MCOfflineMailCache -------------------------
(* Instances of OfflineMailCache for TLC.                                    *)
EXTENDS OfflineMailCache, TLC

CONSTANTS c1, c2

OneConversation == {c1}
TwoConversations == {c1, c2}
OneSync == {"background"}
TwoSyncs == {"background", "afterMove"}

(* The conversations are interchangeable.                                    *)
Symmetry == Permutations(Conversations)
=============================================================================
