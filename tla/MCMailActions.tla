--------------------------- MODULE MCMailActions ---------------------------
(* Two conversations of two accounts, shown together in the unified view. *)
EXTENDS MailActions, TLC
CONSTANTS c1, c2, a1, a2
MCAccountOf == c1 :> a1 @@ c2 :> a2
=============================================================================
