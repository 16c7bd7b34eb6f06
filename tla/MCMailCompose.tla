--------------------------- MODULE MCMailCompose ---------------------------
(* One new text and one reply, two shared contents. *)
EXTENDS MailCompose
CONSTANTS n1, r1, s1, s2
=============================================================================
