--------------------------- MODULE MailboxContract ---------------------------
(***************************************************************************)
(* What the operations of a mail provider promise about a mailbox, whatever *)
(* the protocol: a message leaves the mailbox only by a permanent deletion *)
(* that named it, and leaves Sent only by an operation that may take it    *)
(* from there (Sent is preserved by moves of whole conversations).         *)
(***************************************************************************)
EXTENDS FiniteSets

CONSTANT Messages

VARIABLES held,   \* messages some folder holds
          sent,   \* messages the Sent folder holds
          doomed, \* messages a permanent deletion named
          free    \* messages that an operation may take out of Sent

vars == <<held, sent, doomed, free>>

Init == /\ held \subseteq Messages /\ sent \subseteq held
        /\ doomed = {} /\ free = {}

Name(ms) == /\ doomed' = doomed \cup ms
            /\ UNCHANGED <<held, sent, free>>

Release(ms) == /\ free' = free \cup ms
               /\ UNCHANGED <<held, sent, doomed>>

Destroy == /\ held' \subseteq held
           /\ held \ held' \subseteq doomed
           /\ sent' = sent \cap held'
           /\ UNCHANGED <<doomed, free>>

Arrive(m) == /\ held' = held \cup {m}
             /\ UNCHANGED <<sent, doomed, free>>

Move == /\ sent' \subseteq held
        /\ sent \ sent' \subseteq free
        /\ UNCHANGED <<held, doomed, free>>

Next == \/ \E ms \in SUBSET Messages : Name(ms) \/ Release(ms)
        \/ Destroy \/ Move
        \/ \E m \in Messages : Arrive(m)

Spec == Init /\ [][Next]_vars
=============================================================================
