---------------------------- MODULE UndoContract ----------------------------
(***************************************************************************)
(* What the undo toast of the mail list promises.  A gesture of the user   *)
(* on one conversation is offered for undo and nothing changes on the      *)
(* server while it is; it is then either undone, and no request was ever   *)
(* sent, or carried out once.  A gesture on several conversations is       *)
(* carried out at once.  Only what is being carried out changes the server.*)
(***************************************************************************)
EXTENDS Naturals

CONSTANT Conversations

VARIABLES gestures,   \* number of gestures so far
          offered,    \* conversations whose action can still be undone
          running,    \* conversations an action is being carried out on
          left        \* messages of each conversation still in the folder

contractVars == <<gestures, offered, running, left>>

Init == /\ gestures = 0
        /\ offered = {}
        /\ running = {}
        /\ left \in [Conversations -> Nat \ {0}]

\* A new offer; the previous one, if any, is carried out first.
Offer == \E c \in Conversations :
            /\ gestures' = gestures + 1
            /\ offered' = {c}
            /\ running' = running \cup offered
            /\ UNCHANGED left

Undo == /\ offered # {}
        /\ offered' = {}
        /\ UNCHANGED <<gestures, running, left>>

CarryOut == /\ offered # {}
            /\ offered' = {}
            /\ running' = running \cup offered
            /\ UNCHANGED <<gestures, left>>

Several == \E cs \in SUBSET Conversations :
              /\ gestures' = gestures + 1
              /\ running' = running \cup cs
              /\ UNCHANGED <<offered, left>>

Remove == /\ \E c \in running : \E n \in 0..left[c] : left' = [left EXCEPT ![c] = n]
          /\ UNCHANGED <<gestures, offered, running>>

End == \E cs \in SUBSET running :
          /\ running' = running \ cs
          /\ UNCHANGED <<gestures, offered, left>>

\* Closing the window drops the offer and whatever was being carried out.
Close == /\ offered' = {}
         /\ running' = {}
         /\ UNCHANGED <<gestures, left>>

Next == Offer \/ Undo \/ CarryOut \/ Several \/ Remove \/ End \/ Close

Spec == Init /\ [][Next]_contractVars
=============================================================================
