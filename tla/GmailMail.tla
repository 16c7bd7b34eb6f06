------------------------------ MODULE GmailMail ------------------------------
(***************************************************************************)
(* The Gmail client (GmailMailProvider.ts, gmailRequest.ts).  A message    *)
(* bears labels; Sent is one nobody can take off.  Bulk operations work in *)
(* batches whose requests run side by side, and one that fails stops the   *)
(* batches after its own.                                                  *)
(***************************************************************************)
EXTENDS Naturals, Sequences, FiniteSets

CONSTANTS Messages,
          MaxCalls,   \* bound: operations started
          Parallel,   \* bound: operations under way at once
          Batch       \* requests of one batch (5 in the code)

VARIABLES at,       \* server: the labels of each message; none once deleted
          held,     \* server: messages not deleted
          calls, count,
          doomed    \* history: messages a permanent deletion named

vars == <<at, held, calls, count, doomed>>

Labels == {"INBOX", "SENT", "TRASH", "SPAM", "UNREAD", "Label"}
MutableSystem == {"INBOX", "TRASH", "SPAM"}

Init == /\ at \in [Messages -> {{"INBOX"}, {"SENT"}, {"INBOX", "SENT"}}]
        /\ held = Messages
        /\ calls = {} /\ count = 0 /\ doomed = {}

\* folderToLabel: the snoozed folder has no label and gives null.
FolderToLabel == [inbox |-> "INBOX", deleteditems |-> "TRASH", spam |-> "SPAM",
                  custom |-> "Label", snoozed |-> "null"]

Start(todo, ms, add, remove) ==
  /\ ms # {} /\ count < MaxCalls /\ Cardinality(calls) < Parallel
  /\ count' = count + 1
  /\ calls' = calls \cup {[n |-> count + 1, todo |-> todo, ms |-> ms, done |-> 0, ok |-> TRUE,
                           add |-> add, remove |-> remove]}
  /\ UNCHANGED <<at, held>>
Keep == UNCHANGED doomed

MarkRead(ms) == Start("modify", ms, {}, {"UNREAD"}) /\ Keep
MarkUnread(ms) == Start("modify", ms, {"UNREAD"}, {}) /\ Keep
MoveToTrash(m) == Start("trash", {m}, {"TRASH"}, {"INBOX", "SPAM"}) /\ Keep
BulkMoveToTrash(ms) == Start("trash", ms, {"TRASH"}, {"INBOX", "SPAM"}) /\ Keep
PermanentlyDelete(m) == Start("delete", {m}, {}, {}) /\ doomed' = doomed \cup {m}
BulkPermanentlyDelete(ms) == Start("delete", ms, {}, {}) /\ doomed' = doomed \cup ms
Archive(m) == Start("modify", {m}, {}, {"INBOX"}) /\ Keep

InboxOnly(label) == {"INBOX"}
Removed(label) == IF label \in MutableSystem THEN MutableSystem \ {label} ELSE {"INBOX"}
\* A folder without a label is answered with success and nothing is sent.
MoveToFolder(m, to) == LET label == FolderToLabel[to]
                       IN  label # "null" /\ Start("modify", {m}, {label}, Removed(label)) /\ Keep
BulkMoveToFolder(ms, to) == LET label == FolderToLabel[to]
                            IN  label # "null" /\ Start("collect", ms, {label}, Removed(label)) /\ Keep
-----------------------------------------------------------------------------
Ends(c) == calls' = calls \ {c}
Becomes(c, d) == calls' = (calls \ {c}) \cup {d}
Own == UNCHANGED <<count, doomed>>
Relabelled(c, ms) == [m \in Messages |-> IF m \in ms \cap held THEN (at[m] \ c.remove) \cup c.add ELSE at[m]]

\* A conversation whose messages cannot be read is left out without a word.
Collect(c) == /\ c.todo = "collect"
              /\ \E read \in SUBSET (c.ms \cap held) :
                   IF read = {} THEN Ends(c) ELSE Becomes(c, [c EXCEPT !.ms = read, !.todo = "modify"])
              /\ UNCHANGED <<at, held>> /\ Own

\* One request for all the messages; the answer may be lost.
Modify(c) == /\ c.todo = "modify"
             /\ at' \in {at, Relabelled(c, c.ms)}
             /\ Ends(c)
             /\ UNCHANGED held /\ Own

\* One request for each conversation: when one fails the others of its batch
\* still run, and the later batches do not.
Each(c, m) ==
  /\ c.todo \in {"trash", "delete"} /\ m \in c.ms
  /\ \/ /\ held' = IF c.todo = "delete" THEN held \ {m} ELSE held
        /\ at' = IF c.todo = "delete" THEN [at EXCEPT ![m] = {}] ELSE Relabelled(c, {m})
        /\ LET d == [c EXCEPT !.ms = @ \ {m}, !.done = @ + 1]
           IN  IF d.ms = {} \/ (~d.ok /\ d.done % Batch = 0) THEN Ends(c) ELSE Becomes(c, d)
     \/ /\ UNCHANGED <<at, held>>
        /\ LET d == [c EXCEPT !.ms = @ \ {m}, !.done = @ + 1, !.ok = FALSE]
           IN  IF d.ms = {} \/ d.done % Batch = 0 THEN Ends(c) ELSE Becomes(c, d)
  /\ Own
-----------------------------------------------------------------------------
\* Another client files an archived message in the inbox again.
OtherClient(m) == /\ m \in held /\ at[m] \cap MutableSystem = {}
                  /\ at' = [at EXCEPT ![m] = @ \cup {"INBOX"}]
                  /\ UNCHANGED <<held, calls>> /\ Own

Next == \/ \E m \in Messages : \/ MoveToTrash(m) \/ PermanentlyDelete(m) \/ Archive(m) \/ OtherClient(m)
                               \/ \E to \in DOMAIN FolderToLabel : MoveToFolder(m, to)
        \/ \E ms \in SUBSET Messages : \/ MarkRead(ms) \/ MarkUnread(ms)
                                       \/ BulkMoveToTrash(ms) \/ BulkPermanentlyDelete(ms)
                                       \/ \E to \in {"custom", "inbox"} : BulkMoveToFolder(ms, to)
        \/ \E c \in calls : \/ Collect(c) \/ Modify(c)
                            \/ \E m \in Messages : Each(c, m)

Spec == Init /\ [][Next]_vars
-----------------------------------------------------------------------------
\* The variables have their types; a message is gone with all its labels.
TypeOK == /\ at \in [Messages -> SUBSET Labels]
          /\ held \subseteq Messages /\ doomed \subseteq Messages /\ count \in 0..MaxCalls
          /\ \A m \in Messages \ held : at[m] = {}
          /\ \A c \in calls : /\ c.ms # {} /\ c.ms \subseteq Messages
                              /\ c.add \cup c.remove \subseteq Labels \ {"SENT"}

InSent == {m \in held : "SENT" \in at[m]}

\* "INBOX, TRASH and SPAM are mutually exclusive" (GmailMailProvider.ts 870):
\* no interleaving of operations leaves a message in two of them.
OneSystemLabel == \A m \in Messages : Cardinality(at[m] \cap MutableSystem) <= 1
=============================================================================
