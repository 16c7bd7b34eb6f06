------------------------------ MODULE ImapMail ------------------------------
(***************************************************************************)
(* The IMAP client (provider-core/src/imap.rs, ImapMailProvider.ts).  Every *)
(* call opens its own session and sends several commands, any of which may *)
(* fail; a message is designated by its sequence number, read from a list  *)
(* that another session returned earlier.  The answers to STORE and EXPUNGE *)
(* are collected and never looked at.                                      *)
(***************************************************************************)
EXTENDS Naturals, Sequences, FiniteSets, SequencesExt

CONSTANTS Messages,
          MaxCalls,     \* bound: calls made
          Parallel      \* calls under way at once

VARIABLES inbox,    \* server: the messages of the folder, in order
          copies,   \* server: copies of each message in the other folders
          deleted,  \* server: messages of inbox flagged \Deleted
          seen,     \* server: messages flagged \Seen
          listed,   \* client: the folder as it was listed
          calls,    \* calls under way
          count,    \* calls so far
          doomed \* history: messages a permanent deletion flagged

vars == <<inbox, copies, deleted, seen, listed, calls, count, doomed>>

Moves == {"trash", "archive"}
Kinds == Moves \cup {"delete", "read", "unread"}

Init == /\ inbox \in SetToAllKPermutations(Messages)
        /\ Len(inbox) >= Cardinality(Messages) - 1
        /\ copies = [m \in Messages |-> 0]
        /\ deleted = {}
        /\ seen = {}
        /\ listed = <<>>
        /\ calls = {}
        /\ count = 0
        /\ doomed = {}

\* The numbers of imap_list_threads and imap_get_thread are those of this list.
ListThreads == /\ listed # inbox
               /\ listed' = inbox
               /\ UNCHANGED <<inbox, copies, deleted, seen, calls, count, doomed>>

\* The commands a call sends, in order.
Commands(kind) == IF kind \in Moves THEN <<"copy", "store", "expunge">>
                  ELSE IF kind = "delete" THEN <<"store", "expunge">> ELSE <<"store">>

\* SELECT shows the folder as it is; the numbers are those of the list.
Request(kind, nums) ==
  /\ count < MaxCalls /\ Cardinality(calls) < Parallel
  /\ nums # {} /\ nums \subseteq DOMAIN listed
  /\ count' = count + 1
  /\ calls' = calls \cup {[n |-> count + 1, kind |-> kind, nums |-> nums, todo |-> Commands(kind),
                           view |-> inbox]}
  /\ UNCHANGED <<inbox, copies, deleted, seen, listed, doomed>>

MoveToTrash(i) == Request("trash", {i})
BulkMoveToTrash(nums) == Request("trash", nums)
Archive(i) == Request("archive", {i})
PermanentlyDelete(i) == Request("delete", {i})
BulkPermanentlyDelete(nums) == Request("delete", nums)
MarkRead(nums) == Request("read", nums)
MarkUnread(nums) == Request("unread", nums)

Target(c) == {c.view[i] : i \in c.nums \cap DOMAIN c.view}
Is(c, command) == c \in calls /\ c.todo # <<>> /\ Head(c.todo) = command
Done(c) == IF Len(c.todo) = 1 THEN calls \ {c}
           ELSE (calls \ {c}) \cup {[c EXCEPT !.todo = Tail(@)]}

\* A connection lost or a refused COPY ends the call with an error.
Fails(c) == /\ c \in calls
            /\ calls' = calls \ {c}
            /\ UNCHANGED <<inbox, copies, deleted, seen, listed, count, doomed>>

Copy(c) == /\ Is(c, "copy")
           /\ c.nums \subseteq DOMAIN c.view
           /\ copies' = [m \in Messages |-> IF m \in Target(c) THEN copies[m] + 1 ELSE copies[m]]
           /\ calls' = Done(c)
           /\ UNCHANGED <<inbox, deleted, seen, listed, count, doomed>>

\* The flags are set on what is still there; a refusal passes for success.
Store(c) ==
  /\ Is(c, "store")
  /\ calls' = Done(c)
  /\ \E hit \in {Target(c) \cap ToSet(inbox), {}} :
       /\ seen' = CASE c.kind = "read" -> seen \cup hit [] c.kind = "unread" -> seen \ hit [] OTHER -> seen
       /\ deleted' = IF c.kind \in Moves \cup {"delete"} THEN deleted \cup hit ELSE deleted
       /\ doomed' = IF c.kind = "delete" THEN doomed \cup hit ELSE doomed
  /\ UNCHANGED <<inbox, copies, listed, count>>

\* EXPUNGE takes everything flagged, whoever flagged it; the rest moves up.
Expunge(c) ==
  /\ Is(c, "expunge")
  /\ calls' = Done(c)
  /\ \/ LET rest == {i \in DOMAIN inbox : inbox[i] \notin deleted}
        IN  \E kept \in [1..Cardinality(rest) -> rest] :
              /\ \A i \in rest : \E k \in DOMAIN kept : kept[k] = i
              /\ \A j, k \in DOMAIN kept : j < k => kept[j] < kept[k]
              /\ inbox' = [k \in DOMAIN kept |-> inbox[kept[k]]] /\ deleted' = {}
     \/ UNCHANGED <<inbox, deleted>>
  /\ UNCHANGED <<copies, seen, listed, count, doomed>>

\* While LIST and COPY are answered the server may renumber the session.
Renumber(c) == /\ c \in calls
               /\ c.kind \in Moves /\ Len(c.todo) >= 2
               /\ c.view # inbox
               /\ calls' = (calls \ {c}) \cup {[c EXCEPT !.view = inbox]}
               /\ UNCHANGED <<inbox, copies, deleted, seen, listed, count, doomed>>

Arrive(m) == /\ m \notin ToSet(inbox) /\ copies[m] = 0 /\ m \notin doomed
             /\ inbox' = Append(inbox, m)
             /\ UNCHANGED <<copies, deleted, seen, listed, calls, count, doomed>>

Next == \/ ListThreads
        \/ \E i \in DOMAIN listed : MoveToTrash(i) \/ Archive(i) \/ PermanentlyDelete(i)
        \/ \E nums \in SUBSET DOMAIN listed : \/ BulkMoveToTrash(nums) \/ BulkPermanentlyDelete(nums)
                                              \/ MarkRead(nums) \/ MarkUnread(nums)
        \/ \E c \in calls : Copy(c) \/ Store(c) \/ Expunge(c) \/ Renumber(c) \/ Fails(c)
        \/ \E m \in Messages : Arrive(m)

Spec == Init /\ [][Next]_vars
-----------------------------------------------------------------------------
Calls == [n : 1..MaxCalls, kind : Kinds, nums : SUBSET (1..Cardinality(Messages)),
          todo : UNION {{SubSeq(Commands(k), i, Len(Commands(k))) : i \in 1..3} : k \in Kinds},
          view : SeqOf(Messages, Cardinality(Messages))]

\* The variables have their types; a message is at one place of the folder.
TypeOK == /\ IsInjective(inbox) /\ ToSet(inbox) \subseteq Messages
          /\ IsInjective(listed) /\ ToSet(listed) \subseteq Messages
          /\ copies \in [Messages -> 0..MaxCalls]
          /\ deleted \subseteq ToSet(inbox) /\ {seen, doomed} \subseteq SUBSET Messages
          /\ calls \subseteq Calls /\ Cardinality(calls) <= Parallel /\ count \in 0..MaxCalls

\* A message leaves its folder for another one or by a permanent deletion: a
\* move copies it before it is flagged (imap.rs 1154-1197).
Held == {m \in Messages : m \in ToSet(inbox) \/ copies[m] > 0}
=============================================================================
