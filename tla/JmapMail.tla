------------------------------ MODULE JmapMail ------------------------------
(***************************************************************************)
(* The JMAP client (provider-core/src/jmap.rs, JmapMailProvider.ts).  An   *)
(* email has a permanent id and a set of mailboxes, which a move replaces  *)
(* as a whole after reading it.  The mailbox ids of an account are read    *)
(* once and kept as long as the process runs.                              *)
(***************************************************************************)
EXTENDS Naturals, Sequences, FiniteSets

CONSTANTS Messages,
          MaxCalls,   \* bound: operations started
          Parallel    \* bound: operations under way at once

VARIABLES at,       \* server: the mailboxes of each email; none once destroyed
          seen,     \* server: emails with $seen
          date,     \* server: emails with a wake-up date
          folder,   \* server: whether the Snoozed mailbox exists
          cache,    \* client: the mailboxes whose ids are known, {} before the first read
          calls, count,
          doomed,   \* history: messages a permanent deletion named
          free      \* history: messages trashed with their conversation

server == <<at, seen, date, folder>>
vars == <<server, cache, calls, count, doomed, free>>

System == {"inbox", "sentitems", "deleteditems"}
Mailboxes == System \cup {"other", "snoozed"}
Live(m) == at[m] # {}

Init == /\ at \in [Messages -> {{"inbox"}, {"sentitems"}, {"inbox", "sentitems"}}]
        /\ seen = {} /\ date = {}
        /\ folder \in BOOLEAN
        /\ cache = {} /\ calls = {} /\ count = 0
        /\ doomed = {} /\ free = {}

Start(todo, ms, to) ==
  /\ ms # {} /\ count < MaxCalls /\ Cardinality(calls) < Parallel
  /\ count' = count + 1
  /\ calls' = calls \cup {[n |-> count + 1, todo |-> todo, ms |-> ms, to |-> to, sent |-> {}]}
  /\ UNCHANGED <<server, cache>>
Keep == UNCHANGED <<doomed, free>>

MarkRead(ms) == Start(<<"read">>, ms, "") /\ Keep
MarkUnread(ms) == Start(<<"unread">>, ms, "") /\ Keep
MoveToTrash(m) == Start(<<"folders", "get", "set">>, {m}, "deleteditems") /\ Keep
MoveToFolder(m, to) == Start(<<"folders", "get", "set">>, {m}, to) /\ Keep
PermanentlyDelete(m) == /\ Start(<<"destroy">>, {m}, "")
                        /\ doomed' = doomed \cup {m} /\ UNCHANGED free
\* The conversations are resolved by Thread/get in the request "threads".
BulkMoveToTrash(ms) == /\ Start(<<"folders", "threads", "set">>, ms, "deleteditems")
                       /\ free' = free \cup ms /\ UNCHANGED doomed
BulkPermanentlyDelete(ms) == /\ Start(<<"threads", "destroy">>, ms, "")
                             /\ doomed' = doomed \cup ms /\ UNCHANGED free
BulkMoveToFolder(ms, to) == Start(<<"threads", "folders", "get", "set">>, ms, to) /\ Keep
Snooze(m) == Start(<<"folders", "create", "get", "snooze">>, {m}, "snoozed") /\ Keep
FindOrCreateSnoozedFolder == Start(<<"folders", "create">>, Messages, "snoozed") /\ Keep
-----------------------------------------------------------------------------
Is(c, request) == c.todo # <<>> /\ Head(c.todo) = request
Ends(c) == calls' = calls \ {c}
Continues(c, d) == calls' = (calls \ {c}) \cup (IF d.todo = <<>> THEN {} ELSE {d})
Goes(c) == Continues(c, [c EXCEPT !.todo = Tail(@)])
Own == UNCHANGED <<count, doomed, free>>

Fails(c) == Ends(c) /\ UNCHANGED <<server, cache>> /\ Own

\* get_folder_ids: the server is asked only while nothing is cached.
FolderIds(c) ==
  /\ Is(c, "folders")
  /\ cache' = IF cache # {} THEN cache
              ELSE System \cup {"other"} \cup (IF folder THEN {"snoozed"} ELSE {})
  /\ Goes(c)
  /\ UNCHANGED server /\ Own

\* get_or_create_snoozed_id: a name already taken on the server is refused.
CreateSnoozed(c) ==
  /\ Is(c, "create")
  /\ IF "snoozed" \in cache THEN Goes(c) /\ UNCHANGED <<cache, folder>>
     ELSE IF folder THEN Ends(c) /\ UNCHANGED <<cache, folder>>
     ELSE Goes(c) /\ folder' = TRUE /\ cache' = cache \cup {"snoozed"}
  /\ UNCHANGED <<at, seen, date>> /\ Own

\* jmap_thread_ids_to_email_ids
ThreadEmails(c) ==
  /\ Is(c, "threads")
  /\ LET found == {m \in c.ms : Live(m)}
     IN  IF found = {} THEN Ends(c)
         ELSE Continues(c, [c EXCEPT !.ms = found, !.todo = Tail(@)])
  /\ UNCHANGED <<server, cache>> /\ Own

\* Email/get mailboxIds: which of the emails are in Sent now.
GetMailboxes(c) ==
  /\ Is(c, "get")
  /\ Continues(c, [c EXCEPT !.sent = {m \in c.ms : "sentitems" \in at[m]}, !.todo = Tail(@)])
  /\ UNCHANGED <<server, cache>> /\ Own

\* Email/set replaces the mailboxes by the destination, and Sent if it was there.
Replaced(c, m) == {c.to} \cup (IF m \in c.sent THEN {"sentitems"} ELSE {})

SetMailboxes(c) ==
  /\ Is(c, "set")
  /\ c.to = "snoozed" => folder
  /\ \E refused \in {{}, c.ms} :
       at' = [m \in Messages |-> IF m \in c.ms \ refused /\ Live(m) THEN Replaced(c, m) ELSE at[m]]
  /\ Ends(c)
  /\ UNCHANGED <<seen, date, folder, cache>> /\ Own

\* The destroyed and refused ids of a bulk deletion are not looked at.
Destroy(c) ==
  /\ Is(c, "destroy")
  /\ \E refused \in {{}, c.ms} :
       at' = [m \in Messages |-> IF m \in c.ms \ refused THEN {} ELSE at[m]]
  /\ Ends(c)
  /\ UNCHANGED <<seen, date, folder, cache>> /\ Own

SetSeen(c) ==
  /\ Is(c, "read") \/ Is(c, "unread")
  /\ LET hit == {m \in c.ms : Live(m)}
     IN  seen' = IF Is(c, "read") THEN seen \cup hit ELSE seen \ hit
  /\ Ends(c)
  /\ UNCHANGED <<at, date, folder, cache>> /\ Own

Unfiled(c, m) == (at[m] \ {"inbox"}) \cup {"snoozed"} \cup (IF m \in c.sent THEN {"sentitems"} ELSE {})
\* jmap_snooze: membership and date in one Email/set of Fastmail's own API.
SetSnoozed(c) ==
  /\ Is(c, "snooze")
  /\ \E refused \in BOOLEAN :
       LET hit == {m \in c.ms : Live(m) /\ folder /\ ~refused}
       IN  /\ at' = [m \in Messages |-> IF m \in hit THEN Unfiled(c, m) ELSE at[m]]
           /\ date' = date \cup hit
  /\ Ends(c)
  /\ UNCHANGED <<seen, folder, cache>> /\ Own
\* The server wakes a message; another client makes a Snoozed mailbox; the
\* process starts again and has lost its cache and its calls.
Wake(m) == /\ "snoozed" \in at[m] /\ m \in date
           /\ at' = [at EXCEPT ![m] = (@ \ {"snoozed"}) \cup {"inbox"}] /\ date' = date \ {m}
           /\ UNCHANGED <<seen, folder, cache, calls>> /\ Own
OtherClient == /\ ~folder /\ folder' = TRUE
               /\ UNCHANGED <<at, seen, date, cache, calls>> /\ Own
Restart == /\ cache # {} /\ cache' = {} /\ calls' = {}
           /\ UNCHANGED server /\ Own

Next == \/ FindOrCreateSnoozedFolder \/ OtherClient \/ Restart
        \/ \E m \in Messages : \/ MoveToTrash(m) \/ PermanentlyDelete(m) \/ Snooze(m) \/ Wake(m)
                               \/ \E to \in {"inbox", "other"} : MoveToFolder(m, to)
        \/ \E ms \in SUBSET Messages : \/ MarkRead(ms) \/ MarkUnread(ms)
                                       \/ BulkMoveToTrash(ms) \/ BulkPermanentlyDelete(ms)
                                       \/ BulkMoveToFolder(ms, "other")
        \/ \E c \in calls : \/ Fails(c) \/ FolderIds(c) \/ CreateSnoozed(c) \/ ThreadEmails(c)
                            \/ GetMailboxes(c) \/ SetMailboxes(c) \/ Destroy(c) \/ SetSeen(c)
                            \/ SetSnoozed(c)

Spec == Init /\ [][Next]_vars
-----------------------------------------------------------------------------
Todos == {<<"read">>, <<"unread">>, <<"destroy">>, <<"threads", "destroy">>,
          <<"folders", "get", "set">>, <<"folders", "threads", "set">>,
          <<"threads", "folders", "get", "set">>, <<"folders", "create", "get", "snooze">>}

\* The variables have their types; a request that needs mailbox ids has them.
TypeOK == /\ at \in [Messages -> SUBSET Mailboxes]
          /\ {seen, date, doomed, free} \subseteq SUBSET Messages
          /\ folder \in BOOLEAN /\ cache \subseteq Mailboxes /\ count \in 0..MaxCalls
          /\ \A c \in calls : /\ \E t \in Todos : \E i \in 1..Len(t) : \E j \in i..Len(t) : c.todo = SubSeq(t, i, j)
                              /\ c.ms \cup c.sent \subseteq Messages
                              /\ Is(c, "set") \/ Is(c, "snooze") => System \subseteq cache

Held == {m \in Messages : at[m] # {}}
InSent == {m \in Messages : "sentitems" \in at[m]}
=============================================================================
