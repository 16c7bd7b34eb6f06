-------------------------- MODULE OpenConversation --------------------------
(***************************************************************************)
(* The messages of the conversation that is open (useMailConversation):    *)
(* what each provider lists of it, React Query's entry for each folder it  *)
(* is opened from, and the deletion of single messages                     *)
(* (handleDeleteMessage), whose calls overlap with each other and with the *)
(* requests that list the conversation.                                    *)
(***************************************************************************)
EXTENDS Naturals, FiniteSets

CONSTANTS Messages,  \* the messages of the conversation
          MaxAsks,   \* bound: requests for the conversation, but for those after a deletion
          MaxDeletes \* bound: deletions

VARIABLES kind,    \* the provider
          place,   \* where each message is on the server
          index,   \* Exchange's conversation index: right, or lost by a move
          copy,    \* the messages in the copy on the device, NoData without one
          view,    \* the folder shown: inbox or deleteditems
          open,    \* the conversation is the selected one
          data,    \* React Query's entry for each folder, NoData at first
          fetch,   \* its request: idle, asked, or what the server has answered
          calls,   \* the deletions under way
          removed, \* history: the messages whose deletion succeeded, by the folder it began in
          excused, \* history: an answer or a rollback older than a deletion was kept
          asks,    \* how many times it was asked for, but for those after a deletion
          deletes  \* and how many deletions began

vars == <<kind, place, index, copy, view, open, data, fetch, calls, removed, excused, asks, deletes>>
screen == <<view, open>>
server == <<place, index>>

Views == {"inbox", "deleteditems"}
Places == {"inbox", "trash", "gone"}
Kinds == {"ews", "gmail", "jmap"}
NoData == [rows |-> {}, there |-> FALSE]
Rows(set) == [rows |-> set, there |-> TRUE]
Entry == [rows : SUBSET Messages, there : BOOLEAN]
Idle == [at |-> "idle", rows |-> {}]
Asked == [at |-> "asked", rows |-> {}]

TypeOK == /\ kind \in Kinds /\ place \in [Messages -> Places] /\ index \in {"right", "lost"}
          /\ copy \in Entry /\ data \in [Views -> Entry]
          /\ fetch \in [Views -> [at : {"idle", "asked", "answered"}, rows : SUBSET Messages]]
          /\ view \in Views /\ open \in BOOLEAN /\ removed \in [Views -> SUBSET Messages]
          /\ \A c \in calls : c.of \in Messages /\ c.at \in {"sent", "done", "failed"}

Init == /\ kind \in Kinds
        /\ place \in {[m \in Messages |-> "inbox"]} \cup
                     {[m \in Messages |-> IF m = d THEN "trash" ELSE "inbox"] : d \in Messages}
        /\ index = "right"
        /\ copy \in {NoData, Rows({m \in Messages : place[m] = "inbox"})}
        /\ view = "inbox" /\ open = FALSE
        /\ data = [v \in Views |-> NoData] /\ fetch = [v \in Views |-> Idle]
        /\ calls = {} /\ removed = [v \in Views |-> {}] /\ excused = FALSE
        /\ asks = 0 /\ deletes = 0
-----------------------------------------------------------------------------
In(places) == {m \in Messages : place[m] \in places}
\* The folders whose messages a conversation opened from this folder shows.
Wanted(v) == IF v = "deleteditems" THEN {"inbox", "trash"} ELSE {"inbox"}

\* mail_get_thread_headers: GetConversationItems without the folders to ignore, or
\* FindItem in every folder but those when the index knows nothing of the conversation.
ConversationItems(v) == IF index = "right" THEN In(Wanted(v)) ELSE {}
FoundInFolders(v) == In(Wanted(v))
EwsHeaders(v) == IF ConversationItems(v) # {} THEN ConversationItems(v) ELSE FoundInFolders(v)
\* getThread of Gmail leaves out the messages labelled TRASH; Thread/get leaves out none.
GmailThread(v) == In(Wanted(v))
JmapThread == In({"inbox", "trash"})
Listed(v) == CASE kind = "ews" -> EwsHeaders(v)
               [] kind = "gmail" -> GmailThread(v)
               [] kind = "jmap" -> JmapThread

Start(v) == fetch[v] = Idle /\ fetch' = [fetch EXCEPT ![v] = Asked] /\ asks' = asks + 1

\* The conversation is selected, or its folder: an entry is shown at once, and asked for when stale.
Open(v) == /\ asks < MaxAsks /\ (~open \/ view # v)
           /\ open' = TRUE /\ view' = v
           /\ \/ Start(v)
              \/ (data[v].there \/ fetch[v] # Idle) /\ UNCHANGED <<fetch, asks>>
           /\ UNCHANGED <<kind, server, copy, data, calls, removed, excused, deletes>>
Close == /\ open
         /\ open' = FALSE
         /\ UNCHANGED <<kind, server, copy, view, data, fetch, calls, removed, excused, asks, deletes>>
\* The window gets the focus and the entry is stale.
Refetch == /\ open /\ asks < MaxAsks
           /\ Start(view)
           /\ UNCHANGED <<kind, server, copy, screen, data, calls, removed, excused, deletes>>

\* The server answers; the answer arrives later.
Serve(v) == /\ fetch[v] = Asked
            /\ fetch' = [fetch EXCEPT ![v] = [at |-> "answered", rows |-> Listed(v)]]
            /\ UNCHANGED <<kind, server, copy, screen, data, calls, removed, excused, asks, deletes>>
Receive(v) == /\ fetch[v].at = "answered"
              /\ data' = [data EXCEPT ![v] = Rows(fetch[v].rows)]
              /\ fetch' = [fetch EXCEPT ![v] = Idle]
              /\ UNCHANGED <<kind, server, copy, screen, calls, removed, excused, asks, deletes>>
\* The request fails: in the inbox the copy on the device stands in for the answer.
Fails(v) == /\ fetch[v] = Asked
            /\ fetch' = [fetch EXCEPT ![v] = IF v = "inbox" /\ copy.there THEN [at |-> "answered", rows |-> copy.rows]
                                             ELSE Idle]
            /\ excused' = (excused \/ (v = "inbox" /\ copy.rows \cap removed["deleteditems"] # {}))
            /\ UNCHANGED <<kind, server, copy, screen, data, calls, removed, asks, deletes>>
-----------------------------------------------------------------------------
Without(entries, m) == [v \in Views |-> [entries[v] EXCEPT !.rows = @ \ {m}]]

\* handleDeleteMessage: the message leaves every entry, requests are cancelled, the call starts.
DeleteMessage(m) ==
  /\ open /\ m \in data[view].rows /\ deletes < MaxDeletes
  /\ calls' = calls \cup {[of |-> m, from |-> view, before |-> data, at |-> "sent"]}
  /\ data' = Without(data, m)
  /\ fetch' = [v \in Views |-> Idle]
  /\ open' = (data[view].rows # {m})
  /\ deletes' = deletes + 1
  /\ UNCHANGED <<kind, server, copy, view, removed, excused, asks>>

\* moveToTrash or, in the trash, permanentlyDelete; Exchange's index may lose the conversation.
Apply(c) ==
  /\ c.at = "sent" /\ place[c.of] # "gone"
  /\ place' = [place EXCEPT ![c.of] = IF c.from = "inbox" THEN "trash" ELSE "gone"]
  /\ index' \in {index} \cup {i \in {"lost"} : kind = "ews"}
  /\ calls' = (calls \ {c}) \cup {[c EXCEPT !.at = "done"]}
  /\ UNCHANGED <<kind, copy, screen, data, fetch, removed, excused, asks, deletes>>
\* The call fails, before or after it took effect.
Refuse(c) ==
  /\ c.at \in {"sent", "done"}
  /\ calls' = (calls \ {c}) \cup {[c EXCEPT !.at = "failed"]}
  /\ UNCHANGED <<kind, server, copy, screen, data, fetch, removed, excused, asks, deletes>>

\* A slip in Kept: the entries are left as the requests of the meantime made them.
KeptAsIs(c) == data

\* The message leaves the entries again, whatever was received meanwhile.
Kept(c) == Without(data, c.of)

\* It leaves the copy and the entries; the open entry is asked for anew, in place of any request
\* but the first one.
Restarts == open /\ (data[view].there \/ fetch[view] = Idle)
Deleted(c) ==
  /\ c.at = "done"
  /\ calls' = calls \ {c}
  /\ copy' = IF c.from = "inbox" THEN [copy EXCEPT !.rows = @ \ {c.of}] ELSE copy
  /\ data' = Kept(c)
  /\ fetch' = IF Restarts THEN [fetch EXCEPT ![view] = Asked] ELSE fetch
  /\ removed' = [removed EXCEPT ![c.from] = @ \cup {c.of}]
  /\ excused' = (excused \/ \E v \in Views : fetch[v].at = "answered" /\ ~(Restarts /\ v = view))
  /\ UNCHANGED <<kind, server, screen, asks, deletes>>

\* The entries get back what they held when the call started.
RolledBack(c) ==
  /\ c.at = "failed"
  /\ calls' = calls \ {c}
  /\ data' = [v \in Views |-> IF c.before[v].there THEN c.before[v] ELSE data[v]]
  /\ excused' = (excused \/ \E v \in Views, w \in Views : c.before[v].rows \cap removed[w] # {})
  /\ UNCHANGED <<kind, server, copy, screen, fetch, removed, asks, deletes>>

Next == \/ Close \/ Refetch
        \/ \E v \in Views : Open(v) \/ Serve(v) \/ Receive(v) \/ Fails(v)
        \/ \E m \in Messages : DeleteMessage(m)
        \/ \E c \in calls : Apply(c) \/ Refuse(c) \/ Deleted(c) \/ RolledBack(c)

Spec == Init /\ [][Next]_vars
-----------------------------------------------------------------------------
\* A message whose deletion succeeded does not come back: neither where it was
\* deleted nor, deleted for good, anywhere; unless an answer given before the
\* deletion was on its way to a folder that was not shown when it ended, an
\* earlier deletion that failed put back what it had seen, or the copy on the
\* device stood in and still had a message deleted for good.  (JMAP lists the
\* messages in the trash with the others.)
DeletedStaysOut ==
  kind = "jmap" \/ excused
  \/ /\ data["inbox"].rows \cap (removed["inbox"] \cup removed["deleteditems"]) = {}
     /\ data["deleteditems"].rows \cap removed["deleteditems"] = {}
=============================================================================
