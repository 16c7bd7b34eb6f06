----------------------------- MODULE MailPaging -----------------------------
(***************************************************************************)
(* The conversations of a folder, loaded page by page (useMailPageLogic,   *)
(* useMailQueries, ThreadList) from a folder that changes meanwhile, and    *)
(* how each provider lists a page: Exchange, JMAP and IMAP by position,    *)
(* Gmail by the token of the previous page.  Conversations are numbered by *)
(* age, the newest having the largest number; a row is its conversation.   *)
(***************************************************************************)
EXTENDS Integers, FiniteSets

CONSTANTS Page,        \* THREAD_PAGE_SIZE
          First,       \* bound: conversations in the folder at first
          MaxChanges,  \* bound: conversations that arrive or leave
          MaxAsks      \* bound: requests for a page

VARIABLES account,  \* its provider, and whether the page is the unified one
          folder,   \* the conversations on the server
          arrived,  \* how many have come
          gone,     \* how many have left
          pages,    \* React Query's cache: the answer last received for an offset
          offset,   \* threadOffset
          stable,   \* stableThreads
          asked,    \* the requests for a page under way
          token,    \* nextPageTokens of the Gmail client: the last row of a page, 0 for none
          total,    \* the count of the folder, NoCount when unknown
          base,     \* history: the offset last added to stable, and when its answer was given
          excused,  \* history: a page was added that need not follow the others
          asks      \* how many pages were asked for

vars == <<account, folder, arrived, gone, pages, offset, stable, asked, token, total, base, excused, asks>>

NoCount == -1
Numbered == 1..First + MaxChanges
Kinds == {"ews", "jmap", "imap", "gmail"}
Now == [arrived |-> arrived, gone |-> gone]

TypeOK == /\ account \in [kind : Kinds, unified : BOOLEAN]
          /\ folder \subseteq Numbered /\ stable \subseteq Numbered
          /\ offset \in Nat /\ token \in Numbered \cup {0}
          /\ total \in Nat \cup {NoCount} /\ excused \in BOOLEAN
          /\ \A o \in DOMAIN pages : pages[o].rows \subseteq Numbered
          /\ \A r \in asked : r.off \in Nat /\ r.from \in Numbered \cup {0}

Init == /\ account \in [kind : Kinds, unified : BOOLEAN]
        /\ folder = 1..First /\ arrived = 0 /\ gone = 0
        /\ pages = <<>> /\ offset = 0 /\ stable = {} /\ asked = {} /\ token = 0
        /\ total = NoCount /\ base = [off |-> 0, at |-> Now] /\ excused = FALSE /\ asks = 0
-----------------------------------------------------------------------------
\* The rows from a position on, and those older than a row.
Newer(c) == {d \in folder : d > c}
Slice(from) == {c \in folder : Cardinality(Newer(c)) \in from .. from + Page - 1}
After(last) == LET rest == {c \in folder : last = 0 \/ c < last}
               IN  {c \in rest : Cardinality({d \in rest : d > c}) < Page}

\* list_threads of the three providers that list by position, listThreads of Gmail.
EwsPage(r) == Slice(r.off)
JmapPage(r) == Slice(r.off)
ImapPage(r) == Slice(r.off)
GmailPage(r) == After(r.from)
Listed(r) == CASE account.kind = "ews" -> EwsPage(r)
               [] account.kind = "jmap" -> JmapPage(r)
               [] account.kind = "imap" -> ImapPage(r)
               [] account.kind = "gmail" -> GmailPage(r)
\* Rows that may be missing: an e-mail Email/get does not resolve, a summary Gmail refuses.
MayMiss(rows) == IF account.kind \in {"jmap", "gmail"} THEN {{}} \cup {{c} : c \in rows} ELSE {{}}
Oldest(rows) == CHOOSE c \in rows : \A d \in rows : c <= d
NextToken(rows) == IF rows # {} /\ \E c \in folder : c < Oldest(rows) THEN Oldest(rows) ELSE 0

\* The requests that start for these offsets; Gmail's token is read, and dropped by the first page.
Fetching(off) == \E r \in asked : r.off = off
Request(off) == [off |-> off, from |-> IF account.kind = "gmail" /\ off > 0 THEN token ELSE 0]
Start(offs) == LET new == {o \in offs : ~Fetching(o)}
               IN  /\ asked' = asked \cup {Request(o) : o \in new}
                   /\ token' = IF 0 \in new THEN 0 ELSE token
                   /\ asks' = asks + Cardinality(new)

\* What is shown when a page is the current one: alone at offset 0, added to the others elsewhere.
Accumulated(off, rows) == IF off = 0 THEN rows ELSE stable \cup rows
\* The answer continues what is shown: between the answer it was added to and this one no more
\* conversations came than the page reaches down, and none left above another page.
Follows(off, page) ==
  LET reach == off + Page - base.off IN
  IF account.kind = "gmail" THEN page.from \in stable
  ELSE /\ page.at.arrived - base.at.arrived \in 0..reach
       /\ page.at.gone - base.at.gone \in -reach .. (IF off = base.off THEN Page ELSE 0)
Show(off, page) ==
  /\ stable' = Accumulated(off, page.rows)
  /\ base' = [off |-> off, at |-> page.at]
  /\ excused' = (~page.whole \/ (off > 0 /\ (excused \/ ~Follows(off, page))))
Nothing == [rows |-> {}, at |-> Now, from |-> 0, whole |-> TRUE]
Cached(off) == IF off \in DOMAIN pages THEN pages[off] ELSE Nothing
Raw == Cached(offset).rows

\* A slip in Reset: the offset stays where the list had been scrolled to.
ResetRows == UNCHANGED offset /\ Show(0, Cached(0))

\* The list shows the first page again, with the rows the cache has of it.
Reset == offset' = 0 /\ Show(0, Cached(0))
-----------------------------------------------------------------------------
\* The current page is asked for: when it opens, every minute, when the window gets the focus.
Poll == /\ asks < MaxAsks /\ ~Fetching(offset)
        /\ Start({offset})
        /\ UNCHANGED <<account, folder, arrived, gone, pages, offset, stable, total, base, excused>>

Receive(r, page) ==
  /\ asked' = asked \ {r}
  /\ pages' = [o \in DOMAIN pages \cup {r.off} |-> IF o = r.off THEN page ELSE pages[o]]
  /\ IF r.off # offset \/ (offset > 0 /\ page.rows = {}) THEN UNCHANGED <<stable, base, excused>>
     ELSE Show(offset, page)
  /\ UNCHANGED <<account, folder, arrived, gone, offset, total, asks>>

Answer(r) == \E missing \in MayMiss(Listed(r)) :
  /\ token' = IF account.kind = "gmail" THEN NextToken(Listed(r)) ELSE token
  /\ Receive(r, [rows |-> Listed(r) \ missing, at |-> Now, from |-> r.from, whole |-> missing = {}])

\* The request fails: the page stays as it was.
Fail(r) == /\ asked' = asked \ {r}
           /\ UNCHANGED <<account, folder, arrived, gone, pages, offset, stable, token, total, base, excused, asks>>

\* The request fails, and the copy on the device, made when the page opened, stands in for it.
Offline(r) ==
  /\ LET rows == {c \in 1..First : First - c \in r.off .. r.off + Page - 1}
     IN  Receive(r, [rows |-> rows, at |-> Now, from |-> 0, whole |-> FALSE])
  /\ UNCHANGED token

HasMore == IF total # NoCount THEN Cardinality(stable) < total ELSE Cardinality(Raw) >= Page
Consumed == IF account.unified \/ account.kind = "jmap" THEN Page ELSE Cardinality(Raw)

\* loadMoreThreads; a page the cache has is shown before it is asked for again, if it is.
LoadMore ==
  /\ asks < MaxAsks /\ ~Fetching(offset) /\ HasMore /\ Consumed > 0
  /\ LET next == offset + Consumed
     IN  /\ offset' = next
         /\ \/ Start({next})
            \/ next \in DOMAIN pages /\ UNCHANGED <<asked, token, asks>>
         /\ IF Raw = {} THEN excused' = TRUE /\ UNCHANGED base /\ stable' = stable \cup Cached(next).rows
            ELSE IF Cached(next).rows = {} THEN UNCHANGED <<stable, base, excused>>
            ELSE Show(next, pages[next])
  /\ UNCHANGED <<account, folder, arrived, gone, pages, total>>

\* The user pulls the list down: the current page and the first are asked for.
Reload == /\ asks < MaxAsks
          /\ Reset /\ Start({0, offset})
          /\ UNCHANGED <<account, folder, arrived, gone, pages, total>>

\* Another folder is shown for a while.
Reselect == /\ asks < MaxAsks
            /\ Reset
            /\ Start({0}) \/ (0 \in DOMAIN pages /\ UNCHANGED <<asked, token, asks>>)
            /\ UNCHANGED <<account, folder, arrived, gone, pages, total>>

\* The folder's unread count changed: every page is asked for; a rise goes back to the first.
UnreadChanges ==
  /\ asks < MaxAsks
  /\ Start({offset} \cup DOMAIN pages)
  /\ Reset \/ UNCHANGED <<offset, stable, base, excused>>
  /\ UNCHANGED <<account, folder, arrived, gone, pages, total>>

\* getThreadCount; IMAP has none.
Count == /\ account.kind # "imap"
         /\ total' = Cardinality(folder)
         /\ UNCHANGED <<account, folder, arrived, gone, pages, offset, stable, asked, token, base, excused, asks>>

Arrive == /\ arrived + gone < MaxChanges
          /\ arrived' = arrived + 1 /\ folder' = folder \cup {First + arrived + 1}
          /\ UNCHANGED <<account, gone, pages, offset, stable, asked, token, total, base, excused, asks>>

Leave(c) == /\ arrived + gone < MaxChanges /\ c \in folder
            /\ gone' = gone + 1 /\ folder' = folder \ {c}
            /\ UNCHANGED <<account, arrived, pages, offset, stable, asked, token, total, base, excused, asks>>

Next == \/ Poll \/ LoadMore \/ Reload \/ Reselect \/ UnreadChanges \/ Count \/ Arrive
        \/ \E r \in asked : Answer(r) \/ Fail(r) \/ Offline(r)
        \/ \E c \in folder : Leave(c)

Spec == Init /\ [][Next]_vars
-----------------------------------------------------------------------------
\* Scrolling down misses no conversation: between two rows that are shown every
\* conversation of the folder is shown, unless a page that had none, or whose
\* request failed, was passed over, or a page was used that was given before the
\* one above it, after a conversation had left or after so many had come that it
\* ends above that one, came from the copy on the device, lacked a row, or (Gmail)
\* continued another page.
NoHoles == excused \/ \A c \in folder : (\E d, e \in stable : d < c /\ c < e) => c \in stable
=============================================================================
