----------------------------- MODULE MailSearch -----------------------------
(***************************************************************************)
(* Searching the mail of several accounts at once (useAllAccountSearch,    *)
(* search_threads of mail.rs and jmap.rs, searchThreads of the Gmail       *)
(* client).  Exchange asks every folder at the same time, JMAP makes one   *)
(* query of messages, Gmail lists conversations and then reads each.       *)
(* Meanwhile mail moves and arrives, requests fail and the user changes    *)
(* the query.  A message is the number of its arrival, which is its date.  *)
(***************************************************************************)
EXTENDS Integers, FiniteSets

CONSTANTS Size,        \* bound: messages of an account
          Limit,       \* maxCount of a search
          MaxSearches, \* bound: searches started
          MaxEvents    \* bound: messages that move or arrive

VARIABLES place,    \* the folder of each message of each account, or "none"
          query,    \* searchQuery
          search,   \* the search under way for each account and query
          found,    \* the cached results (MAIL_KEYS.search)
          searches, events

vars == <<place, query, search, found, searches, events>>

Mails == 1..Size
Accounts == {"ews", "jmap", "gmail"}
Folders == {"inbox", "archive", "trash"}
WellKnown == {"inbox", "trash"}
Queries == {"any", "trash"}
Conv(m) == m \div 2
Scope(q) == IF q = "any" THEN Folders ELSE {q}

\* todo: requests without an answer; rows: what was read;
\* sure: messages that stayed where the search looks since it began;
\* near: those that were there at some time of it (both history).
Idle == [stage |-> "idle", todo |-> {}, rows |-> {}, sure |-> {}, near |-> {}]
Nothing == [rows |-> {}, sure |-> {}, near |-> {}]

\* The last message is still to come; to bound the first states, the oldest
\* lies in the trash and the accounts hold the same mail.
Init == /\ \E p \in [Mails -> Folders] :
             place = [a \in Accounts |-> [p EXCEPT ![1] = "trash", ![Size] = "none"]]
        /\ query = "any"
        /\ search = [a \in Accounts |-> [q \in Queries |-> Idle]]
        /\ found = [a \in Accounts |-> [q \in Queries |-> Nothing]]
        /\ searches = 0 /\ events = 0

In(a, fs) == {m \in Mails : place[a][m] \in fs}
Matching(a, q) == {[conv |-> Conv(m), date |-> m, in |-> place[a][m]] : m \in In(a, Scope(q))}

\* One row per conversation, of its newest message.
Newest(rows) == {CHOOSE r \in rows : r.conv = c /\ \A s \in rows : s.conv = c => s.date <= r.date
                 : c \in {r.conv : r \in rows}}
OldestFirst(rows) == {r \in rows : Cardinality({s \in rows : s.date < r.date}) < Limit}
Sorted(rows) == {r \in rows : Cardinality({s \in rows : s.date > r.date}) < Limit}
Kept(rows) == Sorted(Newest(rows))

\* Exchange finds its folders first; without them it takes the well-known ones.
Start(a) ==
  /\ search[a][query].stage = "idle" /\ searches < MaxSearches
  /\ \E known \in {Folders, WellKnown} :
       /\ known = WellKnown => a = "ews" /\ query = "any"
       /\ LET there == Scope(query) \cap known IN
            search' = [search EXCEPT ![a][query] =
              [stage |-> IF a = "ews" THEN "reading" ELSE "asked",
               todo |-> IF a = "ews" THEN there ELSE {}, rows |-> {},
               sure |-> In(a, there), near |-> In(a, there)]]
  /\ searches' = searches + 1
  /\ UNCHANGED <<place, query, found, events>>

CurrentKey(q) == query
Key(q) == q
\* A search goes on, or leaves its rows under the key of its query.
Step(a, q, s) ==
  IF s.todo # {}
  THEN search' = [search EXCEPT ![a][q] = s] /\ UNCHANGED found
  ELSE /\ search' = [search EXCEPT ![a][q] = Idle]
       /\ found' = [found EXCEPT ![a][Key(q)] = [rows |-> Kept(s.rows), sure |-> s.sure, near |-> s.near]]

\* A folder of Exchange answers.
FolderAnswers(q, f) ==
  LET s == search["ews"][q] IN
  /\ s.stage = "reading" /\ f \in s.todo
  /\ Step("ews", q, [s EXCEPT !.todo = @ \ {f}, !.rows = @ \cup {r \in Matching("ews", q) : r.in = f}])
  /\ UNCHANGED <<place, query, searches, events>>

\* The limit of JMAP counts messages.
JmapAnswers(q) ==
  LET s == search["jmap"][q] IN
  /\ s.stage = "asked"
  /\ Step("jmap", q, [s EXCEPT !.rows = Sorted(Matching("jmap", q))])
  /\ UNCHANGED <<place, query, searches, events>>

GmailLists(q) ==
  LET s == search["gmail"][q] IN
  /\ s.stage = "asked"
  /\ Step("gmail", q, [s EXCEPT !.stage = "reading", !.todo = Kept(Matching("gmail", q))])
  /\ UNCHANGED <<place, query, searches, events>>

\* fetchThreadSummary: its date is that of the last message of the whole
\* conversation; one that cannot be read is left out.
Summary(q, r) ==
  LET s == search["gmail"][q]
      mine == {m \in In("gmail", Folders) : Conv(m) = r.conv} IN
  /\ s.stage = "reading" /\ r \in s.todo
  /\ \/ /\ mine # {}
        /\ \E last \in mine :
             /\ \A m \in mine : m <= last
             /\ Step("gmail", q, [s EXCEPT !.todo = @ \ {r}, !.rows = @ \cup {[r EXCEPT !.date = last]}])
     \/ Step("gmail", q, [s EXCEPT !.todo = @ \ {r}, !.sure = {m \in @ : Conv(m) # r.conv}])
  /\ UNCHANGED <<place, query, searches, events>>

\* One refused request refuses the search; what was found before stays.
KeptAnyway(a, q) ==
  /\ search' = [search EXCEPT ![a][q] = Idle]
  /\ found' = [found EXCEPT ![a][q] = [rows |-> Kept(search[a][q].rows), sure |-> search[a][q].sure,
                                       near |-> search[a][q].near]]
GivesUp(a, q) == search' = [search EXCEPT ![a][q] = Idle] /\ UNCHANGED found
Refused(a, q) ==
  /\ search[a][q].stage # "idle"
  /\ a = "gmail" => search[a][q].stage = "asked"
  /\ GivesUp(a, q)
  /\ UNCHANGED <<place, query, searches, events>>

HandleSearch(q) == /\ query # q /\ query' = q
                   /\ UNCHANGED <<place, search, found, searches, events>>

\* A message arrives, or another client moves it.
Moves(a, m, f) ==
  /\ events < MaxEvents /\ place[a][m] # f
  /\ place[a][m] = "none" => f = "inbox"
  /\ place' = [place EXCEPT ![a][m] = f]
  /\ search' = [search EXCEPT ![a] = [q \in Queries |->
       IF search[a][q].stage = "idle" THEN Idle
       ELSE [search[a][q] EXCEPT !.sure = @ \ {m}, !.near = IF f \in Scope(q) THEN @ \cup {m} ELSE @]]]
  /\ events' = events + 1
  /\ UNCHANGED <<query, found, searches>>

Next == \/ \E a \in Accounts : Start(a)
        \/ \E q \in Queries :
             \/ \E f \in Folders : FolderAnswers(q, f)
             \/ JmapAnswers(q) \/ GmailLists(q)
             \/ \E r \in search["gmail"][q].todo : Summary(q, r)
             \/ \E a \in Accounts : Refused(a, q)
             \/ HandleSearch(q)
        \/ \E a \in Accounts, m \in Mails, f \in Folders : Moves(a, m, f)

Spec == Init /\ [][Next]_vars
-----------------------------------------------------------------------------
\* The results have their types.
TypeOK == /\ query \in Queries
          /\ \A a \in Accounts, q \in Queries :
               /\ search[a][q].stage \in {"idle", "asked", "reading"}
               /\ search[a][q].sure \subseteq search[a][q].near
               /\ found[a][q].near \subseteq Mails

\* The rows on the screen, of all accounts (searchResults).
Shown == UNION {found[a][query].rows : a \in Accounts}

\* Every conversation with a message that stayed where the search looked is
\* found, with a date no older than that message, unless as many newer ones as
\* the limit allows were there (conversations, for JMAP messages) or Gmail
\* could not read it; and every row answers the query on the screen, also when
\* the answer to an earlier query comes late.
FindsWhatStays ==
  /\ \A a \in Accounts, q \in Queries : LET result == found[a][q] IN
       \A m \in result.sure :
         \/ \E r \in result.rows : r.conv = Conv(m) /\ r.date >= m
         \/ LET newer == {n \in result.near : n > m} IN
            Limit <= Cardinality(IF a = "jmap" THEN newer ELSE {Conv(n) : n \in newer} \ {Conv(m)})
  /\ \A r \in Shown : r.in \in Scope(query)
=============================================================================
