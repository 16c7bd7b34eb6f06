------------------------------ MODULE EwsMail ------------------------------
(***************************************************************************)
(* The Exchange client (provider-core/src/mail.rs, EwsMailProvider.ts).  An *)
(* operation is a series of SOAP requests; other operations, other clients *)
(* and failures come between two of them.  An item has one parent folder;  *)
(* a MoveItem may give it a new id, so an id is a pair of the message and  *)
(* the number of moves it had seen.                                        *)
(***************************************************************************)
EXTENDS Naturals, Sequences, FiniteSets

CONSTANTS Messages,
          MaxCalls,   \* bound: operations started
          Parallel,   \* bound: operations under way at once
          MaxMoves    \* bound: new ids a message gets

VARIABLES at,       \* server: the parent folder of each item
          moved,    \* server: the number in each item's id
          seen,     \* server: items marked read
          date,     \* server: items that hold a wake-up date
          folder,   \* server: whether the Snoozed folder exists
          listed,   \* client: the ids shown on the screen
          calls,    \* client: operations under way
          count,    \* operations so far
          doomed,   \* history: messages a permanent deletion named
          free      \* history: messages moved one by one or trashed

server == <<at, moved, seen, date, folder>>
vars == <<server, listed, calls, count, doomed, free>>

Folders == {"inbox", "sentitems", "deleteditems", "other", "snoozed"}
Id(m) == [m |-> m, k |-> moved[m]]
Live(i) == i.k = moved[i.m] /\ at[i.m] # "gone"
Names(ids) == {i.m : i \in ids}

Init == /\ at \in [Messages -> {"inbox", "sentitems"}]
        /\ moved = [m \in Messages |-> 0]
        /\ seen = {} /\ date = {}
        /\ folder \in BOOLEAN
        /\ listed = {Id(m) : m \in Messages}
        /\ calls = {} /\ count = 0
        /\ doomed = {} /\ free = {}

\* The lists and the conversation on the screen carry the ids of that moment.
ListThreads == /\ listed' = {Id(m) : m \in {x \in Messages : at[x] # "gone"}}
               /\ listed' # listed
               /\ UNCHANGED <<server, calls, count, doomed, free>>

Start(todo, ids, convs, to) ==
  /\ count < MaxCalls /\ Cardinality(calls) < Parallel
  /\ count' = count + 1
  /\ calls' = calls \cup {[n |-> count + 1, todo |-> todo, ids |-> ids, convs |-> convs, to |-> to]}
  /\ UNCHANGED <<server, listed>>

Keep == UNCHANGED <<doomed, free>>
MarkRead(ids) == ids # {} /\ Start(<<"read">>, ids, {}, "") /\ Keep
MarkUnread(ids) == ids # {} /\ Start(<<"unread">>, ids, {}, "") /\ Keep
MoveToTrash(i) == /\ Start(<<"move">>, {i}, {}, "deleteditems")
                  /\ free' = free \cup {i.m} /\ UNCHANGED doomed
MoveToFolder(i, to) == /\ Start(<<"move">>, {i}, {}, to)
                       /\ free' = free \cup {i.m} /\ UNCHANGED doomed
PermanentlyDelete(i) == /\ Start(<<"delete">>, {i}, {}, "")
                        /\ doomed' = doomed \cup {i.m} /\ UNCHANGED free

\* The bulk operations first look up the items of the conversations.
BulkMoveToTrash(ms) == /\ ms # {} /\ Start(<<"collect", "move">>, {}, ms, "deleteditems")
                       /\ free' = free \cup ms /\ UNCHANGED doomed
BulkPermanentlyDelete(ms) == /\ ms # {} /\ Start(<<"collect all", "delete">>, {}, ms, "")
                             /\ doomed' = doomed \cup ms /\ UNCHANGED free
BulkMoveToFolder(ms, to) ==
  ms # {} /\ Start(<<"collect", "sent id", "inspect", "move">>, {}, ms, to) /\ Keep

Snooze(i) == /\ Start(<<"native", "date", "find", "create", "move">>, {i}, {}, "snoozed")
             /\ free' = free \cup {i.m} /\ UNCHANGED doomed
FindOrCreateSnoozedFolder == Start(<<"find", "create">>, {}, {}, "") /\ Keep
-----------------------------------------------------------------------------
Is(c, request) == c.todo # <<>> /\ Head(c.todo) = request
Ends(c) == calls' = calls \ {c}
Continues(c, d) == calls' = (calls \ {c}) \cup (IF d.todo = <<>> THEN {} ELSE {d})
Goes(c) == Continues(c, [c EXCEPT !.todo = Tail(@)])
Still == UNCHANGED <<listed, count, doomed, free>>

\* A lost connection, an expired token or a refusal ends the operation.
Fails(c) == Ends(c) /\ UNCHANGED server /\ Still

\* EwsMailProvider.ts collectItemIds: trash is looked into for deletions only.
Collect(c) ==
  /\ Is(c, "collect") \/ Is(c, "collect all")
  /\ UNCHANGED server
  /\ LET found == {m \in c.convs : at[m] # "gone" /\ (Is(c, "collect") => at[m] # "deleteditems")}
     IN  IF found = {} THEN Ends(c) /\ Still
         ELSE Continues(c, [c EXCEPT !.ids = {Id(m) : m \in found}, !.todo = Tail(@)]) /\ Still

\* update_is_read: a stale id is refused, the other items are updated.
UpdateIsRead(c) ==
  /\ Is(c, "read") \/ Is(c, "unread")
  /\ LET hit == Names({i \in c.ids : Live(i)})
     IN  seen' = IF Is(c, "read") THEN seen \cup hit ELSE seen \ hit
  /\ Ends(c)
  /\ UNCHANGED <<at, moved, date, folder>> /\ Still

SentId(c) == Is(c, "sent id") /\ Goes(c) /\ UNCHANGED server /\ Still

MovableAll(c) == c.ids
Movable(c) == {i \in c.ids : at[i.m] # "sentitems"}

\* One stale id makes the whole inspection an error; items of Sent are left out.
Inspect(c) ==
  /\ Is(c, "inspect")
  /\ UNCHANGED server
  /\ IF \E i \in c.ids : ~Live(i) THEN Ends(c) /\ Still
     ELSE IF Movable(c) = {} THEN Ends(c) /\ Still
     ELSE Continues(c, [c EXCEPT !.ids = Movable(c), !.todo = Tail(@)]) /\ Still

\* MoveItem moves the items it finds, and may give each of them a new id.
MoveItem(c) ==
  /\ Is(c, "move")
  /\ c.to = "snoozed" => folder
  /\ LET hit == Names({i \in c.ids : Live(i)})
     IN  /\ at' = [m \in Messages |-> IF m \in hit THEN c.to ELSE at[m]]
         /\ \/ moved' = [m \in Messages |-> IF m \in hit THEN moved[m] + 1 ELSE moved[m]]
            \/ UNCHANGED moved
  /\ Ends(c)
  /\ Still
  /\ UNCHANGED <<seen, date, folder>>

\* check_permanent_delete_response: an item that is not found is no error.
DeleteItem(c) ==
  /\ Is(c, "delete")
  /\ LET hit == Names({i \in c.ids : Live(i)})
     IN  at' = [m \in Messages |-> IF m \in hit THEN "gone" ELSE at[m]]
  /\ Ends(c)
  /\ UNCHANGED <<moved, seen, date, folder>> /\ Still

\* Outlook's own command moves the message and keeps its date; when it is
\* refused, or its answer is lost, the portable way is tried.
ScheduleMessage(c) ==
  /\ Is(c, "native")
  /\ \E i \in c.ids :
       \/ /\ Live(i)
          /\ at' = [at EXCEPT ![i.m] = "snoozed"] /\ moved' = [moved EXCEPT ![i.m] = @ + 1]
          /\ date' = date \cup {i.m} /\ folder' = TRUE /\ UNCHANGED seen
          /\ Ends(c) \/ Goes(c)
       \/ UNCHANGED server /\ Goes(c)
  /\ Still

\* set_snooze_time: the date is on the item before the item is moved.
SetSnoozeTime(c) ==
  /\ Is(c, "date")
  /\ \E i \in c.ids : IF Live(i) THEN date' = date \cup {i.m} /\ Goes(c)
                                 ELSE UNCHANGED date /\ Ends(c)
  /\ UNCHANGED <<at, moved, seen, folder>> /\ Still

FindFolder(c) ==
  /\ Is(c, "find")
  /\ IF folder THEN Continues(c, [c EXCEPT !.todo = Tail(Tail(@))]) ELSE Goes(c)
  /\ UNCHANGED server /\ Still

\* A folder created meanwhile by another operation makes this an error.
CreateFolder(c) ==
  /\ Is(c, "create")
  /\ IF folder THEN Ends(c) ELSE Goes(c)
  /\ folder' = TRUE
  /\ UNCHANGED <<at, moved, seen, date>> /\ Still

\* Exchange wakes a message at its date; another client files or sends one.
Wake(m) == /\ at[m] = "snoozed" /\ m \in date
           /\ at' = [at EXCEPT ![m] = "inbox"] /\ date' = date \ {m}
           /\ moved' = [moved EXCEPT ![m] = @ + 1]
           /\ UNCHANGED <<seen, folder, calls>> /\ Still

OtherClient(m) == /\ at[m] \in {"inbox", "other"}
                  /\ at' = [at EXCEPT ![m] = "sentitems"] /\ moved' = [moved EXCEPT ![m] = @ + 1]
                  /\ UNCHANGED <<seen, date, folder, calls>> /\ Still

Next == \/ ListThreads \/ FindOrCreateSnoozedFolder
        \/ \E ids \in SUBSET listed : MarkRead(ids) \/ MarkUnread(ids)
        \/ \E i \in listed : \/ MoveToTrash(i) \/ PermanentlyDelete(i) \/ Snooze(i)
                             \/ \E to \in {"inbox", "other"} : MoveToFolder(i, to)
        \/ \E ms \in SUBSET Names(listed) : \/ BulkMoveToTrash(ms) \/ BulkPermanentlyDelete(ms)
                                            \/ BulkMoveToFolder(ms, "other")
        \/ \E c \in calls : \/ Fails(c) \/ Collect(c) \/ UpdateIsRead(c) \/ SentId(c) \/ Inspect(c)
                            \/ MoveItem(c) \/ DeleteItem(c) \/ ScheduleMessage(c)
                            \/ SetSnoozeTime(c) \/ FindFolder(c) \/ CreateFolder(c)
        \/ \E m \in Messages : moved[m] < MaxMoves /\ (Wake(m) \/ OtherClient(m))

Spec == Init /\ [][Next]_vars
-----------------------------------------------------------------------------
Todos == {<<"read">>, <<"unread">>, <<"move">>, <<"delete">>, <<"collect", "move">>,
          <<"collect all", "delete">>, <<"collect", "sent id", "inspect", "move">>,
          <<"native", "date", "find", "create", "move">>, <<"find", "create">>}

\* The variables have their types; an operation only names messages.
TypeOK == /\ at \in [Messages -> Folders \cup {"gone"}]
          /\ moved \in [Messages -> Nat]
          /\ {seen, date, doomed, free} \subseteq SUBSET Messages
          /\ folder \in BOOLEAN /\ count \in 0..MaxCalls
          /\ \A c \in calls : /\ \E t \in Todos : \E k \in 1..Len(t) : c.todo = SubSeq(t, k, Len(t))
                              /\ Names(c.ids) \cup c.convs \subseteq Messages

Held == {m \in Messages : at[m] # "gone"}
InSent == {m \in Messages : at[m] = "sentitems"}
=============================================================================
