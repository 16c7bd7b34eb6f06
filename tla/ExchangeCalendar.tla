-------------------------- MODULE ExchangeCalendar --------------------------
(***************************************************************************)
(* The occurrences of one Exchange meeting series and the calls that list, *)
(* edit, delete, cancel and answer them                                    *)
(* (backend/provider-core/src/ews/calendar.rs), next to another client.    *)
(* Every write gives the items it changes a new version, the ChangeKey;    *)
(* write n writes the value n.  The items of a listing are read one chunk  *)
(* after the other.                                                        *)
(***************************************************************************)
EXTENDS Naturals, FiniteSets, Functions

CONSTANTS Items,
          Chunk,      \* items read by one request
          MaxWrites,  \* writes of any client
          Parallel    \* calls of the page under way

VARIABLES item,    \* the items of the mailbox: version, value, folder
          master,  \* the version of the series
          seen,    \* the version and the value of the items the page shows
          listing, \* a listing under way: <<>>, or what it found and what it has to read
          edits,   \* edits under way
          calls,   \* other calls under way
          writes   \* writes so far; the last ones are those of the page

vars == <<item, master, seen, listing, edits, calls, writes>>

InCalendar == {i \in DOMAIN item : item[i].folder = "calendar"}
Read(i) == [key |-> item[i].key, value |-> item[i].value]

Init == /\ item = [i \in Items |-> [key |-> 0, value |-> 0, folder |-> "calendar"]]
        /\ master = 0 /\ seen = [i \in Items |-> Read(i)]
        /\ listing = <<>> /\ edits = {} /\ calls = {} /\ writes = 0
-----------------------------------------------------------------------------
\* The server changes the value of items of the series, or removes them.
Write(items) ==
  /\ writes < MaxWrites /\ writes' = writes + 1 /\ master' = writes + 1
  /\ item' = [i \in DOMAIN item |-> IF i \notin items THEN item[i]
                                   ELSE [item[i] EXCEPT !.key = writes + 1, !.value = writes + 1]]
Remove(items, folder) == item' = [i \in DOMAIN item |-> IF i \notin items THEN item[i]
                                                       ELSE [item[i] EXCEPT !.folder = folder]]

OtherWrites == /\ \E items \in {{i} : i \in InCalendar} \cup {InCalendar} : items # {} /\ Write(items)
               /\ UNCHANGED <<seen, listing, edits, calls>>
OtherDeletes(i) == /\ i \in InCalendar /\ item' = Restrict(item, DOMAIN item \ {i})
                   /\ UNCHANGED <<master, seen, listing, edits, calls, writes>>
-----------------------------------------------------------------------------
\* ews_get_calendar_events: the items of the calendar, then their details.
FindItems == /\ listing = <<>> /\ listing' = <<[found |-> [i \in InCalendar |-> Read(i)], todo |-> InCalendar]>>
             /\ UNCHANGED <<item, master, seen, edits, calls, writes>>

\* A chunk of details replaces what was found of them; one item that is gone
\* ends the listing, and a request that fails leaves what was found.
Chunks == {C \in SUBSET listing[1].todo : Cardinality(C) <= Chunk /\ C # {}}
GetItems(C) ==
  /\ listing' = IF C \subseteq DOMAIN item
                THEN LET found == listing[1].found
                     IN  <<[found |-> [i \in DOMAIN found |-> IF i \in C THEN Read(i) ELSE found[i]],
                            todo |-> listing[1].todo \ C]>>
                ELSE <<>>
  /\ UNCHANGED <<item, master, seen, edits, calls, writes>>
GetItemsFails(C) == /\ listing' = <<[listing[1] EXCEPT !.todo = @ \ C]>>
                    /\ UNCHANGED <<item, master, seen, edits, calls, writes>>
Listed == /\ listing[1].todo = {} /\ seen' = listing[1].found /\ listing' = <<>>
          /\ UNCHANGED <<item, master, edits, calls, writes>>
-----------------------------------------------------------------------------
\* ews_update_event, of an occurrence or of the series, as the page shows it.
Edit(i, series) ==
  /\ i \in DOMAIN seen /\ Cardinality(edits \cup calls) < Parallel
  /\ edits' = edits \cup {[item |-> i, series |-> series, seen |-> seen[i], began |-> writes, key |-> 0,
                           stage |-> IF series THEN "lookup" ELSE "update"]}
  /\ UNCHANGED <<item, master, seen, listing, calls, writes>>

Replace(e, f) == edits' = (edits \ {e}) \cup {f}
End(e) == edits' = edits \ {e}
Rest == UNCHANGED <<item, master, seen, listing, calls, writes>>

\* A slip: the version of the series is taken without comparing.
VerifyNothing(e) == e.stage = "lookup" /\ Replace(e, [e EXCEPT !.stage = "master"]) /\ Rest

\* The version of the occurrence is compared before the one of the series is
\* taken (verify_event_version).
Verify(e) == /\ e.stage = "lookup"
             /\ IF e.item \in DOMAIN item /\ item[e.item].key = e.seen.key
                THEN Replace(e, [e EXCEPT !.stage = "master"]) ELSE End(e)
             /\ Rest
GetMaster(e) == /\ e.stage = "master" /\ Replace(e, [e EXCEPT !.stage = "update", !.key = master]) /\ Rest

\* The server refuses an update of another version than the one it is for.
Update(e) ==
  /\ e.stage = "update"
  /\ IF e.series THEN master = e.key /\ InCalendar # {} /\ Write(InCalendar)
                 ELSE e.item \in DOMAIN item /\ item[e.item].key = e.seen.key /\ Write({e.item})
  /\ Replace(e, [e EXCEPT !.stage = "saved"])
  /\ UNCHANGED <<seen, listing, calls>>
Refused(e) == e.stage # "saved" /\ End(e) /\ Rest

\* The participants are read back; the page is told of a failure when they
\* are not those it sent, or when they cannot be read.
Reports(e) == e.stage = "saved" /\ End(e) /\ Rest
-----------------------------------------------------------------------------
\* ews_delete_event, ews_cancel_event and ews_respond_to_invitation.  For a
\* series the two last look its master up first.
Call(what, i, series) ==
  /\ i \in DOMAIN seen /\ Cardinality(edits \cup calls) < Parallel
  /\ calls' = calls \cup {[what |-> what, item |-> i, series |-> series,
                stage |-> IF series /\ what # "delete" THEN "resolve" ELSE "send"]}
  /\ UNCHANGED <<item, master, seen, listing, edits, writes>>
Resolve(c) == /\ c.stage = "resolve" /\ c.item \in DOMAIN item
              /\ calls' = (calls \ {c}) \cup {[c EXCEPT !.stage = "send"]}
              /\ UNCHANGED <<item, master, seen, listing, edits, writes>>
Target(c) == IF c.series THEN InCalendar ELSE {c.item} \cap DOMAIN item

\* Exchange moves a deleted, a cancelled and a declined meeting to the deleted
\* items; a declined one is moved back, which may fail.
Send(c) == /\ c.stage = "send" /\ Target(c) # {}
           /\ IF c.what = "accept" THEN UNCHANGED item ELSE Remove(Target(c), "deleted")
           /\ calls' = (calls \ {c}) \cup (IF c.what = "decline" THEN {[c EXCEPT !.stage = "back"]} ELSE {})
           /\ UNCHANGED <<master, seen, listing, edits, writes>>
MoveBack(c) == /\ c.stage = "back" /\ calls' = calls \ {c}
               /\ Remove(IF c.series THEN DOMAIN item ELSE {c.item}, "calendar")
               /\ UNCHANGED <<master, seen, listing, edits, writes>>
CallFails(c) == /\ calls' = calls \ {c}
                /\ UNCHANGED <<item, master, seen, listing, edits, writes>>

Next == \/ OtherWrites \/ \E i \in Items : OtherDeletes(i)
        \/ FindItems
        \/ listing # <<>> /\ (Listed \/ \E C \in Chunks : GetItems(C) \/ GetItemsFails(C))
        \/ \E i \in Items, series \in BOOLEAN :
             Edit(i, series) \/ \E what \in {"delete", "cancel", "accept", "decline"} : Call(what, i, series)
        \/ \E e \in edits : Verify(e) \/ GetMaster(e) \/ Update(e) \/ Refused(e) \/ Reports(e)
        \/ \E c \in calls : Resolve(c) \/ Send(c) \/ MoveBack(c) \/ CallFails(c)

Spec == Init /\ [][Next]_vars
-----------------------------------------------------------------------------
TypeOK == /\ DOMAIN item \subseteq Items /\ master \in 0..writes /\ writes \in 0..MaxWrites
          /\ \A i \in DOMAIN item : item[i].key \in 0..writes /\ item[i].folder \in {"calendar", "deleted"}

\* An edit that reaches an item replaces the value its user saw, or one
\* written after the edit began: a change made before is never overwritten
\* unseen, even when the listing and the lookups ran across other writes
\* (ews/calendar.rs:154, 196).
NothingUnseenReplaced ==
  \A e \in edits : e.stage = "update" /\ e.item \in DOMAIN item =>
    LET now == item[e.item].value
        lets == IF e.series THEN master = e.key ELSE item[e.item].key = e.seen.key
    IN lets => now = e.seen.value \/ now > e.began
=============================================================================
