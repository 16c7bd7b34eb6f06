--------------------------- MODULE CalendarEdits ---------------------------
(***************************************************************************)
(* What the calendar page shows while calls are under way                  *)
(* (frontend/src/features/calendar/hooks/useCalendarLogic.ts): the list a  *)
(* provider hook holds, the events hidden because they are being deleted,  *)
(* the values shown before the server has them and the event being         *)
(* created.  An edit, a reply or a deletion changes the screen first,      *)
(* calls the server, lists the calendar again and then drops its marks;    *)
(* the next one does not wait for it.                                      *)
(* Call n writes the value n, so a value names the call it comes from.     *)
(***************************************************************************)
EXTENDS Naturals, Sequences, FiniteSets, Functions

CONSTANTS Events,      \* events of the calendar at the start
          Recurring,   \* those that are occurrences of one series
          New,         \* the event this page may create
          MaxCalls,    \* calls of the user
          MaxLists     \* listings under way at once

VARIABLES kind,      \* "google", "nextcloud" or "exchange"
          server,    \* the events of the server
          list,      \* the events of the provider hook
          cached,    \* the events of its last successful listing
          deleted,   \* deletedEventIds
          updated,   \* optimisticUpdated
          temp,      \* optimisticCreated: the call, or 0
          form,      \* the edit form: <<>>, or its event, the value it was opened with, and the call that saves it
          asking,    \* the recurring-event dialog: <<>>, or the call it is for and the events seen
          calls,     \* the calls made, in order
          lists      \* listings under way: the call they follow, the cache they found, and the answer

vars == <<kind, server, list, cached, deleted, updated, temp, form, asking, calls, lists>>

Old == [title |-> 0, reply |-> 0, cancelled |-> 0]
Last == Len(calls)
Without(f, ids) == Restrict(f, DOMAIN f \ ids)
Over(f, g) == [e \in DOMAIN f \cup DOMAIN g |-> IF e \in DOMAIN f THEN f[e] ELSE g[e]]

Init == /\ kind \in {"google", "nextcloud", "exchange"}
        /\ server = [e \in Events |-> Old] /\ list = server /\ cached = server
        /\ deleted = {} /\ updated = <<>> /\ temp = 0
        /\ form = <<>> /\ asking = <<>> /\ calls = <<>> /\ lists = {}
-----------------------------------------------------------------------------
\* The events of the page.
Shown == DOMAIN list \ deleted
Screen == [e \in Shown |-> IF e \in DOMAIN updated THEN updated[e] ELSE list[e]]

\* The recurring-event dialog leaves nothing else to act on, the edit form
\* only itself; it can be closed at any time.  At most MaxCalls calls.
Idle == form = <<>> /\ asking = <<>> /\ Last < MaxCalls

Hides(what) == what = "delete" \/ (what = "cancel" /\ kind = "exchange")
Field(what) == CASE what \in {"edit", "form"} -> "title" [] what = "rsvp" -> "reply" [] OTHER -> "cancelled"

\* The events the server changes: a CalDAV deletion removes the resource, and
\* a reply marks its first event, which is the series.
On(what, scope, e) ==
  IF e \in Recurring /\ (scope = "all" \/ (kind = "nextcloud" /\ what \in {"delete", "rsvp"}))
  THEN Recurring ELSE {e}

\* A call starts: its marks on the events "ids", as seen when it was prepared.
Begin(what, ids, on, seen) ==
  /\ Last < MaxCalls
  /\ calls' = Append(calls, [what |-> what, ids |-> ids, on |-> on, stage |-> "sent"])
  /\ IF Hides(what)
     THEN deleted' = deleted \cup ids /\ UNCHANGED updated
     ELSE /\ updated' = Over([e \in ids \cap DOMAIN seen |-> [seen[e] EXCEPT ![Field(what)] = Last + 1]], updated)
          /\ UNCHANGED deleted
  /\ UNCHANGED <<kind, server, list, cached, temp, lists>>

StartEdit(e) == /\ Idle /\ form' = <<e, Screen[e], 0>>
                /\ UNCHANGED <<kind, server, list, cached, deleted, updated, temp, asking, calls, lists>>

\* handleSaveEvent, from the form: of the occurrence or of its series.
SubmitForm(scope) ==
  /\ form # <<>> /\ form[3] = 0
  /\ LET e == form[1]
     IN Begin("form", {e}, On("form", scope, e), [x \in {e} |-> form[2]])
  /\ form' = [form EXCEPT ![3] = Last + 1]
  /\ UNCHANGED asking

CloseForm == /\ form # <<>> /\ form' = <<>>
             /\ UNCHANGED <<kind, server, list, cached, deleted, updated, temp, asking, calls, lists>>

\* An event dragged on the grid ("edit"), handleRsvp, handleDeleteEvent and
\* handleCancelEvent: an occurrence asks for the scope, and goes on with the
\* events it had seen before it asked.
Act(what, e) ==
  /\ Idle
  /\ IF e \in Recurring
     THEN /\ asking' = <<[what |-> what, event |-> e, seen |-> Screen]>>
          /\ UNCHANGED <<kind, server, list, cached, deleted, updated, temp, calls, lists>>
     ELSE Begin(what, {e}, {e}, Screen) /\ UNCHANGED asking
  /\ UNCHANGED form

Choose(scope) ==
  /\ asking # <<>> /\ asking' = <<>>
  /\ LET a == asking[1]
         series == Recurring \cap DOMAIN a.seen
     IN CASE scope = "none" -> UNCHANGED <<kind, server, list, cached, deleted, updated, temp, calls, lists>>
          [] OTHER -> Begin(a.what, IF scope = "this" \/ a.what = "edit" THEN {a.event} ELSE series,
                            On(a.what, scope, a.event), a.seen)
  /\ UNCHANGED form

\* handleSaveEvent, of a new event; one event is created.
Create == /\ Idle /\ \A c \in DOMAIN calls : calls[c].what # "create"
          /\ temp' = Last + 1
          /\ calls' = Append(calls, [what |-> "create", ids |-> {New}, on |-> {New}, stage |-> "sent"])
          /\ UNCHANGED <<kind, server, list, cached, deleted, updated, form, asking, lists>>
-----------------------------------------------------------------------------
\* The server carries out a call, or refuses it.
Value(c, e) == [server[e] EXCEPT ![Field(calls[c].what)] = c]
Created(c) == Over([e \in {New} |-> [Old EXCEPT !.title = c]], server)
Edited(c) == Over([e \in calls[c].on \cap DOMAIN server |-> Value(c, e)], server)
Removed(c) == Without(server, calls[c].on)
Applied(c) == CASE calls[c].what = "create" -> Created(c)
                [] Hides(calls[c].what) -> Removed(c)
                [] OTHER -> Edited(c)

Serve(c) == /\ calls[c].stage = "sent"
            /\ \/ server' = Applied(c) /\ calls' = [calls EXCEPT ![c].stage = "done"]
               \/ UNCHANGED server /\ calls' = [calls EXCEPT ![c].stage = "refused"]
            /\ UNCHANGED <<kind, list, cached, deleted, updated, temp, form, asking, lists>>

\* Slips: a failed call that leaves its marks; a call that drops them at its
\* end only when it is an edit.
KeepMarks(c) == UNCHANGED <<updated, deleted, temp>>
\* Every mark on the events of a call goes, whichever call set it.
Unmark(c) == LET call == calls[c]
             IN /\ updated' = IF Hides(call.what) THEN updated ELSE Without(updated, call.ids)
                /\ deleted' = IF Hides(call.what) THEN deleted \ call.ids ELSE deleted
                /\ temp' = IF call.what = "create" THEN 0 ELSE temp

\* A listing starts.  Exchange lets go of the one under way, and the calls
\* that waited for it go on; the others show their cache first.
Lists(c) == /\ kind # "exchange" => Cardinality(lists) < MaxLists
            /\ lists' = (IF kind = "exchange" THEN {} ELSE lists)
                          \cup {[after |-> c, stale |-> cached, answer |-> <<>>]}
            /\ list' = IF kind = "exchange" THEN list ELSE cached
Staged(c, stage) ==
  LET released == IF kind = "exchange" THEN {l.after : l \in lists} ELSE {}
  IN [d \in DOMAIN calls |-> IF d = c THEN [calls[d] EXCEPT !.stage = stage]
                             ELSE IF d \in released THEN [calls[d] EXCEPT !.stage = "listed"] ELSE calls[d]]

\* The call failed, or its answer was lost: its marks go.
Fail(c) == /\ calls[c].stage \in {"done", "refused"} /\ Unmark(c)
           /\ calls' = [calls EXCEPT ![c].stage = IF @ = "done" THEN "lost" ELSE "failed"]
           /\ form' = IF form # <<>> /\ form[3] = c THEN [form EXCEPT ![3] = 0] ELSE form
           /\ UNCHANGED <<kind, server, list, cached, asking, lists>>

\* Exchange does not know the event any more: it stays hidden.
Missing(c) == /\ kind = "exchange" /\ Hides(calls[c].what) /\ calls[c].stage = "refused"
              /\ calls[c].on \cap DOMAIN server = {}
              /\ Lists(0) /\ calls' = Staged(c, "missing")
              /\ UNCHANGED <<kind, server, cached, deleted, updated, temp, form, asking>>

\* The call succeeded.  A reply to Exchange patches the list; any other call
\* lists the calendar again, and a form closes, whichever is open by now.
Patch(c) == /\ calls[c].stage = "done" /\ calls[c].what = "rsvp" /\ kind = "exchange"
            /\ list' = Over([e \in calls[c].ids \cap DOMAIN list |-> [list[e] EXCEPT !.reply = c]], list)
            /\ updated' = Without(updated, calls[c].ids)
            /\ calls' = [calls EXCEPT ![c].stage = "ended"]
            /\ UNCHANGED <<kind, server, cached, deleted, temp, form, asking, lists>>

Succeed(c) == /\ calls[c].stage = "done" /\ ~(calls[c].what = "rsvp" /\ kind = "exchange")
              /\ form' = IF calls[c].what = "form" THEN <<>> ELSE form
              /\ Lists(c) /\ calls' = Staged(c, "listing")
              /\ UNCHANGED <<kind, server, cached, deleted, updated, temp, asking>>

\* refresh, from the header; one at a time.
Refresh == /\ \A l \in lists : l.after # 0
           /\ Lists(0) /\ calls' = Staged(0, "listing")
           /\ UNCHANGED <<kind, server, cached, deleted, updated, temp, form, asking>>

AnswerList(l) == /\ l.answer = <<>> /\ lists' = (lists \ {l}) \cup {[l EXCEPT !.answer = <<server>>]}
                 /\ UNCHANGED <<kind, server, list, cached, deleted, updated, temp, form, asking, calls>>

\* A listing ends.  When it fails, the events of a Google calendar leave the
\* page, those of a CalDAV one are what the cache held when it started.
EndList(l) ==
  /\ lists' = lists \ {l}
  /\ calls' = IF l.after = 0 THEN calls ELSE [calls EXCEPT ![l.after].stage = "listed"]
  /\ \/ l.answer # <<>> /\ list' = l.answer[1] /\ cached' = list'
     \/ /\ list' = CASE kind = "google" -> <<>> [] kind = "nextcloud" -> l.stale [] OTHER -> list
        /\ UNCHANGED cached
  /\ UNCHANGED <<kind, server, deleted, updated, temp, form, asking>>

\* The call goes on after its listing and drops its marks, except a reply.
Finish(c) == /\ calls[c].stage = "listed" /\ calls' = [calls EXCEPT ![c].stage = "ended"]
             /\ IF calls[c].what = "rsvp" THEN UNCHANGED <<updated, deleted, temp>> ELSE Unmark(c)
             /\ UNCHANGED <<kind, server, list, cached, form, asking, lists>>

Next == \/ \E e \in Shown : StartEdit(e)
        \/ \E scope \in {"this", "all"} : SubmitForm(scope)
        \/ CloseForm \/ Create \/ Refresh
        \/ \E e \in Shown, what \in {"edit", "rsvp", "delete", "cancel"} : Act(what, e)
        \/ \E scope \in {"this", "all", "none"} : Choose(scope)
        \/ \E c \in DOMAIN calls : Serve(c) \/ Fail(c) \/ Missing(c) \/ Patch(c) \/ Succeed(c) \/ Finish(c)
        \/ \E l \in lists : AnswerList(l) \/ EndList(l)

Spec == Init /\ [][Next]_vars
-----------------------------------------------------------------------------
Titles == 0..MaxCalls
Values == [title : Titles, reply : Titles, cancelled : Titles]
Known == Events \cup {New}
IsList(f) == DOMAIN f \subseteq Known /\ \A e \in DOMAIN f : f[e] \in Values
TypeOK == /\ IsList(server) /\ IsList(list) /\ IsList(cached) /\ IsList(updated)
          /\ deleted \subseteq Known /\ temp \in Titles
          /\ Last <= MaxCalls /\ form # <<>> => form[3] \in 0..Last
          /\ \A l \in lists : l.after \in 0..Last /\ IsList(l.stale)

\* An edit the server refused is not on the page once its failure was
\* reported, whatever ran over it and whatever copied the values it had shown
\* (useCalendarLogic.ts, handleSaveEvent and handleRsvp).  An occurrence is
\* left out: a reply prepared before its dialog can bring the value back.
FailedNotShown ==
  \A e \in Shown \ Recurring, c \in DOMAIN calls :
    calls[c].stage = "failed" => Screen[e].title # c
=============================================================================
