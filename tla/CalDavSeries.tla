---------------------------- MODULE CalDavSeries ----------------------------
(***************************************************************************)
(* One recurring event of a CalDAV calendar                                *)
(* (frontend/src/features/calendar/utils/nextcloudCalendarApi.ts): a       *)
(* resource holds the series and the occurrences that differ from it, each *)
(* under its recurrence-id, the time the rule gives it.  A call reads the  *)
(* resource, changes it and writes it back, whatever was written meanwhile.*)
(* Times are small numbers; call n writes the title n.                     *)
(***************************************************************************)
EXTENDS Integers, Sequences

CONSTANTS Slots,     \* number of occurrences the rule gives
          Times,     \* the times an occurrence can be moved to
          MaxCalls   \* calls made

VARIABLES file,    \* the resource: <<>>, or the series and its exceptions
          seen,    \* the occurrences of the last listing, in order
          changes, \* calls that have read the resource
          made     \* calls made

vars == <<file, seen, changes, made>>

\* An occurrence like the series, under a recurrence-id.
Like(series, id, start) == [id |-> id, start |-> start, title |-> series.title,
                            reply |-> series.reply, cancelled |-> series.cancelled]

\* Occurrence k of a resource: its rule time, and the last exception
\* registered under it.
RuleTime(f, k) == f.series.start + k - 1
Exceptions(f, id) == {i \in DOMAIN f.exceptions : f.exceptions[i].id = id}
First(is) == CHOOSE i \in is : \A j \in is : i <= j
Latest(is) == CHOOSE i \in is : \A j \in is : j <= i
Occurrence(f, k) ==
  LET t == RuleTime(f, k)  own == Exceptions(f, t)
  IN IF own = {} THEN Like(f.series, t, t) ELSE f.exceptions[Latest(own)]
Listed(f) == IF f = <<>> THEN <<>> ELSE [k \in 1..Slots |-> Occurrence(f[1], k)]

Init == /\ file = <<[series |-> [start |-> 0, title |-> 0, reply |-> 0, cancelled |-> FALSE], exceptions |-> <<>>]>>
        /\ seen = Listed(file) /\ changes = {} /\ made = 0

\* Any call starts by reading the resource; an edit chooses a new start.
Read(what, scope, k, to) ==
  /\ made < MaxCalls /\ made' = made + 1 /\ file # <<>> /\ k \in DOMAIN seen
  /\ changes' = changes \cup {[n |-> made + 1, what |-> what, scope |-> scope, event |-> seen[k], to |-> to, copy |-> file[1]]}
  /\ UNCHANGED <<file, seen>>

\* updateNextcloudEvent: the series moves as far as the occurrence did; one
\* occurrence is changed under its recurrence-id, as an exception found or
\* made of the series.
UpdatedSeries(c) == [c.copy EXCEPT !.series.start = @ + c.to - c.event.start, !.series.title = c.n]
Edited(x, c) == [x EXCEPT !.start = c.to, !.title = c.n]

\* A slip: the exception is found under the time the occurrence is shown at.
UpdatedAtStart(c) ==
  LET found == Exceptions(c.copy, c.event.start)
  IN IF found = {}
     THEN [c.copy EXCEPT !.exceptions = Append(@, Edited(Like(c.copy.series, c.event.start, c.to), c))]
     ELSE [c.copy EXCEPT !.exceptions[First(found)] = Edited(@, c)]

UpdatedOne(c) ==
  LET found == Exceptions(c.copy, c.event.id)
  IN IF found = {}
     THEN [c.copy EXCEPT !.exceptions = Append(@, Edited(Like(c.copy.series, c.event.id, c.to), c))]
     ELSE [c.copy EXCEPT !.exceptions[First(found)] = Edited(@, c)]

\* cancelNextcloudEvent: one occurrence is cancelled by a new exception, under
\* the start it was shown at.
CancelledSeries(c) == [c.copy EXCEPT !.series.cancelled = TRUE]
CancelledOne(c) ==
  [c.copy EXCEPT !.exceptions =
     Append(@, [Like(c.copy.series, c.event.start, c.event.start) EXCEPT !.cancelled = TRUE])]

\* respondToNextcloudEvent: the first event of the resource, the series.
Replied(c) == [c.copy EXCEPT !.series.reply = c.n]

Written(c) == CASE c.what = "update" /\ c.scope = "all" -> UpdatedSeries(c)
                [] c.what = "update" -> UpdatedOne(c)
                [] c.what = "cancel" /\ c.scope = "all" -> CancelledSeries(c)
                [] c.what = "cancel" -> CancelledOne(c)
                [] OTHER -> Replied(c)

Put(c) == /\ file' = <<Written(c)>> /\ changes' = changes \ {c} /\ UNCHANGED <<seen, made>>

\* deleteNextcloudEvent: the resource, whichever occurrence was chosen.
Delete == /\ made < MaxCalls /\ made' = made + 1 /\ file # <<>> /\ file' = <<>>
          /\ UNCHANGED <<seen, changes>>

\* The request fails: nothing is written.
PutFails(c) == changes' = changes \ {c} /\ UNCHANGED <<file, seen, made>>

\* loadCalDavCalendar and parseICS.
List == seen # Listed(file) /\ seen' = Listed(file) /\ UNCHANGED <<file, changes, made>>

Next == \/ \E scope \in {"this", "all"}, k \in 1..Slots :
             \/ \E to \in Times : Read("update", scope, k, to)
             \/ Read("cancel", scope, k, 0) \/ Read("respond", scope, k, 0)
        \/ \E c \in changes : Put(c) \/ PutFails(c)
        \/ Delete \/ List

Spec == Init /\ [][Next]_vars
-----------------------------------------------------------------------------
TypeOK == /\ made \in 0..MaxCalls /\ Len(file) <= 1
          /\ \A c \in changes : c.n \in 1..made

Touches(c, k) == Occurrence(c.copy, k) # Occurrence(Written(c), k)

\* Changing one occurrence changes that one and no other, whatever it and the
\* series went through before (updateNextcloudEvent).
EditTouchesOne ==
  \A c \in changes : c.what = "update" /\ c.scope = "this" =>
    \A k \in 1..Slots : Touches(c, k) => RuleTime(c.copy, k) = c.event.id
=============================================================================
