---------------------------- MODULE CalDavTasks ----------------------------
(***************************************************************************)
(* Changing a CalDAV task from several clients                             *)
(* (frontend/src/features/calendar/utils/caldavTaskApi.ts, the form of     *)
(* CalDavTaskEditModal.tsx, and tasks dragged on the grid of               *)
(* useCalendarLogic.ts).  A client saves what it loaded: it reads the      *)
(* resource again, gives up when the version is another one, and writes    *)
(* under the condition that it is still the one it read.                   *)
(* Save n writes the value n.                                              *)
(***************************************************************************)
EXTENDS Naturals, FiniteSets

CONSTANTS Clients, MaxSaves

VARIABLES task,    \* the resource: its version, its value, whether the task is done
          shown,   \* what each client listed: <<>>, or the task
          form,    \* the edit form of each client: <<>>, or its source and state
          saves,   \* saves under way
          saved    \* saves made

vars == <<task, shown, form, saves, saved>>

Open(t) == ~t.done
Init == /\ task = [etag |-> 0, value |-> 0, done |-> FALSE]
        /\ shown = [c \in Clients |-> <<task>>] /\ form = [c \in Clients |-> <<>>]
        /\ saves = {} /\ saved = 0

\* A listing; a completed task is not part of it.
List(c) == /\ shown' = [shown EXCEPT ![c] = IF Open(task) THEN <<task>> ELSE <<>>]
           /\ UNCHANGED <<task, form, saves, saved>>

\* The form opens on what is listed.
OpenForm(c) == /\ shown[c] # <<>> /\ form[c] = <<>>
               /\ form' = [form EXCEPT ![c] = <<[source |-> shown[c][1], state |-> "open"]>>]
               /\ UNCHANGED <<task, shown, saves, saved>>
Close(c) == /\ form[c] # <<>> /\ form[c][1].state # "busy" /\ form' = [form EXCEPT ![c] = <<>>]
            /\ UNCHANGED <<task, shown, saves, saved>>

Save(c, how, source, done) ==
  /\ saved < MaxSaves /\ saved' = saved + 1
  /\ saves' = saves \cup {[n |-> saved + 1, by |-> c, how |-> how, source |-> source, done |-> done, stage |-> "sent", etag |-> 0]}

Submit(c, done) ==
  /\ form[c] # <<>> /\ form[c][1].state = "open"
  /\ Save(c, "form", form[c][1].source, done)
  /\ form' = [form EXCEPT ![c][1].state = "busy"] /\ UNCHANGED <<task, shown>>

\* A task dragged on the grid; one move of it at a time.
Drag(c) == /\ shown[c] # <<>> /\ form[c] = <<>> /\ ~\E s \in saves : s.by = c /\ s.how = "drag"
           /\ Save(c, "drag", shown[c][1], FALSE) /\ UNCHANGED <<task, shown, form>>

\* How a save ends: the form says so, a drag lists the tasks again.
End(s, state) ==
  /\ saves' = saves \ {s}
  /\ IF s.how = "form" THEN /\ form' = [form EXCEPT ![s.by][1].state = state]
                            /\ shown' = IF state = "saved" THEN [shown EXCEPT ![s.by] = IF Open(task') THEN <<task'>> ELSE <<>>]
                                        ELSE shown
     ELSE /\ shown' = [shown EXCEPT ![s.by] = IF Open(task') THEN <<task'>> ELSE <<>>] /\ UNCHANGED form

\* updateCalDavTask: read, compare, write.
Fetch(s) == /\ s.stage = "sent"
            /\ IF task.etag = s.source.etag
               THEN saves' = (saves \ {s}) \cup {[s EXCEPT !.stage = "read", !.etag = task.etag]} /\ UNCHANGED <<task, shown, form>>
               ELSE UNCHANGED task /\ End(s, "conflict")
            /\ UNCHANGED saved

\* A slip: a write without a condition.
PutAnyway(s) == /\ s.stage = "read"
                /\ task' = [etag |-> s.n, value |-> s.n, done |-> s.done] /\ End(s, "saved")
                /\ UNCHANGED saved

Put(s) == /\ s.stage = "read"
          /\ IF task.etag = s.etag
             THEN task' = [etag |-> s.n, value |-> s.n, done |-> s.done] /\ End(s, "saved")
             ELSE UNCHANGED task /\ End(s, "conflict")
          /\ UNCHANGED saved

\* A request fails, or its answer is lost after the write.
Fails(s) == UNCHANGED task /\ End(s, "open") /\ UNCHANGED saved
AnswerLost(s) == /\ s.stage = "read" /\ task.etag = s.etag
                 /\ task' = [etag |-> s.n, value |-> s.n, done |-> s.done]
                 /\ End(s, "open") /\ UNCHANGED saved

\* reloadCalDavTask: the form starts again from the server's version.
Reload(c) == /\ form[c] # <<>> /\ form[c][1].state = "conflict" /\ Open(task)
             /\ form' = [form EXCEPT ![c] = <<[source |-> task, state |-> "open"]>>]
             /\ UNCHANGED <<task, shown, saves, saved>>

Next == \/ \E c \in Clients : List(c) \/ OpenForm(c) \/ Close(c) \/ Drag(c) \/ Reload(c)
                              \/ \E done \in BOOLEAN : Submit(c, done)
        \/ \E s \in saves : Fetch(s) \/ Put(s) \/ Fails(s) \/ AnswerLost(s)

Spec == Init /\ [][Next]_vars
-----------------------------------------------------------------------------
States == {"open", "busy", "conflict", "saved"}
TypeOK == /\ saved \in 0..MaxSaves /\ task.value \in 0..saved
          /\ \A c \in Clients : form[c] # <<>> => form[c][1].state \in States

\* A save replaces the version its user had before them, never a change made
\* by another client since (README.md:22, "a conflict blocks the write").
ReplacesSeen == task' # task => \E s \in saves : task'.value = s.n /\ s.source = task
OnlySeenReplaced == [][ReplacesSeen]_vars
=============================================================================
