--------------------------- MODULE ServicesProofs ---------------------------
(***************************************************************************)
(* Theorems about the parts of MCServices, for every value of their        *)
(* constants: saves of a task, the snapshot of the query cache, the OAuth  *)
(* credentials, the invitation card, the continuous listener, the calendar *)
(* mirror, events of Exchange, CalDAV series, the calendar page and the    *)
(* opening of a notification.                                              *)
(***************************************************************************)
EXTENDS MCServices, Integers, SequenceTheorems, WellFoundedInduction, TLAPS

(* The variables of QuerySnapshots by their own names.                      *)
phase == v1
timer == v2
saving == v3
dirty == v4
pending == v5
queue == v6
removals == v7
store == v8
requested == v9
removed == v10
mounts == v11

(* Those of Credentials.                                                    *)
kind == v1
server == v2
account == v3
screen == v4
ref == v5
asked == v6
told == v7
held == v8
record == v9
stored == v10
known == v11
import == v12
push == v13
pass == v14
writes == v15
mixed == v16
steps == v17

(* Those of Invitation: calendar is its server.                             *)
method == v2
calendar == v3
listed == v4
action == v5
override == v6
accepted == v7
success == v8
agreed == v9
there == v10
made == v11
others == v12

(* Those of CalendarMirror: origin, current, hooks, sent, payloads and       *)
(* launches are its source, loaded, runs, last, queue and started.          *)
origin == v1
cache == v2
selected == v3
current == v4
errors == v5
hooks == v6
sent == v7
again == v8
payloads == v9
job == v10
device == v11
launches == v12

(* Those of ExchangeCalendar: mailbox, latest, displayed, reads, edited,     *)
(* requests and versions are its item, master, seen, listing, edits, calls  *)
(* and writes.                                                              *)
mailbox == v1
latest == v2
displayed == v3
reads == v4
edited == v5
requests == v6
versions == v7

(* Those of ContinuousListener: configuring is its asked.                   *)
modes == v1
running == v2
configuring == v3
starts == v4
reading == v5
jobs == v6
network == v7
active == v8
news == v9
heard == v10
unsynced == v11
stranded == v12
networks == v13
turns == v14

(* Those of CalendarEdits: entries, lastList, hidden, marks, creating,      *)
(* editor, asksScope, userCalls and reloads are its list, cached, deleted,  *)
(* updated, temp, form, asking, calls and lists.                           *)
entries == v3
lastList == v4
hidden == v5
marks == v6
creating == v7
editor == v8
asksScope == v9
userCalls == v10
reloads == v11

(* Those of CalDavSeries: resource, occurrences and callsMade are its file, *)
(* seen and made.                                                          *)
resource == v1
occurrences == v2
changes == v3
callsMade == v4

USE DEF entries, lastList, hidden, marks, creating, editor, asksScope, userCalls, reloads
USE DEF resource, occurrences, changes, callsMade
USE DEF modes, running, configuring, starts, reading, jobs, network, active, news, heard, unsynced,
        stranded, networks, turns
USE DEF origin, cache, selected, current, errors, hooks, sent, again, payloads, job, device, launches
USE DEF mailbox, latest, displayed, reads, edited, requests, versions
USE DEF method, calendar, listed, action, override, accepted, success, agreed, there, made, others
USE DEF phase, timer, saving, dirty, pending, queue, removals, store, requested, removed, mounts
USE DEF kind, server, account, screen, ref, asked, told, held, record, stored, known, import, push,
        pass, writes, mixed, steps

----------------------------------------------------------------------------
(* The part chosen at first is the one that moves.                          *)
LEMMA PartStays == [MCNext]_allVars => part' = part
  BY DEF MCNext, EditsStep, SeriesStep, TasksStep, ExchangeStep, MirrorStep, CardStep, OauthStep,
         SnapshotsStep, OpeningStep, ListenerStep, allVars

LEMMA PartsStart ==
    ASSUME MCInit
    PROVE  /\ part = "snapshots" => Snapshots!Init
           /\ part = "oauth" => Oauth!Init
           /\ part = "card" => Card!Init
           /\ part = "opening" => Opening!Init
           /\ part = "listener" => Listener!Init
           /\ part = "exchange" => Exchange!Init
           /\ part = "mirror" => Mirror!Init
           /\ part = "series" => Series!Init
           /\ part = "edits" => Edits!Init
  BY DEF MCInit, Others

LEMMA PartsStep ==
    ASSUME [MCNext]_allVars
    PROVE  /\ part = "snapshots" => [Snapshots!Next]_(Snapshots!vars)
           /\ part = "oauth" => [Oauth!Next]_(Oauth!vars)
           /\ part = "card" => [Card!Next]_(Card!vars)
           /\ part = "opening" => [Opening!Next]_(Opening!vars)
           /\ part = "listener" => [Listener!Next]_(Listener!vars)
           /\ part = "exchange" => [Exchange!Next]_(Exchange!vars)
           /\ part = "mirror" => [Mirror!Next]_(Mirror!vars)
           /\ part = "series" => [Series!Next]_(Series!vars)
           /\ part = "edits" => [Edits!Next]_(Edits!vars)
  <1>1. CASE MCNext
    BY <1>1 DEF MCNext, EditsStep, SeriesStep, TasksStep, ExchangeStep, MirrorStep, CardStep,
                OauthStep, SnapshotsStep, OpeningStep, ListenerStep
  <1>2. CASE UNCHANGED allVars
    <2>1. UNCHANGED all
      BY <1>2 DEF allVars
    <2> QED BY <2>1 DEF all, after4, after7, after11, after12, after13, Snapshots!vars, Oauth!vars,
                      Card!vars, Card!card, Card!facts, Opening!vars, Listener!vars, Mirror!vars,
                      Mirror!app, Mirror!memory, Mirror!counts, Exchange!vars, Series!vars, Edits!vars
  <1> QED BY <1>1, <1>2

----------------------------------------------------------------------------
(* CalDavTasks: saves of a task, for every number of clients and of saves.   *)

(* What a client has of the task: listed, in its form, or being saved.      *)
Task == [etag : Nat, value : Nat, done : BOOLEAN]
Form == [source : Task, state : States]
SaveType == [n : Nat, by : Clients, how : {"form", "drag"}, source : Task, done : BOOLEAN,
             stage : {"sent", "read"}, etag : Nat]
Optional(S) == {<<>>} \cup {<<x>> : x \in S}

TaskTypes == /\ task \in Task /\ saved \in Nat
             /\ shown \in [Clients -> Optional(Task)]
             /\ form \in [Clients -> Optional(Form)]
             /\ saves \subseteq SaveType

(* A copy is no newer than the task, is the task when it has its version,   *)
(* and has no version that a save under way is about to give.               *)
Copied(t) == /\ t.etag <= saved
             /\ t.etag = task.etag => t = task
             /\ \A s \in saves : s.n # t.etag

(* A version names one content; each save under way gives one of its own.   *)
VersionInv ==
  /\ TaskTypes
  /\ Copied(task)
  /\ \A c \in Clients : \A t \in Task : shown[c] = <<t>> => Copied(t)
  /\ \A c \in Clients : \A f \in Form : form[c] = <<f>> => Copied(f.source)
  /\ \A s \in saves : /\ Copied(s.source) /\ s.n <= saved
                      /\ s.stage = "read" => s.etag = s.source.etag
  /\ \A s, r \in saves : s.n = r.n => s = r

LEMMA InitVersions == Init => VersionInv
  <1> SUFFICES ASSUME Init PROVE VersionInv
    OBVIOUS
  <1>1. task \in Task /\ task.etag = 0 /\ saves = {} /\ saved = 0
    BY DEF Init, Task
  <1>2. Copied(task)
    BY <1>1 DEF Copied
  <1>3. \A c \in Clients : shown[c] = <<task>> /\ form[c] = <<>>
    BY DEF Init
  <1>4. TaskTypes
    BY <1>1, <1>3 DEF Init, TaskTypes, Optional
  <1>5. \A t : <<task>> = <<t>> => t = task
    OBVIOUS
  <1>6. \A f : <<f>> # <<>>
    OBVIOUS
  <1> QED BY <1>1, <1>2, <1>3, <1>4, <1>5, <1>6 DEF VersionInv

(* Setting the state of a form.                                             *)
WithState(f, c, state) == [f EXCEPT ![c][1].state = state]
LEMMA StateSet ==
    ASSUME NEW f \in [Clients -> Optional(Form)], NEW c \in Clients, NEW state \in States
    PROVE  /\ WithState(f, c, state) \in [Clients -> Optional(Form)]
           /\ \A d \in Clients, x \in Form :
                WithState(f, c, state)[d] = <<x>> =>
                  \E y \in Form : f[d] = <<y>> /\ x.source = y.source
  <1> DEFINE g == WithState(f, c, state)
  <1>0. g = [f EXCEPT ![c][1].state = state]
    BY DEF WithState
  <1> HIDE DEF g
  <1>1. CASE f[c] = <<>>
    <2>1. g = f
      BY <1>0, <1>1
    <2> QED BY <2>1 DEF g
  <1>2. ASSUME NEW y \in Form, f[c] = <<y>>
        PROVE  g[c] = <<[y EXCEPT !.state = state]>>
    BY <1>0, <1>2
  <1>3. /\ g \in [Clients -> Optional(Form)]
        /\ \A d \in Clients, x \in Form : g[d] = <<x>> => \E y \in Form : f[d] = <<y>>
             /\ x.source = y.source
    BY <1>0, <1>1, <1>2 DEF Optional, Form
  <1> QED BY <1>3 DEF g

(* A save ends: what was a copy of the task before is one afterwards.       *)
LEMMA EndKeeps ==
    ASSUME VersionInv, NEW s \in saves, NEW state \in States, End(s, state), saved' = saved,
           task' \in Task, Copied(task)',
           \A t \in Task : Copied(t) => Copied(t)'
    PROVE  VersionInv'
  <1>1. saves' = saves \ {s}
    BY DEF End
  <1>2. s.by \in Clients /\ \A r \in saves : r.source \in Task
    BY DEF VersionInv, TaskTypes, SaveType
  <1>3. /\ form' \in [Clients -> Optional(Form)]
        /\ \A c \in Clients, f \in Form : form'[c] = <<f>> => Copied(f.source)'
    <2>1. CASE form' = form
      BY <2>1 DEF VersionInv, TaskTypes, Form
    <2>2. CASE form' = [form EXCEPT ![s.by][1].state = state]
      <3>0. form' = WithState(form, s.by, state)
        BY <2>2 DEF WithState
      <3>1. /\ form' \in [Clients -> Optional(Form)]
            /\ \A c \in Clients, f \in Form :
                 form'[c] = <<f>> => \E y \in Form : form[c] = <<y>> /\ f.source = y.source
        BY <1>2, <3>0, StateSet DEF VersionInv, TaskTypes
      <3>2. \A y \in Form : y.source \in Task
        BY DEF Form
      <3> QED BY <3>1, <3>2 DEF VersionInv
    <2> QED BY <2>1, <2>2 DEF End
  <1>4. /\ shown' \in [Clients -> Optional(Task)]
        /\ \A c \in Clients, t \in Task : shown'[c] = <<t>> => Copied(t)'
    <2>1. shown' = shown \/ \E x \in {<<task'>>, <<>>} : shown' = [shown EXCEPT ![s.by] = x]
      BY DEF End
    <2>2. \A t : <<task'>> = <<t>> => t = task'
      OBVIOUS
    <2>3. \A t : <<t>> # <<>>
      OBVIOUS
    <2>4. CASE shown' = shown
      BY <2>4 DEF VersionInv, TaskTypes
    <2>5. ASSUME NEW x \in {<<task'>>, <<>>}, shown' = [shown EXCEPT ![s.by] = x]
          PROVE  /\ shown' \in [Clients -> Optional(Task)]
                 /\ \A c \in Clients, t \in Task : shown'[c] = <<t>> => Copied(t)'
      <3>1. x \in Optional(Task) /\ \A t \in Task : x = <<t>> => Copied(t)'
        BY <2>2, <2>3 DEF Optional
      <3>2. shown \in [Clients -> Optional(Task)]
            /\ \A c \in Clients, t \in Task : shown[c] = <<t>> => Copied(t)'
        BY DEF VersionInv, TaskTypes
      <3> QED BY <1>2, <2>5, <3>1, <3>2
    <2> QED BY <2>1, <2>4, <2>5
  <1> QED BY <1>1, <1>2, <1>3, <1>4 DEF VersionInv, TaskTypes

(* Nothing is written: copies stay copies when saves end.                   *)
LEMMA GivenUp ==
    ASSUME VersionInv, NEW s \in saves, NEW state \in States, End(s, state), saved' = saved,
             task' = task
    PROVE  VersionInv'
  <1>1. saves' \subseteq saves
    BY DEF End
  <1>2. \A t \in Task : Copied(t) => Copied(t)'
    BY <1>1 DEF Copied
  <1>3. task' \in Task /\ Copied(task)'
    BY <1>1 DEF VersionInv, TaskTypes, Copied
  <1> QED BY <1>2, <1>3, EndKeeps

(* A save that writes gives the task a version nothing has.                 *)
LEMMA Written ==
    ASSUME VersionInv, NEW s \in saves, NEW state \in States, End(s, state), saved' = saved,
           task' = [etag |-> s.n, value |-> s.n, done |-> s.done]
    PROVE  VersionInv'
  <1>1. saves' = saves \ {s} /\ s.n \in Nat /\ s.done \in BOOLEAN /\ s.n <= saved
    BY DEF End, VersionInv, TaskTypes, SaveType
  <1>2. task' \in Task /\ task'.etag = s.n
    BY <1>1 DEF Task
  <1>3. \A t \in Task : Copied(t) => Copied(t)'
    BY <1>1, <1>2 DEF Copied
  <1>4. \A r \in saves' : r.n # s.n
    BY <1>1 DEF VersionInv
  <1>5. Copied(task)'
    BY <1>1, <1>2, <1>4 DEF Copied
  <1> QED BY <1>2, <1>3, <1>5, EndKeeps

(* A save begins, from a copy of the task.                                  *)
LEMMA SaveKeeps ==
    ASSUME VersionInv, NEW c \in Clients, NEW how \in {"form", "drag"}, NEW source \in Task,
             Copied(source),
           NEW done \in BOOLEAN, Save(c, how, source, done), task' = task, shown' = shown,
           form' \in [Clients -> Optional(Form)],
           \A d \in Clients, f \in Form :
             form'[d] = <<f>> => \E y \in Form : form[d] = <<y>> /\ f.source = y.source
    PROVE  VersionInv'
  <1> DEFINE s == [n |-> saved + 1, by |-> c, how |-> how, source |-> source, done |-> done,
                   stage |-> "sent", etag |-> 0]
  <1>1. saves' = saves \cup {s} /\ saved' = saved + 1 /\ saved \in Nat
    BY DEF Save, VersionInv, TaskTypes
  <1>2. s \in SaveType /\ s.n = saved + 1 /\ s.source = source /\ s.stage = "sent"
    BY <1>1 DEF SaveType
  <1> HIDE DEF s
  <1>3. \A t \in Task : Copied(t) => Copied(t)'
    BY <1>1, <1>2 DEF Copied, Task
  <1>4. \A r \in saves : r \in SaveType /\ r.source \in Task /\ r.n \in Nat /\ r.n <= saved
    BY DEF VersionInv, TaskTypes, SaveType
  <1>5. \A r, q \in saves' : r.n = q.n => r = q
    BY <1>1, <1>2, <1>4 DEF VersionInv
  <1>6. \A y \in Form : y.source \in Task
    BY DEF Form
  <1>7. TaskTypes'
    BY <1>1, <1>2 DEF VersionInv, TaskTypes
  <1>8. task \in Task /\ Copied(task)'
    BY <1>3 DEF VersionInv, TaskTypes
  <1>9. \A r \in saves' : /\ Copied(r.source)' /\ r.n <= saved'
                          /\ r.stage = "read" => r.etag = r.source.etag
    BY <1>1, <1>2, <1>3, <1>4 DEF VersionInv
  <1>10. \A d \in Clients : \A t \in Task : shown'[d] = <<t>> => Copied(t)'
    BY <1>3 DEF VersionInv
  <1>11. \A d \in Clients : \A f \in Form : form'[d] = <<f>> => Copied(f.source)'
    BY <1>3, <1>6 DEF VersionInv
  <1> QED BY <1>5, <1>7, <1>8, <1>9, <1>10, <1>11 DEF VersionInv

LEMMA StepKeepsVersions == VersionInv /\ [Next]_vars => VersionInv'
  <1> SUFFICES ASSUME VersionInv, [Next]_vars PROVE VersionInv'
    OBVIOUS
  <1>0. /\ task \in Task /\ Copied(task)
        /\ \A f, g : <<f>> = <<g>> => f = g
        /\ \A f : <<f>> # <<>> /\ <<f>>[1] = f
    BY DEF VersionInv, TaskTypes
  <1>1. ASSUME NEW c \in Clients, List(c) PROVE VersionInv'
    <2>1. PICK x \in {<<task>>, <<>>} : shown' = [shown EXCEPT ![c] = x]
      BY <1>1 DEF List
    <2>2. x \in Optional(Task) /\ \A t \in Task : x = <<t>> => Copied(t)
      BY <1>0, <2>1 DEF Optional
    <2>3. shown' \in [Clients -> Optional(Task)]
          /\ \A d \in Clients, t \in Task : shown'[d] = <<t>> => Copied(t)
      BY <2>1, <2>2 DEF VersionInv, TaskTypes
    <2> QED BY <1>1, <2>3 DEF List, VersionInv, TaskTypes, Copied
  <1>2. ASSUME NEW c \in Clients, OpenForm(c) \/ Close(c) \/ Reload(c) PROVE VersionInv'
    <2>1. PICK x : form' = [form EXCEPT ![c] = x] /\ x \in Optional(Form)
                   /\ \A f \in Form : x = <<f>> => Copied(f.source)
      <3>1. CASE OpenForm(c)
        <4>1. PICK t \in Task : shown[c] = <<t>>
          BY <3>1 DEF OpenForm, VersionInv, TaskTypes, Optional
        <4> DEFINE y == [source |-> t, state |-> "open"]
        <4>2. Copied(t) /\ form' = [form EXCEPT ![c] = <<y>>]
          BY <1>0, <3>1, <4>1 DEF OpenForm, VersionInv
        <4>3. y \in Form /\ y.source = t
          BY DEF Form, States
        <4> HIDE DEF y
        <4>4. <<y>> \in Optional(Form) /\ \A f \in Form : <<y>> = <<f>> => Copied(f.source)
          BY <1>0, <4>2, <4>3 DEF Optional
        <4> QED BY <4>2, <4>4
      <3>2. CASE Close(c)
        BY <1>0, <3>2 DEF Close, Optional
      <3>3. CASE Reload(c)
        <4> DEFINE y == [source |-> task, state |-> "open"]
        <4>1. form' = [form EXCEPT ![c] = <<y>>]
          BY <3>3 DEF Reload
        <4>2. y \in Form /\ y.source = task
          BY <1>0 DEF Form, States
        <4> HIDE DEF y
        <4>3. <<y>> \in Optional(Form) /\ \A f \in Form : <<y>> = <<f>> => Copied(f.source)
          BY <1>0, <4>2 DEF Optional
        <4> QED BY <4>1, <4>3
      <3> QED BY <1>2, <3>1, <3>2, <3>3
    <2>2. form' \in [Clients -> Optional(Form)]
          /\ \A d \in Clients, f \in Form : form'[d] = <<f>> => Copied(f.source)
      BY <2>1 DEF VersionInv, TaskTypes
    <2>3. UNCHANGED <<task, shown, saves, saved>>
      BY <1>2 DEF OpenForm, Close, Reload
    <2> QED BY <2>2, <2>3 DEF VersionInv, TaskTypes, Copied
  <1>3. ASSUME NEW c \in Clients, Drag(c) PROVE VersionInv'
    <2>1. PICK t \in Task : shown[c] = <<t>>
      BY <1>3 DEF Drag, VersionInv, TaskTypes, Optional
    <2>2. Copied(t) /\ Save(c, "drag", t, FALSE) /\ UNCHANGED <<task, shown, form>>
      BY <1>0, <1>3, <2>1 DEF Drag, VersionInv
    <2> QED BY <2>2, SaveKeeps DEF VersionInv, TaskTypes
  <1>4. ASSUME NEW c \in Clients, NEW done \in BOOLEAN, Submit(c, done) PROVE VersionInv'
    <2>1. PICK f \in Form : form[c] = <<f>>
      BY <1>4 DEF Submit, VersionInv, TaskTypes, Optional
    <2>2. Copied(f.source) /\ Save(c, "form", f.source, done) /\ UNCHANGED <<task, shown>>
      BY <1>0, <1>4, <2>1 DEF Submit, VersionInv
    <2>3. /\ form' \in [Clients -> Optional(Form)]
          /\ \A d \in Clients, g \in Form :
               form'[d] = <<g>> => \E y \in Form : form[d] = <<y>> /\ g.source = y.source
      <3>1. form' = WithState(form, c, "busy")
        BY <1>4 DEF Submit, WithState
      <3>2. /\ form \in [Clients -> Optional(Form)]
            /\ "busy" \in States
        BY DEF VersionInv, TaskTypes, States
      <3>3. /\ WithState(form, c, "busy") \in [Clients -> Optional(Form)]
            /\ \A d \in Clients, x \in Form : WithState(form, c, "busy")[d] = <<x>> =>
                  \E y \in Form : form[d] = <<y>> /\ x.source = y.source
        BY <3>2, StateSet
      <3> QED BY <3>1, <3>3
    <2>4. f.source \in Task
      BY DEF Form
    <2> QED BY <2>2, <2>3, <2>4, SaveKeeps
  <1>5. ASSUME NEW s \in saves, Fetch(s) PROVE VersionInv'
    <2>1. CASE task.etag = s.source.etag
      <3> DEFINE a == [s EXCEPT !.stage = "read"]
                 r == [a EXCEPT !.etag = task.etag]
      <3>1. s \in SaveType /\ task.etag \in Nat
        BY <1>0 DEF VersionInv, TaskTypes, Task
      <3>2. saves' = (saves \ {s}) \cup {r} /\ UNCHANGED <<task, shown, form, saved>>
        BY <1>5, <2>1 DEF Fetch
      <3>3. a \in SaveType /\ a.n = s.n /\ a.source = s.source
        BY <3>1 DEF SaveType
      <3> HIDE DEF a
      <3>4. r \in SaveType /\ r.n = s.n /\ r.source = s.source /\ r.etag = task.etag
        BY <3>1, <3>3 DEF SaveType
      <3> HIDE DEF r
      <3>5. \A t : Copied(t) => Copied(t)'
        BY <3>2, <3>4 DEF Copied
      <3>6. \A q \in saves' : /\ Copied(q.source)' /\ q.n <= saved'
                              /\ q.stage = "read" => q.etag = q.source.etag
        BY <2>1, <3>2, <3>4, <3>5 DEF VersionInv
      <3>7. \A q, p \in saves' : q.n = p.n => q = p
        BY <3>2, <3>4 DEF VersionInv
      <3>8. TaskTypes'
        BY <3>2, <3>4 DEF VersionInv, TaskTypes
      <3> QED BY <3>2, <3>5, <3>6, <3>7, <3>8 DEF VersionInv
    <2>2. CASE task.etag # s.source.etag
      BY <1>5, <2>2, GivenUp DEF Fetch, States
    <2> QED BY <2>1, <2>2
  <1>6. ASSUME NEW s \in saves, Put(s) PROVE VersionInv'
    BY <1>6, Written, GivenUp DEF Put, States
  <1>7. ASSUME NEW s \in saves, Fails(s) PROVE VersionInv'
    BY <1>7, GivenUp DEF Fails, States
  <1>8. ASSUME NEW s \in saves, AnswerLost(s) PROVE VersionInv'
    BY <1>8, Written DEF AnswerLost, States
  <1>9. CASE UNCHANGED vars
    BY <1>9 DEF vars, VersionInv, TaskTypes, Copied
  <1> QED BY <1>1, <1>2, <1>3, <1>4, <1>5, <1>6, <1>7, <1>8, <1>9 DEF Next

(* A write goes through on the version that was read, which is the one its  *)
(* user had.                                                                *)
LEMMA StepReplacesSeen == VersionInv /\ [Next]_vars => ReplacesSeen
  <1> SUFFICES ASSUME VersionInv, [Next]_vars, task' # task PROVE ReplacesSeen
    BY DEF ReplacesSeen
  <1>1. PICK s \in saves : Put(s) \/ AnswerLost(s)
    BY DEF Next, vars, List, OpenForm, Close, Drag, Reload, Submit, Fetch, Fails
  <1>2. s.stage = "read" /\ task.etag = s.etag
          /\ task' = [etag |-> s.n, value |-> s.n, done |-> s.done]
    BY <1>1 DEF Put, AnswerLost
  <1>3. s.source = task
    BY <1>2 DEF VersionInv, Copied
  <1> QED BY <1>2, <1>3 DEF ReplacesSeen

(* A save replaces the version its user had before them, and never a change *)
(* another client made since, however listings, forms, dragged tasks and    *)
(* lost answers interleave (updateCalDavTask, caldavTaskApi.ts).            *)
THEOREM SavesReplaceSeen == Spec => OnlySeenReplaced
  <1>1. VersionInv /\ [Next]_vars => [ReplacesSeen]_vars
    BY StepReplacesSeen
  <1> QED BY InitVersions, StepKeepsVersions, <1>1, PTL DEF Spec, OnlySeenReplaced
----------------------------------------------------------------------------
(* QuerySnapshots: a removed snapshot stays removed, for any number of       *)
(* snapshots, removals and mounts.  The requests IndexedDB holds are        *)
(* deletions followed by at most one of the writer's, so that the snapshot  *)
(* being written, and the one that waits, were asked for after every        *)
(* removal that has ended or is before them.                                *)

Asked == [op : {"set", "drop", "del"}, n : Nat]
SnapshotTypes == /\ requested \in Nat /\ pending \in Nat
                 /\ queue \in Seq(Asked) /\ removals \in Seq(Nat)
                 /\ removed \in [begun : Nat, upto : Int] /\ store \in Int

(* Only the last request is the writer's; it is newer than what was deleted. *)
Ordered(q, upto) ==
  \A i \in 1..Len(q) :
    /\ i < Len(q) => q[i].op = "del"
    /\ q[i].op = "set" => q[i].n > upto /\ \A j \in 1..Len(q) : j < i => q[i].n > q[j].n

(* What waits in the writer is newer too.                                   *)
Waits(p, q, upto) ==
  p # 0 => p > upto /\ \A i \in 1..Len(q) : q[i].op = "del" => p > q[i].n

Past == /\ removed.upto <= requested /\ pending <= requested
        /\ \A i \in 1..Len(queue) : queue[i].n <= requested
        /\ \A i \in 1..Len(removals) : removals[i] <= requested

SnapshotInv == /\ SnapshotTypes /\ Past /\ Snapshots!RemovedStays
               /\ Ordered(queue, removed.upto) /\ Waits(pending, queue, removed.upto)
-----------------------------------------------------------------------------
LEMMA SnapshotInit == Snapshots!Init => SnapshotInv
  <1> SUFFICES ASSUME Snapshots!Init PROVE SnapshotInv
    OBVIOUS
  <1>1. /\ requested = 0 /\ pending = 0 /\ queue = <<>> /\ removals = <<>>
        /\ removed = [begun |-> 0, upto |-> -1] /\ (store = -1 \/ store = 0)
    BY DEF Snapshots!Init, Snapshots!None
  <1>2. SnapshotTypes
    BY <1>1 DEF SnapshotTypes
  <1> QED BY <1>1, <1>2 DEF SnapshotInv, Past, Snapshots!RemovedStays, Ordered, Waits,
             Snapshots!None

(* A request at the head that is the writer's is the only one.              *)
LEMMA WriterIsLast ==
    ASSUME SnapshotInv, queue # <<>>, Head(queue).op # "del"
    PROVE  /\ Snapshots!Rest = <<>> /\ Len(queue) = 1 /\ queue[1] = Head(queue)
           /\ Head(queue) \in Asked
           /\ Head(queue).n <= requested
           /\ Head(queue).op = "set" => Head(queue).n > removed.upto
  <1>1. queue \in Seq(Asked) /\ Len(queue) \in Nat /\ Len(queue) >= 1 /\ queue[1] = Head(queue)
    BY DEF SnapshotInv, SnapshotTypes
  <1>2. Len(queue) = 1
    <2>1. \A i \in 1..Len(queue) : i < Len(queue) => queue[i].op = "del"
      BY DEF SnapshotInv, Ordered
    <2>2. queue[1].op # "del" /\ 1 \in 1..Len(queue)
      BY <1>1
    <2>3. ~(1 < Len(queue))
      BY <2>1, <2>2
    <2>4. \A n \in Nat : n >= 1 /\ ~(1 < n) => n = 1
      OBVIOUS
    <2> QED BY <1>1, <2>3, <2>4
  <1>3. Snapshots!Rest = <<>>
    <2>1. Tail(queue) \in Seq(Asked) /\ Len(Tail(queue)) = 0
      BY <1>1, <1>2
    <2> QED BY <2>1, EmptySeq DEF Snapshots!Rest
  <1> QED BY <1>1, <1>2, <1>3 DEF SnapshotInv, Ordered, Past

(* The removals that waited, as the requests they become.                   *)
LEMMA Deletions ==
    ASSUME SnapshotInv, NEW q,
             q = <<>> \o [i \in DOMAIN removals |-> Snapshots!Del(removals[i])]
    PROVE  /\ q \in Seq(Asked)
           /\ \A i \in 1..Len(q) : q[i].op = "del" /\ q[i].n <= requested
  <1> DEFINE d == [i \in DOMAIN removals |-> Snapshots!Del(removals[i])]
  <1>1. removals \in Seq(Nat) /\ DOMAIN removals = 1..Len(removals) /\ Len(removals) \in Nat
    BY DEF SnapshotInv, SnapshotTypes
  <1>2. \A i \in 1..Len(removals) : d[i] \in Asked /\ d[i].op = "del" /\ d[i].n = removals[i]
    BY <1>1 DEF Asked, Snapshots!Del
  <1>3. d \in [1..Len(removals) -> Asked]
    BY <1>1, <1>2
  <1>4. d \in Seq(Asked) /\ Len(d) = Len(removals)
    BY <1>1, <1>3
  <1> HIDE DEF d
  <1>5. q = d
    BY <1>4 DEF d
  <1> QED BY <1>2, <1>4, <1>5 DEF SnapshotInv, Past

(* The writer goes on or ends.                                              *)
LEMMA ContinueKeeps ==
    ASSUME SnapshotInv, queue # <<>>, Head(queue).op # "del",
             Snapshots!Continue(Snapshots!Rest) \/ Snapshots!End(Snapshots!Rest),
           requested' = requested, removed' = removed, store' \in Int, Snapshots!RemovedStays'
    PROVE  SnapshotInv'
  <1>1. Snapshots!Rest = <<>>
    BY WriterIsLast
  <1>2. pending' = 0 /\ Waits(pending', queue', removed'.upto)
    BY DEF Snapshots!Continue, Snapshots!End, Waits
  <1>3. CASE pending # 0 /\ Snapshots!Continue(Snapshots!Rest)
    <2>1. queue' = <<Snapshots!Set(pending)>> /\ removals' = removals
      BY <1>1, <1>3 DEF Snapshots!Continue
    <2>2. Snapshots!Set(pending) \in Asked /\ Snapshots!Set(pending).op = "set"
            /\ Snapshots!Set(pending).n = pending
      BY DEF Snapshots!Set, Asked, SnapshotInv, SnapshotTypes
    <2>3. pending > removed.upto
      BY <1>3 DEF SnapshotInv, Waits
    <2>4. Ordered(queue', removed'.upto)
      BY <2>1, <2>2, <2>3 DEF Ordered
    <2>5. SnapshotTypes'
      BY <1>2, <2>1, <2>2 DEF SnapshotInv, SnapshotTypes
    <2>6. Len(queue') = 1 /\ queue'[1].n = pending
      BY <2>1, <2>2
    <2>7. Past'
      BY <1>2, <2>1, <2>6 DEF SnapshotInv, SnapshotTypes, Past
    <2> QED BY <1>2, <2>4, <2>5, <2>7 DEF SnapshotInv
  <1>4. CASE ~(pending # 0 /\ Snapshots!Continue(Snapshots!Rest))
    <2>1. queue' = <<>> \o [i \in DOMAIN removals |-> Snapshots!Del(removals[i])]
            /\ removals' = <<>>
      BY <1>1, <1>4 DEF Snapshots!Continue, Snapshots!End
    <2>2. /\ queue' \in Seq(Asked)
          /\ \A i \in 1..Len(queue') : queue'[i].op = "del" /\ queue'[i].n <= requested
      BY <2>1, Deletions
    <2>3. Ordered(queue', removed'.upto)
      BY <2>2 DEF Ordered
    <2>4. SnapshotTypes'
      BY <1>2, <2>1, <2>2 DEF SnapshotInv, SnapshotTypes
    <2>5. Past'
      <3>1. \A i \in 1..Len(removals') : removals'[i] <= requested'
        BY <2>1
      <3>2. removed.upto <= requested /\ requested \in Nat
        BY DEF SnapshotInv, Past, SnapshotTypes
      <3> QED BY <1>2, <2>2, <3>1, <3>2 DEF Past
    <2> QED BY <1>2, <2>3, <2>4, <2>5 DEF SnapshotInv
  <1> QED BY <1>3, <1>4

(* A request of n snapshots is appended where no writer is under way.       *)
LEMMA AppendKeeps ==
    ASSUME SnapshotInv, ~Snapshots!Writing, NEW r \in Asked, queue' = Append(queue, r),
           requested' \in Nat, requested' >= requested, r.n = requested', r.op = "set"
             => requested' > requested,
           r.op # "drop", pending' \in {0, pending}, r.op = "del" => pending' = 0,
           UNCHANGED <<removals, store>>, removed' \in [begun : Nat, upto : {removed.upto}]
    PROVE  SnapshotInv'
  <1>1. queue \in Seq(Asked) /\ \A i \in 1..Len(queue) : queue[i].op = "del"
    BY DEF SnapshotInv, SnapshotTypes, Snapshots!Writing
  <1>2. /\ queue' \in Seq(Asked) /\ Len(queue') = Len(queue) + 1 /\ queue'[Len(queue) + 1] = r
        /\ \A i \in 1..Len(queue) : queue'[i] = queue[i]
    BY <1>1, AppendProperties
  <1>0. /\ \A i \in 1..Len(queue') : i \in 1..Len(queue) \/ i = Len(queue) + 1
        /\ Len(queue) \in Nat /\ removed'.upto = removed.upto
    BY <1>1, <1>2
  <1>3. SnapshotTypes'
    BY <1>1, <1>2 DEF SnapshotInv, SnapshotTypes
  <1>6. Past'
    <2>1. /\ removed'.upto <= requested' /\ pending' <= requested'
          /\ \A i \in 1..Len(removals') : removals'[i] <= requested'
      BY <1>0 DEF SnapshotInv, SnapshotTypes, Past
    <2>2. \A i \in 1..Len(queue) : queue[i] \in Asked /\ queue[i].n <= requested
      BY <1>1 DEF SnapshotInv, Past
    <2>3. \A i \in 1..Len(queue') : queue'[i].n <= requested'
      BY <1>0, <1>2, <2>2 DEF SnapshotInv, SnapshotTypes, Asked
    <2> QED BY <2>1, <2>3 DEF Past
  <1>4. Ordered(queue', removed'.upto)
    <2>1. \A i \in 1..Len(queue) : queue[i] \in Asked /\ queue[i].n <= requested
      BY <1>1 DEF SnapshotInv, Past
    <2>2. r.op = "set" => r.n > removed'.upto /\ \A j \in 1..Len(queue) : r.n > queue[j].n
      BY <1>0, <2>1 DEF SnapshotInv, SnapshotTypes, Past, Asked
    <2> QED BY <1>0, <1>1, <1>2, <2>2 DEF Ordered
  <1>5. Waits(pending', queue', removed'.upto)
    <2>1. SUFFICES ASSUME pending' # 0 PROVE Waits(pending, queue', removed.upto)
      BY <1>0 DEF Waits
    <2>2. pending # 0 /\ r.op # "del" /\ pending' = pending
      BY <2>1
    <2>3. /\ pending > removed.upto
          /\ \A i \in 1..Len(queue) : queue[i].op = "del" => pending > queue[i].n
      BY <2>2 DEF SnapshotInv, Waits
    <2>4. \A i \in 1..Len(queue') : queue'[i].op = "del" => i \in 1..Len(queue)
      BY <1>0, <1>2, <2>2
    <2> QED BY <1>2, <2>3, <2>4 DEF Waits
  <1> QED BY <1>0, <1>3, <1>4, <1>5, <1>6 DEF SnapshotInv, Snapshots!RemovedStays

LEMMA SnapshotStep == SnapshotInv /\ [Snapshots!Next]_(Snapshots!vars) => SnapshotInv'
  <1> SUFFICES ASSUME SnapshotInv, [Snapshots!Next]_(Snapshots!vars) PROVE SnapshotInv'
    OBVIOUS
  <1> USE DEF Snapshots!subscription, Snapshots!persister
  <1>1. CASE Snapshots!Remove
    <2>0. pending' = 0 /\ UNCHANGED <<store, requested>>
      BY <1>1 DEF Snapshots!Remove, Snapshots!RemoveClient
    <2>4. removed' \in [begun : Nat, upto : {removed.upto}]
      BY <1>1 DEF Snapshots!Remove, SnapshotInv, SnapshotTypes
    <2>1. /\ removed' \in [begun : Nat, upto : {removed.upto}]
          /\ UNCHANGED <<store, requested>> /\ pending' = 0
      BY <2>0, <2>4
    <2>2. CASE Snapshots!Writing
      <3>1. queue' = queue /\ removals' = Append(removals, requested)
        BY <1>1, <2>2 DEF Snapshots!Remove, Snapshots!RemoveClient
      <3>2. /\ removals' \in Seq(Nat)
            /\ \A i \in 1..Len(removals') : removals'[i] <= requested
        BY <3>1 DEF SnapshotInv, SnapshotTypes, Past
      <3> QED BY <2>1, <3>1, <3>2 DEF SnapshotInv, SnapshotTypes, Past, Snapshots!RemovedStays,
                 Waits
    <2>3. CASE ~Snapshots!Writing
      <3>1. queue' = Append(queue, Snapshots!Del(requested)) /\ removals' = removals
        BY <1>1, <2>3 DEF Snapshots!Remove, Snapshots!RemoveClient
      <3>2. Snapshots!Del(requested) \in Asked /\ Snapshots!Del(requested).op = "del"
              /\ Snapshots!Del(requested).n = requested
        BY DEF Snapshots!Del, Asked, SnapshotInv, SnapshotTypes
      <3>3. requested \in Nat
        BY DEF SnapshotInv, SnapshotTypes
      <3> QED BY <2>1, <2>3, <3>1, <3>2, <3>3, AppendKeeps
    <2> QED BY <2>2, <2>3
  <1>2. CASE Snapshots!Stored
    <2>1. /\ queue # <<>> /\ Head(queue).op = "set" /\ store' = Head(queue).n
          /\ Snapshots!Continue(Snapshots!Rest) /\ requested' = requested /\ removed' = removed
      BY <1>2 DEF Snapshots!Stored
    <2>2. store' \in Int /\ Snapshots!RemovedStays'
      BY <2>1, WriterIsLast DEF Snapshots!RemovedStays, Asked
    <2> QED BY <2>1, <2>2, ContinueKeeps
  <1>3. CASE Snapshots!NotCloned
    <2>1. /\ queue # <<>> /\ Head(queue).op = "set"
          /\ queue' = Append(Snapshots!Rest, Snapshots!Drop(Head(queue).n))
          /\ UNCHANGED <<pending, removals, store, requested, removed>>
      BY <1>3 DEF Snapshots!NotCloned
    <2> DEFINE r == Snapshots!Drop(Head(queue).n)
    <2>2. r \in Asked /\ r.op = "drop" /\ r.n <= requested
      BY <2>1, WriterIsLast DEF Snapshots!Drop, Asked
    <2> HIDE DEF r
    <2>3. queue' = <<r>> /\ Len(queue') = 1 /\ queue'[1] = r
      <3>1. Snapshots!Rest = <<>> /\ queue' = Append(Snapshots!Rest, r)
        BY <2>1, WriterIsLast DEF r
      <3> QED BY <3>1
    <2>4. SnapshotTypes' /\ Snapshots!RemovedStays'
      <3>1. <<r>> \in Seq(Asked)
        BY <2>2
      <3>2. queue' \in Seq(Asked)
        BY <2>3, <3>1
      <3> QED BY <2>1, <3>2 DEF SnapshotInv, SnapshotTypes, Snapshots!RemovedStays
    <2>5. Past'
      <3>1. \A i \in 1..Len(queue') : queue'[i].n <= requested'
        BY <2>1, <2>2, <2>3
      <3> QED BY <2>1, <3>1 DEF SnapshotInv, Past
    <2>6. Ordered(queue', removed'.upto)
      BY <2>1, <2>2, <2>3 DEF Ordered
    <2>7. Waits(pending', queue', removed'.upto)
      BY <2>1, <2>2, <2>3 DEF SnapshotInv, Waits
    <2> QED BY <2>4, <2>5, <2>6, <2>7 DEF SnapshotInv
  <1>4. CASE Snapshots!Dropped
    <2>1. /\ queue # <<>> /\ Head(queue).op = "drop" /\ store' = Snapshots!None
          /\ Snapshots!Continue(Snapshots!Rest) /\ requested' = requested /\ removed' = removed
      BY <1>4 DEF Snapshots!Dropped
    <2>2. store' \in Int /\ Snapshots!RemovedStays'
      BY <2>1 DEF Snapshots!RemovedStays, Snapshots!None
    <2> QED BY <2>1, <2>2, ContinueKeeps
  <1>5. CASE Snapshots!WriteFails
    <2>1. /\ queue # <<>> /\ Head(queue).op # "del" /\ store' = store
          /\ Snapshots!End(Snapshots!Rest) /\ requested' = requested /\ removed' = removed
      BY <1>5 DEF Snapshots!WriteFails
    <2>2. store' \in Int /\ Snapshots!RemovedStays'
      BY <2>1 DEF Snapshots!RemovedStays, SnapshotInv, SnapshotTypes
    <2> QED BY <2>1, <2>2, ContinueKeeps
  <1>6. CASE Snapshots!Deleted
    <2>1. /\ queue # <<>> /\ Head(queue).op = "del" /\ store' = Snapshots!None
          /\ queue' = Tail(queue)
          /\ UNCHANGED <<pending, removals, requested>>
      BY <1>6 DEF Snapshots!Deleted, Snapshots!Rest
    <2> DEFINE upto == IF Head(queue).n > removed.upto THEN Head(queue).n ELSE removed.upto
    <2>2. removed' = [removed EXCEPT !.upto = upto]
      BY <1>6 DEF Snapshots!Deleted
    <2>3. /\ queue \in Seq(Asked) /\ Len(queue) \in Nat \ {0} /\ Head(queue) = queue[1]
          /\ queue[1] \in Asked
      BY <2>1 DEF SnapshotInv, SnapshotTypes
    <2>4. upto \in Int /\ upto <= requested /\ upto \in {removed.upto, queue[1].n}
      BY <2>3 DEF SnapshotInv, SnapshotTypes, Past, Asked
    <2> HIDE DEF upto
    <2>5. removed' \in [begun : Nat, upto : Int] /\ removed'.upto = upto
      BY <2>2, <2>4 DEF SnapshotInv, SnapshotTypes
    <2>6. /\ queue' \in Seq(Asked) /\ Len(queue') = Len(queue) - 1
          /\ \A i \in 1..Len(queue') : queue'[i] = queue[i + 1] /\ i + 1 \in 1..Len(queue)
      BY <2>1, <2>3
    <2>7. SnapshotTypes' /\ Past' /\ Snapshots!RemovedStays'
      BY <2>1, <2>4, <2>5, <2>6 DEF SnapshotInv, SnapshotTypes, Past, Snapshots!RemovedStays,
         Snapshots!None
    <2>8. Ordered(queue', removed'.upto)
      <3>1. \A i \in 1..Len(queue') :
              /\ i < Len(queue') => queue'[i].op = "del"
              /\ queue'[i].op = "set" => queue'[i].n > removed.upto /\ queue'[i].n > queue[1].n
        BY <2>3, <2>6 DEF SnapshotInv, Ordered
      <3>2. \A i, j \in 1..Len(queue') : queue'[i].op = "set" /\ j < i
              => queue'[i].n > queue'[j].n
        BY <2>3, <2>6 DEF SnapshotInv, Ordered
      <3>3. \A i \in 1..Len(queue') : queue'[i].op = "set" => queue'[i].n > upto
        BY <2>4, <3>1
      <3> QED BY <2>5, <3>1, <3>2, <3>3 DEF Ordered
    <2>9. Waits(pending', queue', removed'.upto)
      BY <2>1, <2>3, <2>4, <2>5, <2>6 DEF SnapshotInv, SnapshotTypes, Waits, Asked
    <2> QED BY <2>7, <2>8, <2>9 DEF SnapshotInv
  <1>7. CASE Snapshots!TimerFires
    <2>1. requested' = requested + 1 /\ UNCHANGED <<removals, store, removed>>
            /\ requested \in Nat
      BY <1>7 DEF Snapshots!TimerFires, Snapshots!PersistClient, SnapshotInv, SnapshotTypes
    <2>2. CASE Snapshots!Writing
      <3>1. pending' = requested' /\ queue' = queue
        BY <1>7, <2>2 DEF Snapshots!TimerFires, Snapshots!PersistClient
      <3>0. \A i \in 1..Len(queue) : queue[i].n \in Nat
        <4>1. queue \in Seq(Asked)
          BY DEF SnapshotInv, SnapshotTypes
        <4>2. \A i \in 1..Len(queue) : queue[i] \in Asked
          BY <4>1
        <4> QED BY <4>2 DEF Asked
      <3>4. /\ \A i \in 1..Len(removals) : removals[i] \in Nat /\ removals[i] <= requested
            /\ \A i \in 1..Len(queue) : queue[i].n <= requested
            /\ removed.upto \in Int /\ removed.upto <= requested
        BY DEF SnapshotInv, SnapshotTypes, Past
      <3>2. SnapshotTypes' /\ Past' /\ Snapshots!RemovedStays'
        <4>1. SnapshotTypes' /\ Snapshots!RemovedStays'
          BY <2>1, <3>1 DEF SnapshotInv, SnapshotTypes, Snapshots!RemovedStays
        <4>2. Past'
          BY <2>1, <3>0, <3>1, <3>4 DEF Past
        <4> QED BY <4>1, <4>2
      <3>3. Waits(pending', queue', removed'.upto)
        BY <2>1, <3>0, <3>1, <3>4 DEF Waits
      <3> QED BY <2>1, <3>1, <3>2, <3>3 DEF SnapshotInv
    <2>3. CASE ~Snapshots!Writing
      <3>1. queue' = Append(queue, Snapshots!Set(requested')) /\ pending' = pending
        BY <1>7, <2>3 DEF Snapshots!TimerFires, Snapshots!PersistClient
      <3>2. Snapshots!Set(requested') \in Asked /\ Snapshots!Set(requested').op = "set"
              /\ Snapshots!Set(requested').n = requested'
        BY <2>1 DEF Snapshots!Set, Asked
      <3>3. removed' \in [begun : Nat, upto : {removed.upto}]
        BY <2>1 DEF SnapshotInv, SnapshotTypes
      <3> QED BY <2>1, <2>3, <3>1, <3>2, <3>3, AppendKeeps
    <2> QED BY <2>2, <2>3
  <1>8. CASE Snapshots!Restored \/ Snapshots!Remount \/ Snapshots!Change
          \/ UNCHANGED Snapshots!vars
    <2>1. UNCHANGED <<pending, queue, removals, requested, store, removed>>
      BY <1>8 DEF Snapshots!Restored, Snapshots!Remount, Snapshots!Change, Snapshots!vars
    <2> QED BY <2>1 DEF SnapshotInv, SnapshotTypes, Past, Snapshots!RemovedStays, Ordered, Waits
  <1> QED BY <1>1, <1>2, <1>3, <1>4, <1>5, <1>6, <1>7, <1>8 DEF Snapshots!Next

(* The cache that was removed, at a sign-out or because it was too old,     *)
(* does not come back from a snapshot asked for before (queryClient.ts:70). *)
THEOREM RemovedStaysRemoved == MCSpec => []RemovedStays
  <1> DEFINE Inv == part = "snapshots" => SnapshotInv
  <1>1. MCInit => Inv
    BY PartsStart, SnapshotInit
  <1>2. Inv /\ [MCNext]_allVars => Inv'
    BY PartStays, PartsStep, SnapshotStep
  <1>3. Inv => RemovedStays
    BY DEF SnapshotInv, RemovedStays
  <1> QED BY <1>1, <1>2, <1>3, PTL DEF MCSpec
----------------------------------------------------------------------------
(* Credentials: for any number of authorizations, refresh tokens and steps,  *)
(* a refresh token on the device is not replaced by an older one.           *)

Bounds == MaxLogins \in Nat \ {0} /\ MaxGen \in Nat

\* The copies of a credential and the revision each is held with: in the store, on
\* the screen, on the device, on its way there or back.
Copy(c, rev) == [login |-> c.login, gen |-> c.gen, rev |-> rev]
InApp(c, rev) == IF c = Oauth!None THEN {} ELSE {Copy(c, rev)}
OnDevice(r) == IF r = Oauth!None THEN {} ELSE {Copy(r.c, r.rev)}
Imported == IF import = Oauth!None THEN {} ELSE {Copy(import.record.c, import.record.rev)}
Stored == IF writes["app"] = Oauth!None THEN {} ELSE OnDevice(writes["app"].value)
Copies == InApp(account, stored) \cup InApp(screen, known)
          \cup OnDevice(record) \cup OnDevice(push) \cup Imported \cup Stored
Revision == IF record = Oauth!None THEN 0 ELSE record.rev

\* What is held and what is read may be absent; a write has read, and writes a record.
Held == Oauth!Credential \cup {Oauth!None}
Reads == Oauth!Record \cup {Oauth!None}
TokenTypes ==
  /\ account \in Held /\ screen \in Held /\ ref \in Held /\ pass \in Held
  /\ asked \subseteq [login : 1..MaxLogins, gen : 0..MaxGen]
  /\ record \in Reads /\ push \in Reads
  /\ import # Oauth!None => import.record \in Oauth!Record
  /\ stored \in Nat /\ known \in Nat
  /\ server \in [logins : 1..MaxLogins, gen : [1..MaxLogins -> Nat],
       refused : SUBSET (1..MaxLogins)]
  /\ DOMAIN writes = {"app", "pass"}
  /\ \A w \in {"app", "pass"} : writes[w] # Oauth!None => writes[w].seen \in Reads
       /\ writes[w].value \in Oauth!Record

\* Among the copies of an authorization the generations follow the revisions.
Coherent == \A p, q \in Copies : p.login = q.login /\ p.rev <= q.rev => p.gen <= q.gen
\* No copy has a revision the record has not come to, nor will the next one of the app.
Topmost == (\A p \in Copies : p.rev <= Revision) /\ stored <= Revision
\* No copy has a refresh token newer than these credentials.
Newest(c) == \A p \in Copies : p.login = c.login => p.gen <= c.gen
\* What exists was issued.
Issued(c) == c.login <= server.logins /\ c.gen <= server.gen[c.login]

AppWrites == writes["app"] # Oauth!None =>
  (writes["app"].seen # Oauth!None => writes["app"].seen.rev <= writes["app"].value.rev)
PassWrites == writes["pass"] # Oauth!None =>
  /\ writes["pass"].seen # Oauth!None /\ writes["pass"].value.rev = writes["pass"].seen.rev + 1
  /\ Newest(writes["pass"].value.c) /\ Issued(writes["pass"].value.c)
  /\ pass = Oauth!None
Passes == pass # Oauth!None => Newest(pass) /\ Issued(pass)

Orderly == Coherent /\ Topmost /\ (\A p \in Copies : Issued(p)) /\ AppWrites /\ PassWrites
  /\ Passes
TokenInv == TokenTypes /\ (mixed \/ Orderly)
-----------------------------------------------------------------------------
\* Credentials and records are not the mark of their absence.
LEMMA NoneIsNone == Oauth!None \notin Oauth!Credential /\ Oauth!None \notin Oauth!Record
<1>1. DOMAIN Oauth!None = {"none"}
  BY DEF Oauth!None
<1>2. \A c \in Oauth!Credential : "login" \in DOMAIN c
  BY DEF Oauth!Credential
<1>3. \A r \in Oauth!Record : "rev" \in DOMAIN r
  BY DEF Oauth!Record
<1> QED BY <1>1, <1>2, <1>3

\* The copies exist, each with its authorization, generation and revision.
LEMMA CopiesAreTyped ==
  ASSUME TokenTypes
  PROVE  /\ Copies \subseteq [login : 1..MaxLogins, gen : 0..MaxGen, rev : Nat]
         /\ Revision \in Nat
<1> DEFINE All == [login : 1..MaxLogins, gen : 0..MaxGen, rev : Nat]
<1>1. \A c \in Oauth!Credential, n \in Nat : Copy(c, n) \in All
  BY DEF Oauth!Credential, Copy
<1>2. \A r \in Oauth!Record : r.c \in Oauth!Credential /\ r.rev \in Nat
  BY DEF Oauth!Record
<1> HIDE DEF All
<1>3. \A c \in Held, n \in Nat : InApp(c, n) \subseteq All
  BY <1>1 DEF Held, InApp
<1>4. \A r \in Reads : OnDevice(r) \subseteq All
  BY <1>1, <1>2 DEF Reads, OnDevice
<1>5. Imported \subseteq All
  <2>1. CASE import = Oauth!None
    BY <2>1 DEF Imported
  <2>2. CASE import # Oauth!None
    <3>1. import.record \in Oauth!Record
      BY <2>2 DEF TokenTypes
    <3> QED BY <3>1, <2>2, <1>1, <1>2 DEF Imported
  <2> QED BY <2>1, <2>2
<1>6. Stored \subseteq All
  BY <1>4 DEF TokenTypes, Stored, Reads
<1>7. Revision \in Nat
  BY <1>2 DEF TokenTypes, Reads, Revision
<1> QED BY <1>3, <1>4, <1>5, <1>6, <1>7 DEF TokenTypes, Copies, All

\* The first state.
LEMMA TokenInit == Bounds /\ Oauth!Init => TokenInv
<1> SUFFICES ASSUME Bounds, Oauth!Init PROVE TokenInv
  OBVIOUS
<1>1. Oauth!Granted(1) \in Oauth!Credential
  BY DEF Bounds, Oauth!Granted, Oauth!Credential, Oauth!Tokens
<1>2. [c |-> Oauth!Granted(1), rev |-> 0] \in Oauth!Record
  BY <1>1 DEF Oauth!Record
<1>3. TokenTypes
  BY <1>1, <1>2 DEF TokenTypes, Oauth!Init, Bounds, Reads, Held
<1>4. Copies = {Copy(Oauth!Granted(1), 0)} /\ Revision = 0
  BY NoneIsNone, <1>1, <1>2 DEF Oauth!Init, Copies, InApp, OnDevice, Imported, Stored, Revision
<1>5. Orderly
  BY <1>4 DEF Orderly, Coherent, Topmost, Issued, AppWrites, PassWrites, Passes, Copy,
     Oauth!Granted, Oauth!Init, Bounds
<1> QED BY <1>3, <1>5 DEF TokenInv
-----------------------------------------------------------------------------
\* What one step may change of the copies without disturbing their order.
Server == /\ server'.logins >= server.logins
          /\ \A n \in 1..MaxLogins : server'.gen[n] >= server.gen[n]
Carries == /\ Copies' \subseteq Copies /\ Revision <= Revision' /\ stored' <= Revision'
           /\ Server

\* A step that makes no copy keeps their order, and what was newest or issued.
LEMMA CarriesOrder ==
  ASSUME TokenTypes, TokenTypes', Orderly, Carries
  PROVE  /\ Coherent' /\ Topmost' /\ \A p \in Copies' : Issued(p)'
         /\ \A c \in Oauth!Credential : Newest(c) => Newest(c)'
         /\ \A c \in Oauth!Credential : Issued(c) => Issued(c)'
<1> DEFINE All == [login : 1..MaxLogins, gen : 0..MaxGen, rev : Nat]
<1>1. Copies \subseteq All /\ Revision \in Nat
  BY CopiesAreTyped
<1>2. Revision' \in Nat
  BY DEF Revision, TokenTypes, Reads, Oauth!Record
<1>3. Coherent'
  BY <1>1 DEF Coherent, Carries, Orderly
<1>4. Topmost'
  BY <1>1, <1>2 DEF Topmost, Carries, Orderly
<1>5. \A c : c.login \in 1..MaxLogins /\ c.gen \in Int /\ Issued(c) => Issued(c)'
  <2> SUFFICES ASSUME NEW c, c.login \in 1..MaxLogins, c.gen \in Int, Issued(c)
               PROVE  Issued(c)'
    OBVIOUS
  <2>1. server.gen[c.login] \in Nat /\ server'.gen[c.login] \in Nat
    <3>1. server.gen \in [1..MaxLogins -> Nat] /\ server'.gen \in [1..MaxLogins -> Nat]
      BY DEF TokenTypes
    <3> QED BY <3>1
  <2>2. server.logins \in Int /\ server'.logins \in Int
    BY DEF TokenTypes
  <2> QED BY <2>1, <2>2 DEF Issued, Carries, Server
<1>6. \A p \in Copies' : Issued(p)'
  BY <1>1, <1>5 DEF Carries, Orderly
<1>7. \A c : Newest(c) => Newest(c)'
  BY DEF Newest, Carries
<1>8. \A c \in Oauth!Credential : c.login \in 1..MaxLogins /\ c.gen \in Int
  BY DEF Oauth!Credential
<1> QED BY <1>3, <1>4, <1>5, <1>6, <1>7, <1>8
-----------------------------------------------------------------------------
\* The types of the servers, of the app, of the device and of the writes, by step.
ServerTyped ==
  server \in [logins : 1..MaxLogins, gen : [1..MaxLogins -> Nat], refused : SUBSET (1..MaxLogins)]

LEMMA AgedIsHeld ==
  \A c \in Held :
    /\ Oauth!Aged(c) \in Held
    /\ c # Oauth!None => /\ Oauth!Aged(c) # Oauth!None /\ Oauth!Aged(c) \in Oauth!Credential
                         /\ Oauth!Aged(c).login = c.login /\ Oauth!Aged(c).gen = c.gen
<1> SUFFICES ASSUME NEW c \in Held, c # Oauth!None
             PROVE  Oauth!Aged(c) \in Oauth!Credential /\ Oauth!Aged(c).login = c.login
                      /\ Oauth!Aged(c).gen = c.gen
  BY NoneIsNone DEF Held, Oauth!Aged
<1>1. c \in Oauth!Credential
  BY DEF Held
<1> QED BY <1>1 DEF Oauth!Aged, Oauth!Credential, Oauth!Tokens

LEMMA UpdatedIsHeld ==
  ASSUME NEW c \in Held, NEW token \in Oauth!Tokens
  PROVE  /\ Oauth!Updated(c, token) \in Held
         /\ c # Oauth!None => Oauth!Updated(c, token).login = c.login
              /\ Oauth!Updated(c, token).gen = c.gen
<1>1. CASE c = Oauth!None
  BY <1>1 DEF Oauth!Updated, Held
<1>2. CASE c # Oauth!None
  <2>1. c \in Oauth!Credential
    BY <1>2 DEF Held
  <2> QED BY <2>1, <1>2 DEF Oauth!Updated, Held, Oauth!Credential
<1> QED BY <1>1, <1>2

LEMMA ReplacementsAreLater ==
  ASSUME TokenTypes, NEW r, r.login \in 1..MaxLogins, r.gen \in 0..MaxGen,
           NEW g \in Oauth!Replacements(r)
  PROVE  g \in 0..MaxGen /\ (r.gen <= server.gen[r.login] => g >= r.gen)
<1>1. server.gen[r.login] \in Nat
  BY DEF TokenTypes
<1> QED BY <1>1, NoneIsNone DEF Oauth!Replacements

\* A refresh grants a generation and takes none away.
LEMMA IssueGrows ==
  ASSUME TokenTypes, NEW r, r.login \in 1..MaxLogins, NEW g \in Nat, Oauth!Issue(r, g)
  PROVE  ServerTyped' /\ Server /\ server'.gen[r.login] >= g /\ server'.logins = server.logins
<1>1. server.gen \in [1..MaxLogins -> Nat] /\ server.logins \in 1..MaxLogins
  BY DEF TokenTypes
<1> DEFINE G == [server.gen EXCEPT ![r.login] = IF g > @ THEN g ELSE @]
<1>2. server' = [server EXCEPT !.gen = G]
  BY DEF Oauth!Issue, TokenTypes
<1>3. G \in [1..MaxLogins -> Nat]
  BY <1>1
<1>4. \A n \in 1..MaxLogins : G[n] >= server.gen[n]
  <2> SUFFICES ASSUME NEW n \in 1..MaxLogins PROVE G[n] >= server.gen[n]
    OBVIOUS
  <2>1. server.gen[n] \in Nat
    BY <1>1
  <2> QED BY <1>1, <2>1
<1>5. G[r.login] >= g
  <2>1. server.gen[r.login] \in Nat
    BY <1>1
  <2>2. G[r.login] = IF g > server.gen[r.login] THEN g ELSE server.gen[r.login]
    BY <1>1
  <2> HIDE DEF G
  <2> QED BY <2>1, <2>2
<1> HIDE DEF G
<1>6. server'.gen = G /\ server'.logins = server.logins /\ server'.refused = server.refused
  BY <1>2 DEF TokenTypes
<1>7. ServerTyped'
  BY <1>2, <1>3 DEF TokenTypes, ServerTyped
<1> QED BY <1>1, <1>4, <1>5, <1>6, <1>7 DEF Server
-----------------------------------------------------------------------------
\* The steps that can change the record, its copies, or the generations issued; and the rest.
AppTyped == /\ account \in Held /\ screen \in Held /\ ref \in Held /\ stored \in Nat
  /\ known \in Nat
            /\ asked \subseteq [login : 1..MaxLogins, gen : 0..MaxGen]
DeviceTyped == record \in Reads /\ pass \in Held
SyncTyped == push \in Reads /\ (import # Oauth!None => import.record \in Oauth!Record)
WritesTyped ==
  /\ DOMAIN writes = {"app", "pass"}
  /\ \A w \in {"app", "pass"} : writes[w] # Oauth!None => writes[w].seen \in Reads
       /\ writes[w].value \in Oauth!Record

LEMMA TypesParts == TokenTypes <=> AppTyped /\ DeviceTyped /\ SyncTyped /\ WritesTyped
                      /\ ServerTyped
BY DEF TokenTypes, AppTyped, DeviceTyped, SyncTyped, WritesTyped, ServerTyped

\* What is on the way to the device is one of the two it was chosen from.
LEMMA PutChooses ==
  ASSUME TokenTypes, push # Oauth!None
  PROVE  LET v == Oauth!PutFromPrimary(record, push)
         IN  /\ v \in {record, push} /\ v \in Oauth!Record
             /\ record # Oauth!None => record.rev <= v.rev
<1>1. push \in Oauth!Record /\ push.rev \in Nat
  BY DEF TokenTypes, Reads, Oauth!Record
<1>2. record # Oauth!None => record \in Oauth!Record /\ record.rev \in Nat
  BY DEF TokenTypes, Reads, Oauth!Record
<1> QED BY <1>1, <1>2 DEF Oauth!PutFromPrimary
-----------------------------------------------------------------------------
\* Every step keeps the types.
LEMMA TypesKept == Bounds /\ TokenTypes /\ Oauth!Next => TokenTypes'
<1> SUFFICES ASSUME Bounds, TokenTypes, Oauth!Next PROVE TokenTypes'
  OBVIOUS
<1> USE DEF Oauth!app, Oauth!device, Oauth!settings
<1>0. AppTyped /\ DeviceTyped /\ SyncTyped /\ WritesTyped /\ ServerTyped
  BY TypesParts
<1> SUFFICES AppTyped' /\ DeviceTyped' /\ SyncTyped' /\ WritesTyped' /\ ServerTyped'
  BY DEF TokenTypes, AppTyped, DeviceTyped, SyncTyped, WritesTyped, ServerTyped
<1>1. CASE Oauth!Revoke
  <2>1. 1..server.logins \subseteq 1..MaxLogins
    BY <1>0 DEF ServerTyped, Bounds
  <2>2. ServerTyped'
    BY <1>0, <1>1, <2>1 DEF Oauth!Revoke, ServerTyped
  <2> QED BY <1>0, <1>1, <2>2 DEF Oauth!Revoke, AppTyped, DeviceTyped, SyncTyped, WritesTyped
<1>2. CASE Oauth!Pass
  <2>1. AppTyped'
    BY <1>0, <1>2, AgedIsHeld DEF Oauth!Pass, AppTyped
  <2>2. DeviceTyped'
    <3>1. CASE record = Oauth!None
      BY <1>0, <1>2, <3>1 DEF Oauth!Pass, DeviceTyped, Oauth!AgedRecord, Reads
    <3>2. CASE record # Oauth!None
      <4>1. record \in Oauth!Record /\ record.c \in Oauth!Credential
        BY <1>0, <3>2 DEF DeviceTyped, Reads, Oauth!Record
      <4>2. Oauth!Aged(record.c) \in Oauth!Credential
        BY <4>1, AgedIsHeld, NoneIsNone DEF Held
      <4>3. record' \in Oauth!Record
        BY <1>2, <3>2, <4>1, <4>2 DEF Oauth!Pass, Oauth!AgedRecord, Oauth!Record
      <4> QED BY <1>0, <1>2, <4>3 DEF Oauth!Pass, DeviceTyped, Reads
    <3> QED BY <3>1, <3>2
  <2> QED BY <1>0, <1>2, <2>1, <2>2 DEF Oauth!Pass, SyncTyped, WritesTyped, ServerTyped
<1>3. CASE Oauth!Connect
  <2>1. server.logins \in 1..MaxLogins /\ server'.logins = server.logins + 1
    BY <1>0, <1>3 DEF Oauth!Connect, ServerTyped
  <2>2. server'.logins \in 1..MaxLogins
    BY <1>3, <2>1 DEF Oauth!Connect, Bounds
  <2>3. ServerTyped'
    BY <1>0, <1>3, <2>1, <2>2 DEF Oauth!Connect, ServerTyped
  <2>4. account' \in Held
    BY <1>3, <2>2 DEF Oauth!Connect, Oauth!Granted, Held, Oauth!Credential, Oauth!Tokens, Bounds
  <2> QED BY <1>0, <1>3, <2>3, <2>4 DEF Oauth!Connect, AppTyped, DeviceTyped, SyncTyped,
             WritesTyped
<1>4. CASE Oauth!Remove \/ Oauth!Render \/ Oauth!Effect
  BY <1>0, <1>4 DEF Oauth!Remove, Oauth!Render, Oauth!Effect, Held, AppTyped, DeviceTyped,
     SyncTyped, WritesTyped, ServerTyped
<1>5. CASE Oauth!GetValidToken
  <2>1. ref \in Oauth!Credential
    BY <1>0, <1>5 DEF Oauth!GetValidToken, AppTyped, Held
  <2>2. [login |-> ref.login, gen |-> ref.gen] \in [login : 1..MaxLogins, gen : 0..MaxGen]
    BY <2>1 DEF Oauth!Credential
  <2> QED BY <1>0, <1>5, <2>2 DEF Oauth!GetValidToken, AppTyped, DeviceTyped, SyncTyped,
             WritesTyped, ServerTyped
<1>6. ASSUME NEW r \in asked, Oauth!Refreshed(r) \/ Oauth!RefreshFails(r)
      PROVE  AppTyped' /\ DeviceTyped' /\ SyncTyped' /\ WritesTyped' /\ ServerTyped'
  <2>1. r.login \in 1..MaxLogins /\ r.gen \in 0..MaxGen
    BY <1>0 DEF AppTyped
  <2>2. Oauth!Updated(account, "good") \in Held /\ Oauth!Updated(account, "none") \in Held
    BY <1>0, UpdatedIsHeld DEF AppTyped, Oauth!Tokens
  <2>3. CASE Oauth!Refreshed(r)
    <3>1. PICK g \in Oauth!Replacements(r) : Oauth!Issue(r, g)
      BY <2>3 DEF Oauth!Refreshed
    <3>2. ServerTyped'
      BY <2>1, <3>1, ReplacementsAreLater, IssueGrows DEF Bounds
    <3> QED BY <1>0, <2>2, <2>3, <3>2 DEF Oauth!Refreshed, AppTyped, DeviceTyped, SyncTyped,
               WritesTyped
  <2>4. CASE Oauth!RefreshFails(r)
    BY <1>0, <2>2, <2>4 DEF Oauth!RefreshFails, AppTyped, DeviceTyped, SyncTyped, WritesTyped,
       ServerTyped
  <2> QED BY <1>6, <2>3, <2>4
<1>7. CASE Oauth!Send
  <2>1. screen \in Oauth!Credential /\ known \in Nat
    BY <1>0, <1>7 DEF Oauth!Send, AppTyped, Held
  <2> QED BY <1>0, <1>7, <2>1 DEF Oauth!Send, AppTyped, DeviceTyped, SyncTyped, WritesTyped,
             ServerTyped, Reads, Oauth!Record
<1>8. CASE Oauth!ConfigureSync
  <2>1. Oauth!PutFromPrimary(record, push) \in Oauth!Record
    BY <1>8, PutChooses DEF Oauth!ConfigureSync
  <2>2. WritesTyped'
    BY <1>0, <1>8, <2>1 DEF Oauth!ConfigureSync, Oauth!Writing, WritesTyped, DeviceTyped
  <2> QED BY <1>0, <1>8, <2>2 DEF Oauth!ConfigureSync, AppTyped, DeviceTyped, SyncTyped,
             ServerTyped, Reads
<1>9. ASSUME NEW w \in {"app", "pass"}, Oauth!Write(w)
      PROVE  AppTyped' /\ DeviceTyped' /\ SyncTyped' /\ WritesTyped' /\ ServerTyped'
  BY <1>0, <1>9 DEF Oauth!Write, AppTyped, DeviceTyped, SyncTyped, WritesTyped, ServerTyped,
     Reads
<1>10. CASE Oauth!DisableSync
  BY <1>0, <1>10 DEF Oauth!DisableSync, AppTyped, DeviceTyped, SyncTyped, WritesTyped,
     ServerTyped, Reads
<1>11. CASE Oauth!CredentialUpdates
  BY <1>0, <1>11 DEF Oauth!CredentialUpdates, AppTyped, DeviceTyped, SyncTyped, WritesTyped,
     ServerTyped, Reads
<1>12. CASE Oauth!SaveUpdates
  <2>1. import.record.c \in Oauth!Credential /\ import.record.rev \in Nat
    BY <1>0, <1>12 DEF Oauth!SaveUpdates, SyncTyped, Oauth!Record
  <2> QED BY <1>0, <1>12, <2>1 DEF Oauth!SaveUpdates, AppTyped, DeviceTyped, SyncTyped,
             WritesTyped, ServerTyped, Held
<1>13. CASE Oauth!StartPass
  BY <1>0, <1>13 DEF Oauth!StartPass, AppTyped, DeviceTyped, SyncTyped, WritesTyped,
     ServerTyped, Reads, Oauth!Record, Held
<1>14. CASE Oauth!PassRefreshes
  <2>1. pass \in Oauth!Credential
    BY <1>0, <1>14 DEF Oauth!PassRefreshes, DeviceTyped, Held
  <2>2. PICK g \in Oauth!Replacements(pass) :
          /\ Oauth!Issue(pass, g)
          /\ Oauth!UpdateCredentials([pass EXCEPT !.gen = g, !.token = "good"])
               \/ UNCHANGED writes
    BY <1>14 DEF Oauth!PassRefreshes
  <2>3. g \in 0..MaxGen /\ pass.login \in 1..MaxLogins
    BY <2>1, ReplacementsAreLater DEF Oauth!Credential
  <2>4. ServerTyped'
    BY <2>2, <2>3, IssueGrows DEF Bounds
  <2>5. WritesTyped'
    <3> DEFINE c == [pass EXCEPT !.gen = g, !.token = "good"]
    <3>1. c \in Oauth!Credential
      BY <2>1, <2>3 DEF Oauth!Credential, Oauth!Tokens
    <3> HIDE DEF c
    <3>2. record # Oauth!None => Oauth!WithCredentialUpdate(record, c) \in Oauth!Record
      BY <1>0, <3>1 DEF DeviceTyped, Reads, Oauth!Record, Oauth!WithCredentialUpdate
    <3>3. Oauth!UpdateCredentials(c) \/ UNCHANGED writes
      BY <2>2 DEF c
    <3> QED BY <1>0, <3>2, <3>3 DEF Oauth!UpdateCredentials, Oauth!Writing, WritesTyped,
               DeviceTyped
  <2> QED BY <1>0, <1>14, <2>4, <2>5 DEF Oauth!PassRefreshes, AppTyped, DeviceTyped, SyncTyped,
             Held
<1>15. CASE Oauth!PassEnds
  BY <1>0, <1>15 DEF Oauth!PassEnds, AppTyped, DeviceTyped, SyncTyped, WritesTyped, ServerTyped,
     Held
<1> QED BY <1>1, <1>2, <1>3, <1>4, <1>5, <1>6, <1>7, <1>8, <1>9, <1>10, <1>11, <1>12, <1>13,
           <1>14, <1>15 DEF Oauth!Next
-----------------------------------------------------------------------------
\* The copies of a record or of credentials, and what growing old leaves of them.
LEMMA AgedCopies ==
  ASSUME TokenTypes
  PROVE  /\ \A n : InApp(Oauth!Aged(account), n) = InApp(account, n)
              /\ InApp(Oauth!Aged(screen), n) = InApp(screen, n)
         /\ OnDevice(Oauth!AgedRecord(record)) = OnDevice(record)
         /\ record # Oauth!None => Oauth!AgedRecord(record) # Oauth!None
              /\ Oauth!AgedRecord(record).rev = record.rev
<1>1. \A n : \A c \in Held : InApp(Oauth!Aged(c), n) = InApp(c, n)
  <2> SUFFICES ASSUME NEW n, NEW c \in Held PROVE InApp(Oauth!Aged(c), n) = InApp(c, n)
    OBVIOUS
  <2>1. CASE c = Oauth!None
    BY <2>1 DEF Oauth!Aged
  <2>2. CASE c # Oauth!None
    BY <2>2, AgedIsHeld DEF InApp, Copy
  <2> QED BY <2>1, <2>2
<1>2. CASE record = Oauth!None
  BY <1>1, <1>2 DEF TokenTypes, Oauth!AgedRecord
<1>3. CASE record # Oauth!None
  <2>1. record \in Oauth!Record /\ record.c \in Oauth!Credential
    BY <1>3 DEF TokenTypes, Reads, Oauth!Record
  <2>2. Oauth!Aged(record.c) \in Oauth!Credential
          /\ Oauth!Aged(record.c).login = record.c.login
          /\ Oauth!Aged(record.c).gen = record.c.gen
    BY <2>1, AgedIsHeld, NoneIsNone DEF Held
  <2>3. Oauth!AgedRecord(record) = [record EXCEPT !.c = Oauth!Aged(record.c)]
    BY <1>3 DEF Oauth!AgedRecord
  <2>4. Oauth!AgedRecord(record) \in Oauth!Record /\ Oauth!AgedRecord(record).rev = record.rev
          /\ Oauth!AgedRecord(record).c = Oauth!Aged(record.c)
    BY <2>1, <2>2, <2>3 DEF Oauth!Record
  <2>5. Oauth!AgedRecord(record) # Oauth!None
    BY <2>4, NoneIsNone
  <2>6. OnDevice(Oauth!AgedRecord(record)) = OnDevice(record)
    BY <1>3, <2>2, <2>4, <2>5 DEF OnDevice, Copy
  <2> QED BY <1>1, <2>4, <2>5, <2>6 DEF TokenTypes
<1> QED BY <1>2, <1>3

\* A step that carries the copies on, and leaves the writes and the pass, keeps all order.
LEMMA CarriesAll ==
  ASSUME TokenTypes, TokenTypes', Orderly, Carries, UNCHANGED writes, UNCHANGED pass
  PROVE  Orderly'
<1>1. /\ Coherent' /\ Topmost' /\ \A p \in Copies' : Issued(p)'
      /\ \A c \in Oauth!Credential : (Newest(c) => Newest(c)') /\ (Issued(c) => Issued(c)')
  BY CarriesOrder
<1>2. AppWrites'
  BY DEF Orderly, AppWrites
<1>3. PassWrites'
  <2>1. CASE writes["pass"] = Oauth!None
    BY <2>1 DEF PassWrites
  <2>2. CASE writes["pass"] # Oauth!None
    <3>1. writes["pass"].value.c \in Oauth!Credential
      BY <2>2 DEF TokenTypes, Oauth!Record
    <3> QED BY <1>1, <2>2, <3>1 DEF Orderly, PassWrites, Newest, Issued
  <2> QED BY <2>1, <2>2
<1>4. Passes'
  <2>1. pass # Oauth!None => pass \in Oauth!Credential
    BY DEF TokenTypes, Held
  <2> QED BY <1>1, <2>1 DEF Orderly, Passes, Newest, Issued
<1> QED BY <1>1, <1>2, <1>3, <1>4 DEF Orderly

\* The generations are numbers, and stay while the last of each does.
LEMMA ServerStays ==
  ASSUME TokenTypes, server'.gen = server.gen, server'.logins = server.logins
  PROVE  Server
<1>1. server.gen \in [1..MaxLogins -> Nat] /\ server.logins \in 1..MaxLogins
  BY DEF TokenTypes
<1>2. ASSUME NEW n \in 1..MaxLogins PROVE server'.gen[n] >= server.gen[n]
  <2>1. server.gen[n] \in Nat
    BY <1>1
  <2> QED BY <2>1
<1>3. server.logins >= server.logins
  BY <1>1
<1> QED BY <1>2, <1>3 DEF Server

\* The same of a step that touches neither the servers nor the record.
LEMMA CarriesMore ==
  ASSUME TokenTypes, TokenTypes', Orderly, UNCHANGED server, Copies' \subseteq Copies,
         UNCHANGED record, stored' <= Revision
  PROVE  Carries
<1>1. Server
  BY ServerStays
<1>2. Revision' = Revision /\ Revision \in Nat
  BY CopiesAreTyped DEF Revision
<1> QED BY <1>1, <1>2 DEF Carries
-----------------------------------------------------------------------------
\* The steps of the app and its settings keep the order.
LEMMA AppKeepsOrder ==
  ASSUME Bounds, TokenTypes, TokenTypes', Orderly,
         \/ Oauth!Revoke \/ Oauth!Pass \/ Oauth!Remove \/ Oauth!Render \/ Oauth!Effect
         \/ Oauth!GetValidToken \/ Oauth!Send \/ Oauth!CredentialUpdates \/ Oauth!SaveUpdates
         \/ \E r \in asked : Oauth!Refreshed(r) \/ Oauth!RefreshFails(r)
  PROVE  mixed' \/ Orderly'
<1> USE DEF Oauth!app, Oauth!device, Oauth!settings
<1>0. stored <= Revision /\ Revision \in Nat
  BY CopiesAreTyped DEF Orderly, Topmost, TokenTypes
<1> DEFINE Same == Copies' = Copies /\ Revision' = Revision
<1>1. CASE Oauth!Revoke
  <2>1. Same
    BY <1>1 DEF Oauth!Revoke, Copies, InApp, OnDevice, Imported, Stored, Revision
  <2>2. Server
    <3>1. server'.gen = server.gen /\ server'.logins = server.logins
      BY <1>1 DEF Oauth!Revoke, TokenTypes
    <3> QED BY <3>1, ServerStays
  <2> QED BY <1>0, <1>1, <2>1, <2>2, CarriesAll DEF Oauth!Revoke, Carries
<1>2. CASE Oauth!Pass
  <2>1. Same
    BY <1>2, AgedCopies DEF Oauth!Pass, Copies, Imported, Stored, Revision, Oauth!AgedRecord
  <2>2. Server
    BY <1>2, ServerStays DEF Oauth!Pass
  <2> QED BY <1>0, <1>2, <2>1, <2>2, CarriesAll DEF Oauth!Pass, Carries
<1>3. CASE Oauth!Remove \/ Oauth!Render
  <2>1. Copies' \subseteq Copies
    BY <1>3 DEF Oauth!Remove, Oauth!Render, Copies, InApp, Imported, Stored
  <2>2. Carries
    BY <1>0, <1>3, <2>1, CarriesMore DEF Oauth!Remove, Oauth!Render
  <2> QED BY <1>3, <2>2, CarriesAll DEF Oauth!Remove, Oauth!Render
<1>4. CASE Oauth!Effect \/ Oauth!GetValidToken
  <2>1. Copies' = Copies
    BY <1>4 DEF Oauth!Effect, Oauth!GetValidToken, Copies, InApp, OnDevice, Imported, Stored
  <2>2. Carries
    BY <1>0, <1>4, <2>1, CarriesMore DEF Oauth!Effect, Oauth!GetValidToken
  <2> QED BY <1>4, <2>2, CarriesAll DEF Oauth!Effect, Oauth!GetValidToken
<1>5. CASE Oauth!Send
  <2>1. OnDevice(push') = InApp(screen, known)
    <3>1. screen \in Oauth!Credential /\ known \in Nat
      BY <1>5 DEF Oauth!Send, TokenTypes, Held
    <3>2. push' \in Oauth!Record /\ push'.c = screen /\ push'.rev = known
      BY <1>5, <3>1 DEF Oauth!Send, Oauth!Record
    <3> QED BY <1>5, <3>2, NoneIsNone DEF Oauth!Send, OnDevice, InApp
  <2>2. Copies' \subseteq Copies
    BY <1>5, <2>1 DEF Oauth!Send, Copies, Imported, Stored
  <2>3. Carries
    BY <1>0, <1>5, <2>2, CarriesMore DEF Oauth!Send
  <2> QED BY <1>5, <2>3, CarriesAll DEF Oauth!Send
<1>6. CASE Oauth!CredentialUpdates
  <2>1. Imported' \subseteq OnDevice(record)
    BY <1>6 DEF Oauth!CredentialUpdates, Imported, OnDevice
  <2>2. Copies' \subseteq Copies
    BY <1>6, <2>1 DEF Oauth!CredentialUpdates, Copies, Stored
  <2>3. Carries
    BY <1>0, <1>6, <2>2, CarriesMore DEF Oauth!CredentialUpdates
  <2> QED BY <1>6, <2>3, CarriesAll DEF Oauth!CredentialUpdates
<1>7. CASE Oauth!SaveUpdates
  <2>1. CASE ~import.found
    BY <1>7, <2>1 DEF Oauth!SaveUpdates
  <2>2. CASE import.found
    <3>1. InApp(account', stored') \subseteq Imported
      BY <1>7, <2>2 DEF Oauth!SaveUpdates, InApp, Imported
    <3>2. Copies' \subseteq Copies
      BY <1>7, <3>1 DEF Oauth!SaveUpdates, Copies, Imported, Stored
    <3>3. stored' <= Revision
      <4>1. Copy(import.record.c, import.record.rev) \in Copies
        BY <1>7 DEF Oauth!SaveUpdates, Copies, Imported
      <4>2. Copy(import.record.c, import.record.rev).rev = import.record.rev
        BY DEF Copy
      <4> QED BY <1>7, <4>1, <4>2 DEF Oauth!SaveUpdates, Orderly, Topmost
    <3>4. Carries
      BY <1>7, <3>2, <3>3, CarriesMore DEF Oauth!SaveUpdates
    <3> QED BY <1>7, <3>4, CarriesAll DEF Oauth!SaveUpdates
  <2> QED BY <2>1, <2>2
<1>8. ASSUME NEW r \in asked, Oauth!Refreshed(r) \/ Oauth!RefreshFails(r)
      PROVE  Orderly'
  <2>1. \A token \in Oauth!Tokens :
          InApp(Oauth!Updated(account, token), stored) \subseteq InApp(account, stored)
    <3> SUFFICES ASSUME NEW token \in Oauth!Tokens, account # Oauth!None
                 PROVE  InApp(Oauth!Updated(account, token), stored)
                           \subseteq InApp(account, stored)
      BY DEF InApp, Oauth!Updated
    <3> QED BY UpdatedIsHeld DEF TokenTypes, InApp, Copy
  <2>2. account' = account
          \/ \E token \in Oauth!Tokens : account' = Oauth!Updated(account, token)
    BY <1>8 DEF Oauth!Refreshed, Oauth!RefreshFails, Oauth!Tokens
  <2>3. Copies' \subseteq Copies /\ Revision' = Revision
    BY <1>8, <2>1, <2>2 DEF Oauth!Refreshed, Oauth!RefreshFails, Copies, OnDevice, Imported,
       Stored, Revision
  <2>4. Server
    <3>1. r.login \in 1..MaxLogins /\ r.gen \in 0..MaxGen
      BY DEF TokenTypes
    <3>2. CASE Oauth!Refreshed(r)
      <4>1. PICK g \in Oauth!Replacements(r) : Oauth!Issue(r, g)
        BY <3>2 DEF Oauth!Refreshed
      <4> QED BY <3>1, <4>1, ReplacementsAreLater, IssueGrows DEF Bounds
    <3>3. CASE Oauth!RefreshFails(r)
      BY <3>3, ServerStays DEF Oauth!RefreshFails
    <3> QED BY <1>8, <3>2, <3>3
  <2> QED BY <1>0, <1>8, <2>3, <2>4, CarriesAll DEF Oauth!Refreshed, Oauth!RefreshFails, Carries
<1> QED BY <1>1, <1>2, <1>3, <1>4, <1>5, <1>6, <1>7, <1>8

\* A new authorization is above every one there is.
LEMMA ConnectKeepsOrder ==
  ASSUME Bounds, TokenTypes, TokenTypes', Orderly, Oauth!Connect
  PROVE  Orderly'
<1> USE DEF Oauth!app, Oauth!device, Oauth!settings
<1> DEFINE n == server.logins + 1
           new == Copy(Oauth!Granted(n), stored)
<1>1. /\ server.logins \in Nat /\ n \in 1..MaxLogins /\ server'.logins = n
      /\ server'.gen = server.gen
      /\ \A m \in 1..MaxLogins : server.gen[m] \in Nat
  <2>1. server.gen \in [1..MaxLogins -> Nat] /\ server.logins \in 1..MaxLogins
    BY DEF TokenTypes
  <2> QED BY <2>1 DEF Oauth!Connect, TokenTypes, Bounds
<1>2. new.login = n /\ new.gen = 0 /\ new.rev = stored
  BY DEF Oauth!Granted, Copy
<1>3. Copies' \subseteq Copies \cup {new}
  BY <1>1 DEF Oauth!Connect, Copies, InApp, OnDevice, Imported, Stored
<1>4. /\ Copies \subseteq [login : 1..MaxLogins, gen : 0..MaxGen, rev : Nat]
      /\ Revision \in Nat /\ Revision' = Revision /\ stored' = stored
  BY CopiesAreTyped DEF Oauth!Connect, Revision
<1>5. \A p \in Copies : p.login <= server.logins /\ p.login # n
  <2>1. \A p \in Copies : p.login <= server.logins /\ p.login \in Int
    BY <1>4 DEF Orderly, Issued
  <2> QED BY <1>1, <2>1
<1>6. stored <= Revision /\ Coherent /\ \A p \in Copies : p.rev <= Revision /\ Issued(p)
  BY DEF Orderly, Topmost
<1> HIDE DEF new
<1>7. Coherent'
  BY <1>2, <1>3, <1>5, <1>6 DEF Coherent
<1>8. Topmost' /\ \A p \in Copies' : Issued(p)'
  <2>1. \A p \in Copies : Issued(p)'
    BY <1>1, <1>4, <1>5, <1>6 DEF Issued
  <2>2. \A p : p.login = n /\ p.gen = 0 => Issued(p)'
    BY <1>1 DEF Issued
  <2>3. \A p \in Copies' : Issued(p)'
    BY <1>2, <1>3, <2>1, <2>2
  <2>4. Topmost'
    BY <1>2, <1>3, <1>4, <1>6 DEF Topmost
  <2> QED BY <2>3, <2>4
<1>9. ASSUME NEW c \in Oauth!Credential, Newest(c), Issued(c)
      PROVE  Newest(c)' /\ Issued(c)'
  <2>1. c.login \in Int
    BY DEF Oauth!Credential
  <2>2. c.login # n
    BY <1>1, <1>9, <2>1 DEF Issued
  <2>3. Newest(c)'
    BY <1>2, <1>3, <1>9, <2>2 DEF Newest
  <2> QED BY <1>1, <1>9, <2>1, <2>3 DEF Issued
<1>10. writes' = writes /\ pass' = pass
  BY DEF Oauth!Connect
<1>11. PassWrites'
  <2>1. CASE writes["pass"] = Oauth!None
    BY <1>10, <2>1 DEF PassWrites
  <2>2. CASE writes["pass"] # Oauth!None
    <3>1. writes["pass"].value.c \in Oauth!Credential
      BY <2>2 DEF TokenTypes, Oauth!Record
    <3> QED BY <1>9, <1>10, <2>2, <3>1 DEF Orderly, PassWrites, Newest, Issued
  <2> QED BY <2>1, <2>2
<1>12. Passes'
  <2>1. pass # Oauth!None => pass \in Oauth!Credential
    BY DEF TokenTypes, Held
  <2> QED BY <1>9, <1>10, <2>1 DEF Orderly, Passes, Newest, Issued
<1> QED BY <1>7, <1>8, <1>10, <1>11, <1>12 DEF Orderly, AppWrites

\* What the app sends is not put on the device with a lower revision than it reads there.
LEMMA ConfigureKeepsOrder ==
  ASSUME TokenTypes, TokenTypes', Orderly, Oauth!ConfigureSync
  PROVE  Orderly'
<1> DEFINE v == Oauth!PutFromPrimary(record, push)
<1>1. v \in {record, push} /\ v \in Oauth!Record /\ (record # Oauth!None => record.rev <= v.rev)
  BY PutChooses DEF Oauth!ConfigureSync
<1>2. /\ writes'["app"] = [seen |-> record, value |-> v]
      /\ writes'["pass"] = writes["pass"]
  BY DEF Oauth!ConfigureSync, Oauth!Writing, TokenTypes
<1> HIDE DEF v
<1>3. writes'["app"].value = v /\ writes'["app"].seen = record
  BY <1>2
<1>4. Copies' \subseteq Copies
  <2>1. Stored' \subseteq OnDevice(v)
    BY <1>3 DEF Stored
  <2>2. OnDevice(v) \subseteq OnDevice(record) \cup OnDevice(push)
    BY <1>1
  <2>3. OnDevice(push') = {}
    BY DEF Oauth!ConfigureSync, OnDevice
  <2> QED BY <2>1, <2>2, <2>3 DEF Oauth!ConfigureSync, Oauth!settings, Oauth!app, Copies, InApp,
             Imported, OnDevice
<1>5. Carries
  <2>1. stored <= Revision
    BY DEF Orderly, Topmost
  <2> QED BY <1>4, <2>1, CarriesMore DEF Oauth!ConfigureSync
<1>6. /\ Coherent' /\ Topmost' /\ \A p \in Copies' : Issued(p)'
      /\ \A c \in Oauth!Credential : (Newest(c) => Newest(c)') /\ (Issued(c) => Issued(c)')
  BY <1>5, CarriesOrder
<1>7. AppWrites'
  BY <1>1, <1>3 DEF AppWrites
<1>8. PassWrites'
  <2>1. CASE writes["pass"] = Oauth!None
    BY <1>2, <2>1 DEF PassWrites
  <2>2. CASE writes["pass"] # Oauth!None
    <3>1. writes["pass"].value.c \in Oauth!Credential
      BY <2>2 DEF TokenTypes, Oauth!Record
    <3>2. PassWrites /\ pass' = pass
      BY DEF Orderly, Oauth!ConfigureSync
    <3> QED BY <1>2, <1>6, <2>2, <3>1, <3>2 DEF PassWrites, Newest, Issued
  <2> QED BY <2>1, <2>2
<1>9. Passes'
  <2>1. pass # Oauth!None => pass \in Oauth!Credential
    BY DEF TokenTypes, Held
  <2> QED BY <1>6, <2>1 DEF Oauth!ConfigureSync, Orderly, Passes, Newest, Issued
<1> QED BY <1>6, <1>7, <1>8, <1>9 DEF Orderly

\* A write that read what it replaces: of the app, a copy; of the pass, the newest with the
\* next revision.
LEMMA WriteKeepsOrder ==
  ASSUME TokenTypes, TokenTypes', Orderly, NEW w \in {"app", "pass"}, Oauth!Write(w),
           writes[w].seen = record
  PROVE  Orderly'
<1> DEFINE v == writes[w].value
<1>1. /\ v \in Oauth!Record /\ v.c \in Oauth!Credential /\ v.rev \in Nat /\ v # Oauth!None
      /\ record' = v
  BY NoneIsNone DEF Oauth!Write, TokenTypes, Oauth!Record
<1>2. \A x \in {"app", "pass"} : writes'[x] = IF x = w THEN Oauth!None ELSE writes[x]
  BY DEF Oauth!Write, TokenTypes
<1>3. /\ Revision \in Nat /\ Revision' = v.rev /\ stored <= Revision /\ stored' = stored
      /\ Copies \subseteq [login : 1..MaxLogins, gen : 0..MaxGen, rev : Nat] /\ stored \in Nat
  BY <1>1, CopiesAreTyped DEF Orderly, Topmost, Revision, Oauth!Write, Oauth!settings,
     TokenTypes
<1>4. Copies' \subseteq Copies \cup OnDevice(v)
  BY <1>1, <1>2 DEF Oauth!Write, Oauth!app, Oauth!settings, Copies, InApp, Imported, Stored
<1>5. Server /\ server' = server
  BY ServerStays DEF Oauth!Write
<1>6. CASE w = "app"
  <2>1. OnDevice(v) \subseteq Copies
    BY <1>6 DEF Oauth!Write, Copies, Stored
  <2>2. Copy(v.c, v.rev) \in Copies /\ Copy(v.c, v.rev).rev = v.rev
    BY <1>1, <2>1 DEF OnDevice, Copy
  <2>3. Revision <= v.rev
    <3>1. record # Oauth!None => record.rev <= v.rev
      BY <1>6 DEF Oauth!Write, Orderly, AppWrites
    <3> QED BY <1>1, <3>1 DEF Revision
  <2>4. Carries
    BY <1>1, <1>3, <1>4, <1>5, <2>1, <2>3 DEF Carries
  <2>5. /\ Coherent' /\ Topmost' /\ \A p \in Copies' : Issued(p)'
        /\ \A c \in Oauth!Credential : (Newest(c) => Newest(c)') /\ (Issued(c) => Issued(c)')
    BY <2>4, CarriesOrder
  <2>6. AppWrites'
    BY <1>2, <1>6 DEF AppWrites
  <2>7. PassWrites'
    <3>1. PassWrites /\ pass' = pass /\ writes'["pass"] = writes["pass"]
      BY <1>2, <1>6 DEF Orderly, Oauth!Write
    <3>2. writes["pass"] # Oauth!None => writes["pass"].value.c \in Oauth!Credential
      BY DEF TokenTypes, Oauth!Record
    <3> QED BY <2>5, <3>1, <3>2 DEF PassWrites, Newest, Issued
  <2>8. Passes'
    <3>1. pass # Oauth!None => pass \in Oauth!Credential
      BY DEF TokenTypes, Held
    <3> QED BY <2>5, <3>1 DEF Oauth!Write, Orderly, Passes, Newest, Issued
  <2> QED BY <2>5, <2>6, <2>7, <2>8 DEF Orderly
<1>7. CASE w = "pass"
  <2>1. /\ record # Oauth!None /\ v.rev = Revision + 1 /\ Newest(v.c) /\ Issued(v.c)
        /\ pass = Oauth!None
    BY <1>7 DEF Oauth!Write, Orderly, PassWrites, Revision
  <2> DEFINE new == Copy(v.c, v.rev)
  <2>2. Copies' \subseteq Copies \cup {new}
    BY <1>4 DEF OnDevice
  <2>3. new.login = v.c.login /\ new.gen = v.c.gen /\ new.rev = Revision + 1 /\ v.c.gen \in Int
    BY <1>1, <2>1 DEF Copy, Oauth!Credential
  <2>4. /\ Coherent /\ \A p \in Copies : p.rev <= Revision /\ p.rev \in Int /\ Issued(p)
    BY <1>3 DEF Orderly, Topmost
  <2> HIDE DEF new, v
  <2>5. \A p \in Copies : p.login = new.login => p.gen <= new.gen
    BY <2>1, <2>3 DEF Newest
  <2>6. \A p \in Copies : ~(new.rev <= p.rev)
    BY <1>3, <2>3, <2>4
  <2>7. Coherent'
    BY <2>2, <2>3, <2>4, <2>5, <2>6 DEF Coherent
  <2>8. Topmost'
    BY <1>3, <2>1, <2>2, <2>3, <2>4 DEF Topmost
  <2>9. \A p \in Copies' : Issued(p)'
    <3>1. \A p : p.login = v.c.login /\ p.gen = v.c.gen => Issued(p)
      BY <2>1 DEF Issued
    <3> QED BY <1>5, <2>2, <2>3, <2>4, <3>1 DEF Issued
  <2>10. AppWrites'
    BY <1>2, <1>7 DEF AppWrites, Orderly
  <2>11. PassWrites' /\ Passes'
    BY <1>2, <1>7, <2>1 DEF PassWrites, Passes, Oauth!Write
  <2> QED BY <2>7, <2>8, <2>9, <2>10, <2>11 DEF Orderly
<1> QED BY <1>6, <1>7

\* The background pass reads the newest credentials there are, and refreshes from them.
LEMMA PassKeepsOrder ==
  ASSUME Bounds, TokenTypes, TokenTypes', Orderly, Oauth!StartPass \/ Oauth!PassRefreshes
           \/ Oauth!PassEnds
  PROVE  Orderly'
<1> USE DEF Oauth!app, Oauth!device, Oauth!settings
<1>1. Copies' = Copies /\ Revision' = Revision /\ stored' = stored
        /\ writes'["app"] = writes["app"]
  BY DEF Oauth!StartPass, Oauth!PassRefreshes, Oauth!PassEnds, Oauth!UpdateCredentials,
     Oauth!Writing, TokenTypes,
         Copies, InApp, OnDevice, Imported, Stored, Revision
<1>2. stored <= Revision /\ Revision \in Nat
  BY CopiesAreTyped DEF Orderly, Topmost
<1>3. CASE Oauth!StartPass
  <2>1. Carries
    BY <1>1, <1>2, <1>3, CarriesMore DEF Oauth!StartPass
  <2>2. /\ Coherent' /\ Topmost' /\ \A p \in Copies' : Issued(p)'
        /\ \A c \in Oauth!Credential : (Newest(c) => Newest(c)') /\ (Issued(c) => Issued(c)')
    BY <2>1, CarriesOrder
  <2>3. /\ record # Oauth!None /\ pass' = record.c /\ record.c \in Oauth!Credential
        /\ Revision = record.rev
        /\ writes' = writes /\ writes["pass"] = Oauth!None
    BY <1>3 DEF Oauth!StartPass, TokenTypes, Reads, Oauth!Record, Revision
  <2> DEFINE r == Copy(record.c, record.rev)
  <2>4. r \in Copies /\ r.login = record.c.login /\ r.gen = record.c.gen /\ r.rev = Revision
    BY <2>3 DEF Copies, OnDevice, Copy
  <2> HIDE DEF r
  <2>5. Newest(record.c) /\ Issued(record.c)
    BY <2>4 DEF Orderly, Coherent, Topmost, Newest, Issued
  <2>6. Passes'
    BY <2>2, <2>3, <2>5 DEF Passes, Newest, Issued
  <2> QED BY <1>1, <2>2, <2>3, <2>6 DEF Orderly, AppWrites, PassWrites
<1>4. CASE Oauth!PassRefreshes
  <2>1. pass \in Oauth!Credential /\ pass # Oauth!None /\ Newest(pass) /\ Issued(pass)
          /\ pass' = Oauth!None
    BY <1>4 DEF Oauth!PassRefreshes, TokenTypes, Held, Orderly, Passes
  <2>2. PICK g \in Oauth!Replacements(pass) :
          /\ Oauth!Issue(pass, g)
          /\ Oauth!UpdateCredentials([pass EXCEPT !.gen = g, !.token = "good"])
               \/ UNCHANGED writes
    BY <1>4 DEF Oauth!PassRefreshes
  <2>3. pass.login \in 1..MaxLogins /\ pass.gen \in 0..MaxGen
    BY <2>1 DEF Oauth!Credential
  <2>4. g \in Nat /\ g >= pass.gen
    BY <2>1, <2>3, ReplacementsAreLater DEF Bounds, Issued
  <2>5. Server /\ server'.gen[pass.login] >= g /\ server'.logins = server.logins
    BY <2>2, <2>3, <2>4, IssueGrows
  <2>6. Carries
    BY <1>1, <1>2, <2>5 DEF Carries
  <2>7. /\ Coherent' /\ Topmost' /\ \A p \in Copies' : Issued(p)'
        /\ \A c \in Oauth!Credential : (Newest(c) => Newest(c)') /\ (Issued(c) => Issued(c)')
    BY <2>6, CarriesOrder
  <2> DEFINE c == [pass EXCEPT !.gen = g, !.token = "good"]
  <2>8. c.login = pass.login /\ c.gen = g
    BY <2>1 DEF Oauth!Credential
  <2> HIDE DEF c
  <2>9. \A d : d.login = pass.login /\ d.gen = g => Newest(d)' /\ Issued(d)'
    <3>1. Copies \subseteq [login : 1..MaxLogins, gen : 0..MaxGen, rev : Nat]
      BY CopiesAreTyped
    <3>2. pass.login <= server'.logins
      BY <2>1, <2>5 DEF Issued
    <3> QED BY <1>1, <2>1, <2>3, <2>4, <2>5, <3>1, <3>2 DEF Newest, Issued
  <2>10. PassWrites'
    <3>1. CASE UNCHANGED writes
      BY <1>4, <2>1, <3>1 DEF Oauth!PassRefreshes, Orderly, PassWrites
    <3>2. CASE record # Oauth!None
            /\ Oauth!Writing("pass", Oauth!WithCredentialUpdate(record, c))
      <4>1. writes'["pass"] = [seen |-> record, value |-> [c |-> c, rev |-> record.rev + 1]]
        BY <3>2 DEF Oauth!Writing, Oauth!WithCredentialUpdate, TokenTypes
      <4>2. /\ writes'["pass"].seen = record /\ writes'["pass"].value.rev = record.rev + 1
            /\ writes'["pass"].value.c = c
        BY <4>1
      <4> QED BY <2>1, <2>8, <2>9, <3>2, <4>2 DEF PassWrites
    <3> QED BY <2>2, <3>1, <3>2 DEF Oauth!UpdateCredentials, c
  <2> QED BY <1>1, <2>1, <2>7, <2>10 DEF Orderly, AppWrites, Passes
<1>5. CASE Oauth!PassEnds
  <2>1. Carries
    BY <1>1, <1>2, <1>5, CarriesMore DEF Oauth!PassEnds
  <2>2. /\ Coherent' /\ Topmost' /\ \A p \in Copies' : Issued(p)'
        /\ \A c \in Oauth!Credential : (Newest(c) => Newest(c)') /\ (Issued(c) => Issued(c)')
    BY <2>1, CarriesOrder
  <2>3. PassWrites => (pass # Oauth!None => writes["pass"] = Oauth!None)
    BY DEF PassWrites
  <2> QED BY <1>5, <2>2, <2>3 DEF Oauth!PassEnds, Orderly, AppWrites, PassWrites, Passes
<1> QED BY <1>3, <1>4, <1>5
-----------------------------------------------------------------------------
\* What was mixed stays so.
LEMMA MixedStays == mixed /\ Oauth!Next => mixed'
BY DEF Oauth!Next, Oauth!Revoke, Oauth!Pass, Oauth!Connect, Oauth!Remove, Oauth!Render,
   Oauth!Effect, Oauth!GetValidToken, Oauth!Refreshed, Oauth!RefreshFails,
   Oauth!Send, Oauth!ConfigureSync, Oauth!Write, Oauth!DisableSync, Oauth!CredentialUpdates,
     Oauth!SaveUpdates, Oauth!StartPass, Oauth!PassRefreshes,
   Oauth!PassEnds, Oauth!device

\* Every step keeps the invariant; the two that only set the history of mixed leave nothing to show.
LEMMA NextKeepsInv == Bounds /\ TokenInv /\ Oauth!Next => TokenInv'
<1> SUFFICES ASSUME Bounds, TokenInv, Oauth!Next PROVE TokenInv'
  OBVIOUS
<1>1. TokenTypes'
  BY TypesKept DEF TokenInv
<1>2. CASE mixed
  <2>1. mixed'
    BY <1>2, MixedStays
  <2> QED BY <1>1, <2>1 DEF TokenInv
<1>3. CASE TokenTypes /\ Orderly
  <2>1. CASE Oauth!DisableSync
    BY <1>1, <2>1 DEF Oauth!DisableSync, TokenInv
  <2>2. ASSUME NEW w \in {"app", "pass"}, Oauth!Write(w)
        PROVE  mixed' \/ Orderly'
    <3>1. CASE writes[w].seen # record
      BY <2>2, <3>1 DEF Oauth!Write
    <3>2. CASE writes[w].seen = record
      BY <1>1, <1>3, <2>2, <3>2, WriteKeepsOrder
    <3> QED BY <3>1, <3>2
  <2>3. mixed' \/ Orderly'
    BY <1>1, <1>3, <2>1, <2>2, AppKeepsOrder, ConnectKeepsOrder, ConfigureKeepsOrder,
       PassKeepsOrder
    DEF Oauth!Next, Oauth!DisableSync
  <2> QED BY <1>1, <2>3 DEF TokenInv
<1> QED BY <1>2, <1>3 DEF TokenInv

\* And a step that replaces the record brings its refresh token no further back.
LEMMA NextKeepsRotation == TokenInv /\ Oauth!Next => Oauth!KeepsRotation \/ UNCHANGED record
<1> SUFFICES ASSUME TokenInv, Oauth!Next, ~mixed', record' # record, record # Oauth!None,
                      record' # Oauth!None,
                    record'.c.login = record.c.login
             PROVE  record'.c.gen >= record.c.gen
  BY DEF Oauth!KeepsRotation
<1>1. TokenTypes /\ (mixed => mixed')
  BY MixedStays DEF TokenInv
<1>2. Orderly
  BY <1>1 DEF TokenInv
<1>3. record \in Oauth!Record /\ record.c \in Oauth!Credential /\ record.c.gen \in Nat
        /\ record.rev \in Nat
  BY <1>1 DEF TokenTypes, Reads, Oauth!Record, Oauth!Credential
<1>4. CASE Oauth!Pass
  <2>1. record' = [record EXCEPT !.c = Oauth!Aged(record.c)]
    BY <1>4 DEF Oauth!Pass, Oauth!AgedRecord
  <2>2. Oauth!Aged(record.c).gen = record.c.gen
    BY <1>3, AgedIsHeld, NoneIsNone DEF Held
  <2>3. record'.c = Oauth!Aged(record.c)
    BY <1>3, <2>1 DEF Oauth!Record
  <2> QED BY <1>3, <2>2, <2>3
<1>5. ASSUME NEW w \in {"app", "pass"}, Oauth!Write(w)
      PROVE  record'.c.gen >= record.c.gen
  <2>1. writes[w].seen = record /\ record' = writes[w].value
    BY <1>5 DEF Oauth!Write
  <2> DEFINE old == Copy(record.c, record.rev)
             new == Copy(record'.c, record'.rev)
  <2>2. old \in Copies /\ old.login = record.c.login /\ old.gen = record.c.gen
          /\ old.rev = record.rev
    BY DEF Copies, OnDevice, Copy
  <2>3. new.login = record'.c.login /\ new.gen = record'.c.gen /\ new.rev = record'.rev
    BY DEF Copy
  <2>4. CASE w = "app"
    <3>1. new \in Copies
      BY <2>1, <2>4 , <1>5 DEF Oauth!Write, Copies, Stored, OnDevice
    <3>2. record.rev <= record'.rev
      BY <1>2, <1>5, <2>1, <2>4 DEF Orderly, AppWrites, Oauth!Write
    <3>3. Coherent
      BY <1>2 DEF Orderly
    <3> HIDE DEF old, new
    <3>4. old.gen <= new.gen
      BY <2>2, <2>3, <3>1, <3>2, <3>3 DEF Coherent
    <3>5. record'.c.gen \in Nat
      BY <1>1, <1>5, <2>1, <2>4 DEF TokenTypes, Oauth!Write, Oauth!Record, Oauth!Credential
    <3> QED BY <1>3, <2>2, <2>3, <3>4, <3>5
  <2>5. CASE w = "pass"
    <3>1. Newest(record'.c)
      BY <1>2, <1>5, <2>1, <2>5 DEF Orderly, PassWrites, Oauth!Write
    <3> HIDE DEF old, new
    <3>2. old.gen <= record'.c.gen
      BY <2>2, <3>1 DEF Newest
    <3>3. record'.c.gen \in Nat
      BY <1>1, <1>5, <2>1, <2>5 DEF TokenTypes, Oauth!Write, Oauth!Record, Oauth!Credential
    <3> QED BY <1>3, <2>2, <3>2, <3>3
  <2> QED BY <2>4, <2>5
<1> QED
  BY <1>4, <1>5 DEF Oauth!Next, Oauth!Revoke, Oauth!Connect, Oauth!Remove, Oauth!Render,
     Oauth!Effect, Oauth!GetValidToken, Oauth!Refreshed, Oauth!RefreshFails,
     Oauth!Send, Oauth!ConfigureSync, Oauth!DisableSync, Oauth!CredentialUpdates,
       Oauth!SaveUpdates, Oauth!StartPass, Oauth!PassRefreshes, Oauth!PassEnds, Oauth!device

\* A refresh token a background pass received is not replaced on the device by an
\* older one of its authorization (SyncVault.kt's revisions), unless writes of the
\* record overlapped or one of the other losses of mixed happened.
THEOREM TokensRotateForward == ASSUME Bounds PROVE MCSpec => RotationKept
<1> DEFINE Inv == part = "oauth" => TokenInv
<1>1. MCInit => Inv
  BY PartsStart, TokenInit
<1>2. TokenInv /\ [Oauth!Next]_(Oauth!vars) => TokenInv'
  <2>1. TokenInv /\ UNCHANGED Oauth!vars => TokenInv'
    <3> SUFFICES ASSUME TokenInv, UNCHANGED Oauth!vars PROVE TokenInv'
      OBVIOUS
    <3>1. TokenTypes'
      BY DEF Oauth!vars, TokenInv, TokenTypes
    <3>2. Copies' = Copies /\ Revision' = Revision
      BY DEF Oauth!vars, Copies, InApp, OnDevice, Imported, Stored, Revision
    <3>3. Orderly => Orderly'
      BY <3>2 DEF Oauth!vars, Orderly, Coherent, Topmost, Newest, Issued, AppWrites, PassWrites,
         Passes
    <3> QED BY <3>1, <3>3 DEF Oauth!vars, TokenInv
  <2> QED BY <2>1, NextKeepsInv
<1>3. TokenInv /\ [Oauth!Next]_(Oauth!vars) => Oauth!KeepsRotation
  <2>1. TokenInv /\ UNCHANGED record => Oauth!KeepsRotation
    BY DEF TokenInv, TokenTypes, Reads, Oauth!Record, Oauth!Credential, Oauth!KeepsRotation
  <2> QED BY <2>1, NextKeepsRotation DEF Oauth!vars
<1>4. Inv /\ [MCNext]_allVars => Inv'
  BY <1>2, PartStays, PartsStep
<1>5. Inv /\ [MCNext]_allVars => [part = "oauth" => Oauth!KeepsRotation]_allVars
  BY <1>3, PartsStep
<1> QED BY <1>1, <1>4, <1>5, PTL DEF MCSpec, RotationKept
-----------------------------------------------------------------------------
(* Invitation: what the card shows, for any meetings, times and number of    *)
(* calls of the user and of other clients.                                  *)

Meeting == [start : Times \cup {1}, key : Nat, reply : Card!Replies \cup {"NONE"}]
Choice == Card!Replies \cup {"NONE"}

(* The calls: an answer whose meeting is to be found, one that has it, and   *)
(* the acceptance of a proposal.                                            *)
Finding == [what : {"rsvp"}, to : Card!Replies, before : Choice, stage : {"find"}]
Answering == [what : {"rsvp"}, event : Meetings, seen : Meeting, to : Card!Replies,
              before : Choice, stage : {"send", "done"}]
Accepting == [what : {"counter"}, event : Meetings, seen : Meeting,
              stage : {"send", "compare", "done"}]
Action == Finding \cup Answering \cup Accepting

CardTypes == /\ kind \in {"google", "nextcloud", "exchange"} /\ method \in {"REQUEST", "COUNTER"}
             /\ calendar \in [Meetings -> Meeting]
             /\ DOMAIN listed \subseteq Meetings /\ listed \in [DOMAIN listed -> Meeting]
             /\ action = <<>> \/ \E a \in Action : action = <<a>>
             /\ override \in Choice /\ accepted \in {<<>>} \cup {<<m>> : m \in Meetings}

(* The choice on display was carried out, or its call is under way; the call *)
(* remembers a choice that was.                                             *)
ReplyIsTrue ==
  /\ override # "NONE" => override \in agreed \/ (action # <<>> /\ action[1].what = "rsvp")
  /\ action # <<>> /\ action[1].what = "rsvp" =>
        /\ action[1].before # "NONE" => action[1].before \in agreed
        /\ override = action[1].to
        /\ action[1].stage = "done" => action[1].to \in agreed

(* A proposal is accepted by the card of one only; what has been at the time *)
(* it proposes is known while a call is under way.                          *)
ProposalIsTrue ==
  /\ method = "REQUEST" => accepted = <<>>
  /\ accepted # <<>> => accepted[1] \in there \/ (action # <<>> /\ action[1].what = "counter")
  /\ action # <<>> /\ action[1].what = "counter" =>
        /\ accepted = <<action[1].event>>
        /\ action[1].stage = "done" => action[1].event \in there
  /\ action # <<>> => Card!AtProposed(calendar) \cup Card!AtProposed(listed) \subseteq there

CardInv == CardTypes /\ ReplyIsTrue /\ ProposalIsTrue

LEMMA CardStarts == Card!Init => CardInv
  <1> SUFFICES ASSUME Card!Init PROVE CardInv
    OBVIOUS
  <1>1. calendar \in [Meetings -> Meeting]
    BY DEF Card!Init, Meeting
  <1>2. DOMAIN listed \subseteq Meetings /\ listed \in [DOMAIN listed -> Meeting]
    <2>1. PICK loaded \in SUBSET Meetings : listed = [m \in loaded |-> calendar[m]]
      BY DEF Card!Init, Card!Restrict
    <2>2. DOMAIN listed = loaded
      BY <2>1
    <2> QED BY <1>1, <2>1, <2>2
  <1> QED BY <1>1, <1>2 DEF Card!Init, CardInv, CardTypes, ReplyIsTrue, ProposalIsTrue, Choice

(* The action under way, by its kind.                                       *)
LEMMA ActionKinds ==
    ASSUME CardTypes, action # <<>>
    PROVE  /\ action[1] \in Action /\ action = <<action[1]>>
           /\ action[1].stage = "find" => action[1] \in Finding
           /\ action[1].what = "rsvp" => action[1] \in Finding \cup Answering
           /\ action[1].what = "counter" => action[1] \in Accepting
           /\ action[1].what \in {"rsvp", "counter"}
  <1>1. PICK a \in Action : action = <<a>>
    BY DEF CardTypes
  <1>2. action[1] = a
    BY <1>1
  <1> QED BY <1>1, <1>2 DEF Action, Finding, Answering, Accepting

LEMMA MatchingListed ==
    ASSUME NEW events PROVE Card!Matching(events) \subseteq DOMAIN events
  BY DEF Card!Matching

LEMMA RsvpKeeps ==
    ASSUME CardInv, NEW status \in Card!Replies, Card!Rsvp(status) PROVE CardInv'
  <1>0. CardTypes /\ action = <<>> /\ method = "REQUEST"
    BY DEF CardInv, Card!Rsvp, Card!Begin, Card!Busy
  <1>1. /\ UNCHANGED <<kind, method, calendar, listed, agreed, accepted>> /\ override' = status
        /\ there' = Card!AtProposed(calendar) \cup Card!AtProposed(listed)
    BY DEF Card!Rsvp, Card!Begin
  <1>2. \E a \in Action : action' = <<a>> /\ a.what = "rsvp" /\ a.to = status /\ a.stage # "done"
                          /\ a.before = override
    <2>1. ASSUME NEW m \in Card!Matching(listed),
                 Card!Begin([what |-> "rsvp", event |-> m, seen |-> listed[m], to |-> status,
                             before |-> override, stage |-> "send"])
          PROVE  [what |-> "rsvp", event |-> m, seen |-> listed[m], to |-> status,
                  before |-> override, stage |-> "send"] \in Answering
      <3>1. m \in DOMAIN listed /\ m \in Meetings /\ listed[m] \in Meeting
        BY <1>0, MatchingListed DEF CardTypes
      <3> QED BY <1>0, <3>1 DEF CardTypes, Answering
    <2>2. [what |-> "rsvp", to |-> status, before |-> override, stage |-> "find"] \in Finding
      BY <1>0 DEF CardTypes, Finding
    <2> QED BY <2>1, <2>2 DEF Card!Rsvp, Card!Begin, Action
  <1>3. PICK a \in Action : /\ action' = <<a>> /\ a.what = "rsvp" /\ a.to = status
                            /\ a.stage # "done" /\ a.before = override
    BY <1>2
  <1>4. action'[1] = a /\ action' # <<>>
    BY <1>3
  <1>5. CardTypes'
    BY <1>0, <1>1, <1>3 DEF CardTypes, Choice
  <1>6. ReplyIsTrue'
    BY <1>0, <1>1, <1>3, <1>4 DEF CardInv, ReplyIsTrue
  <1>7. ProposalIsTrue'
    BY <1>0, <1>1, <1>3, <1>4 DEF CardInv, ProposalIsTrue, Card!AtProposed, Card!Proposed
  <1> QED BY <1>5, <1>6, <1>7 DEF CardInv

LEMMA AcceptKeeps == ASSUME CardInv, Card!AcceptCounter PROVE CardInv'
  <1>0. CardTypes /\ action = <<>> /\ method = "COUNTER" /\ accepted = <<>>
    BY DEF CardInv, Card!AcceptCounter, Card!Begin, Card!Busy
  <1>1. PICK m \in Card!Counterpart(listed) :
          /\ Card!Begin([what |-> "counter", event |-> m, seen |-> listed[m], stage |-> "send"])
          /\ accepted' = <<m>>
    BY DEF Card!AcceptCounter
  <1> DEFINE a == [what |-> "counter", event |-> m, seen |-> listed[m], stage |-> "send"]
  <1>2. m \in Meetings /\ listed[m] \in Meeting
    BY <1>0 DEF Card!Counterpart, CardTypes
  <1>3. a \in Accepting /\ a.what = "counter" /\ a.event = m /\ a.stage = "send"
    BY <1>2 DEF Accepting
  <1>4. action' = <<a>>
    BY <1>1 DEF Card!Begin
  <1> HIDE DEF a
  <1>5. /\ UNCHANGED <<kind, method, calendar, listed, agreed, override>>
        /\ there' = Card!AtProposed(calendar) \cup Card!AtProposed(listed)
    BY <1>1 DEF Card!AcceptCounter, Card!Begin
  <1>6. action'[1] = a /\ action' # <<>> /\ accepted'[1] = m
    BY <1>1, <1>4
  <1>7. CardTypes'
    BY <1>0, <1>1, <1>2, <1>3, <1>4, <1>5 DEF CardTypes, Action
  <1>8. ReplyIsTrue'
    BY <1>0, <1>3, <1>5, <1>6 DEF CardInv, ReplyIsTrue
  <1>9. ProposalIsTrue'
    BY <1>0, <1>1, <1>3, <1>5, <1>6 DEF ProposalIsTrue, Card!AtProposed, Card!Proposed
  <1> QED BY <1>7, <1>8, <1>9 DEF CardInv

LEMMA FindKeeps == ASSUME CardInv, Card!Find PROVE CardInv'
  <1> USE DEF Card!Shown, Card!facts
  <1>0. /\ CardTypes /\ action # <<>> /\ action[1].stage = "find" /\ action[1] \in Finding
        /\ listed' = calendar
        /\ UNCHANGED <<kind, method, calendar, override, accepted, agreed, there>>
    BY ActionKinds DEF CardInv, Card!Find, Card!Busy
  <1>1. PICK m \in Card!Matching(calendar) :
          action' = <<[what |-> "rsvp", event |-> m, seen |-> calendar[m], to |-> action[1].to,
                       before |-> action[1].before, stage |-> "send"]>>
    BY DEF Card!Find
  <1> DEFINE found == [what |-> "rsvp", event |-> m, seen |-> calendar[m], to |-> action[1].to,
                       before |-> action[1].before, stage |-> "send"]
  <1>2. m \in Meetings /\ calendar[m] \in Meeting
    BY <1>0, MatchingListed DEF CardTypes
  <1>3. found \in Answering /\ found.what = "rsvp" /\ found.stage = "send"
        /\ found.to = action[1].to /\ found.before = action[1].before
    BY <1>0, <1>2 DEF Finding, Answering
  <1>4. action' = <<found>> /\ action'[1] = found
    BY <1>1
  <1> HIDE DEF found
  <1>5. CardTypes'
    BY <1>0, <1>3, <1>4 DEF CardTypes, Action
  <1>6. ReplyIsTrue'
    BY <1>0, <1>3, <1>4 DEF CardInv, ReplyIsTrue, Finding
  <1>7. ProposalIsTrue'
    BY <1>0, <1>3, <1>4 DEF CardInv, ProposalIsTrue, Finding, Card!AtProposed, Card!Proposed
  <1> QED BY <1>5, <1>6, <1>7 DEF CardInv

(* A version of a meeting that another call or client makes.                *)
LEMMA MeetingsTyped ==
    ASSUME CardTypes, NEW m \in Meetings
    PROVE  /\ \A to \in Card!Replies : [calendar EXCEPT ![m].reply = to] \in [Meetings -> Meeting]
           /\ \A to \in Card!Replies : Card!AtProposed([calendar EXCEPT ![m].reply = to])
                                          = Card!AtProposed(calendar)
           /\ \A t \in Times \cup {1} :
                 [calendar EXCEPT ![m].start = t, ![m].key = @ + 1] \in [Meetings -> Meeting]
  <1>1. calendar \in [Meetings -> Meeting] /\ calendar[m] \in Meeting
    BY DEF CardTypes
  <1>2. ASSUME NEW to \in Card!Replies
        PROVE  /\ [calendar EXCEPT ![m].reply = to] \in [Meetings -> Meeting]
               /\ \A n \in Meetings : [calendar EXCEPT ![m].reply = to][n].start = calendar[n].start
    <2>1. [calendar[m] EXCEPT !.reply = to] \in Meeting
      BY <1>1 DEF Meeting
    <2>2. [calendar[m] EXCEPT !.reply = to].start = calendar[m].start
      BY <1>1 DEF Meeting
    <2> QED BY <1>1, <2>1, <2>2
  <1>3. ASSUME NEW to \in Card!Replies
        PROVE  Card!AtProposed([calendar EXCEPT ![m].reply = to]) = Card!AtProposed(calendar)
    BY <1>1, <1>2 DEF Card!AtProposed
  <1>4. ASSUME NEW t \in Times \cup {1}
        PROVE  [calendar EXCEPT ![m].start = t, ![m].key = @ + 1] \in [Meetings -> Meeting]
    <2>0. calendar[m].key + 1 \in Nat
      BY <1>1 DEF Meeting
    <2> DEFINE k == calendar[m].key + 1
    <2> HIDE DEF k
    <2>3. [calendar[m] EXCEPT !.start = t, !.key = k] \in Meeting
      BY <1>1, <2>0 DEF Meeting, k
    <2>1. [calendar[m] EXCEPT !.start = t, !.key = calendar[m].key + 1] \in Meeting
      BY <2>3 DEF k
    <2>2. [calendar EXCEPT ![m].start = t, ![m].key = @ + 1]
            = [calendar EXCEPT ![m] = [calendar[m] EXCEPT !.start = t, !.key = calendar[m].key + 1]]
      BY <1>1 DEF Meeting
    <2> QED BY <1>1, <2>1, <2>2
  <1> QED BY <1>2, <1>3, <1>4

LEMMA RespondKeeps == ASSUME CardInv, Card!Respond PROVE CardInv'
  <1> USE DEF Card!Shown, Card!facts, Card!Step
  <1> DEFINE done == [action[1] EXCEPT !.stage = "done"]
  <1>0. /\ CardTypes /\ action # <<>> /\ action[1].what = "rsvp" /\ action[1].stage = "send"
        /\ UNCHANGED <<kind, method, listed, override, accepted, there>>
        /\ agreed' = agreed \cup {action[1].to} /\ action' = <<done>>
        /\ calendar' = [calendar EXCEPT ![action[1].event].reply = action[1].to]
    BY DEF CardInv, Card!Respond, Card!Busy
  <1>1. action[1] \in Answering
    BY <1>0, ActionKinds DEF Finding
  <1>2. /\ done \in Answering /\ done.what = "rsvp" /\ done.to = action[1].to
        /\ done.before = action[1].before
        /\ action[1].event \in Meetings /\ action[1].to \in Card!Replies
    BY <1>1 DEF Answering
  <1> HIDE DEF done
  <1>3. action'[1] = done /\ action' # <<>>
    BY <1>0
  <1>4. /\ calendar' \in [Meetings -> Meeting]
        /\ Card!AtProposed(calendar') = Card!AtProposed(calendar)
    BY <1>0, <1>2, MeetingsTyped
  <1>5. CardTypes'
    BY <1>0, <1>2, <1>4 DEF CardTypes, Action
  <1>6. ReplyIsTrue'
    BY <1>0, <1>2, <1>3 DEF CardInv, ReplyIsTrue
  <1>7. Card!AtProposed(listed') = Card!AtProposed(listed)
    BY <1>0
  <1>8. (Card!AtProposed(calendar) \cup Card!AtProposed(listed) \subseteq there)'
    BY <1>0, <1>4, <1>7 DEF CardInv, ProposalIsTrue, Card!AtProposed, Card!Proposed
  <1>9. ProposalIsTrue'
    BY <1>0, <1>2, <1>3, <1>8 DEF CardInv, ProposalIsTrue
  <1> QED BY <1>5, <1>6, <1>9 DEF CardInv

(* The calendar changes, and what is at the proposed time is noted.          *)
LEMMA CalendarKeeps ==
    ASSUME CardInv, UNCHANGED <<kind, method, listed, action, override, accepted, agreed>>,
           calendar' \in [Meetings -> Meeting],
           there' = there \cup Card!AtProposed(calendar')
    PROVE  CardInv'
  <1>1. CardTypes'
    BY DEF CardInv, CardTypes
  <1>2. ReplyIsTrue'
    BY DEF CardInv, ReplyIsTrue
  <1>3. ProposalIsTrue'
    BY DEF CardInv, ProposalIsTrue, Card!AtProposed, Card!Proposed
  <1> QED BY <1>1, <1>2, <1>3 DEF CardInv

LEMMA OtherKeeps ==
    ASSUME CardInv, NEW m \in Meetings, NEW t \in Times, Card!OtherMoves(m, t) PROVE CardInv'
  <1>1. CardTypes
    BY DEF CardInv
  <1>2. calendar' \in [Meetings -> Meeting]
    BY <1>1, MeetingsTyped DEF Card!OtherMoves
  <1>3. there' = there \cup Card!AtProposed(calendar')
    BY DEF Card!OtherMoves, Card!AtProposed, Card!Proposed
  <1> QED BY <1>2, <1>3, CalendarKeeps DEF Card!OtherMoves, Card!card

LEMMA MoveKeeps == ASSUME CardInv, Card!Move PROVE CardInv'
  <1> USE DEF Card!Shown, Card!facts, Card!Step
  <1> DEFINE done == [action[1] EXCEPT !.stage = "done"]
             m == action[1].event
  <1>0. /\ CardTypes /\ action # <<>> /\ action[1].what = "counter" /\ action[1].stage = "send"
        /\ UNCHANGED <<kind, method, listed, override, accepted, agreed>>
        /\ action' = <<done>>
        /\ calendar' = [calendar EXCEPT ![m].start = Card!Proposed[m], ![m].key = @ + 1]
        /\ there' = there \cup Card!AtProposed(calendar')
    BY DEF CardInv, Card!Move, Card!Busy, Card!AtProposed, Card!Proposed
  <1>1. action[1] \in Accepting
    BY <1>0, ActionKinds
  <1>2. done \in Accepting /\ done.what = "counter" /\ done.event = m /\ m \in Meetings
    BY <1>1 DEF Accepting
  <1> HIDE DEF done
  <1>3. action'[1] = done /\ action' # <<>>
    BY <1>0
  <1>4. Card!Proposed[m] = 1
    BY <1>2 DEF Card!Proposed
  <1>5. calendar' \in [Meetings -> Meeting]
    BY <1>0, <1>2, <1>4, MeetingsTyped
  <1>6. m \in Card!AtProposed(calendar')
    <2>1. calendar[m] \in Meeting
      BY <1>0, <1>2 DEF CardTypes
    <2>2. DOMAIN calendar' = Meetings /\ calendar'[m].start = Card!Proposed[m]
      BY <1>0, <1>2, <2>1 DEF CardTypes, Meeting
    <2> QED BY <1>2, <2>2 DEF Card!AtProposed
  <1>7. CardTypes'
    BY <1>0, <1>2, <1>5 DEF CardTypes, Action
  <1>8. ReplyIsTrue'
    BY <1>0, <1>2, <1>3 DEF CardInv, ReplyIsTrue
  <1>9. (Card!AtProposed(calendar) \cup Card!AtProposed(listed) \subseteq there)'
    BY <1>0 DEF CardInv, ProposalIsTrue, Card!AtProposed, Card!Proposed
  <1>10. ProposalIsTrue'
    BY <1>0, <1>2, <1>3, <1>6, <1>9 DEF CardInv, ProposalIsTrue
  <1> QED BY <1>7, <1>8, <1>10 DEF CardInv

LEMMA ListKeeps ==
    ASSUME CardInv, UNCHANGED <<kind, method, calendar, action, override, accepted, agreed, there>>,
           listed' \in {calendar, listed}
    PROVE  CardInv'
  <1>1. CardTypes'
    BY DEF CardInv, CardTypes
  <1>2. ReplyIsTrue'
    BY DEF CardInv, ReplyIsTrue
  <1>3. ProposalIsTrue'
    BY DEF CardInv, ProposalIsTrue, Card!AtProposed, Card!Proposed
  <1> QED BY <1>1, <1>2, <1>3 DEF CardInv

LEMMA ConflictKeeps == ASSUME CardInv, Card!Conflict PROVE CardInv'
  <1> USE DEF Card!Shown, Card!facts, Card!Step
  <1> DEFINE looks == [action[1] EXCEPT !.stage = "compare"]
  <1>0. /\ CardTypes /\ action # <<>> /\ action[1].what = "counter"
        /\ UNCHANGED <<kind, method, calendar, override, accepted, agreed, there>>
        /\ action' = <<looks>> /\ listed' \in {calendar, listed}
    BY DEF CardInv, Card!Conflict, Card!Busy
  <1>1. action[1] \in Accepting
    BY <1>0, ActionKinds
  <1>2. /\ looks \in Accepting /\ looks.what = "counter" /\ looks.event = action[1].event
        /\ looks.stage = "compare"
    BY <1>1 DEF Accepting
  <1> HIDE DEF looks
  <1>3. action'[1] = looks /\ action' # <<>>
    BY <1>0
  <1>4. CardTypes'
    BY <1>0, <1>2 DEF CardTypes, Action
  <1>5. ReplyIsTrue'
    BY <1>0, <1>2, <1>3 DEF CardInv, ReplyIsTrue
  <1>6. (Card!AtProposed(calendar) \cup Card!AtProposed(listed) \subseteq there)'
    BY <1>0 DEF CardInv, ProposalIsTrue, Card!AtProposed, Card!Proposed
  <1>7. ProposalIsTrue'
    BY <1>0, <1>2, <1>3, <1>6 DEF CardInv, ProposalIsTrue
  <1> QED BY <1>4, <1>5, <1>7 DEF CardInv

LEMMA CompareKeeps == ASSUME CardInv, Card!Compare PROVE CardInv'
  <1> USE DEF Card!Shown, Card!facts, Card!Step
  <1> DEFINE done == [action[1] EXCEPT !.stage = "done"]
  <1>0. /\ CardTypes /\ action # <<>> /\ action[1].stage = "compare"
        /\ UNCHANGED <<kind, method, calendar, listed, override, agreed, there>>
    BY DEF CardInv, Card!Compare, Card!Busy
  <1>1. action[1] \in Accepting
    BY <1>0, ActionKinds DEF Action, Finding, Answering
  <1>2. CASE action' = <<>> /\ accepted' = <<>>
    BY <1>0, <1>1, <1>2 DEF CardInv, CardTypes, ReplyIsTrue, ProposalIsTrue, Accepting
  <1>3. CASE /\ Card!SameTime(action[1].event) /\ action' = <<done>> /\ accepted' = accepted
    <2>1. /\ done \in Accepting /\ done.what = "counter" /\ done.event = action[1].event
          /\ action[1].what = "counter"
      BY <1>1 DEF Accepting
    <2> HIDE DEF done
    <2>2. action'[1] = done /\ action' # <<>>
      BY <1>3
    <2>3. action[1].event \in Card!AtProposed(listed)
      BY <1>3 DEF Card!SameTime, Card!AtProposed
    <2>4. action[1].event \in there
      BY <1>0, <2>3 DEF CardInv, ProposalIsTrue
    <2>5. CardTypes'
      BY <1>0, <1>3, <2>1 DEF CardTypes, Action
    <2>6. ReplyIsTrue'
      BY <1>0, <2>1, <2>2 DEF CardInv, ReplyIsTrue
    <2>7. (Card!AtProposed(calendar) \cup Card!AtProposed(listed) \subseteq there)'
      BY <1>0 DEF CardInv, ProposalIsTrue, Card!AtProposed, Card!Proposed
    <2>8. ProposalIsTrue'
      BY <1>0, <1>3, <2>1, <2>2, <2>4, <2>7 DEF CardInv, ProposalIsTrue
    <2> QED BY <2>5, <2>6, <2>8 DEF CardInv
  <1> QED BY <1>2, <1>3 DEF Card!Compare

LEMMA CardEnds == ASSUME CardInv, Card!Succeed \/ Card!Fail PROVE CardInv'
  <1> USE DEF Card!Shown, Card!facts
  <1>0. CardTypes /\ ReplyIsTrue /\ ProposalIsTrue /\ action # <<>> /\ action' = <<>>
    BY DEF CardInv, Card!Succeed, Card!Fail, Card!Busy
  <1>1. CASE Card!Succeed
    <2>1. CardTypes'
      BY <1>0, <1>1 DEF Card!Succeed, CardTypes
    <2> QED BY <1>0, <1>1, <2>1 DEF Card!Succeed, CardInv, ReplyIsTrue, ProposalIsTrue
  <1>2. CASE Card!Fail
    <2>1. CASE action[1].what = "rsvp"
      <3>1. action[1].before \in Choice
        BY <1>0, <2>1, ActionKinds DEF Finding, Answering
      <3>2. CardTypes'
        BY <1>0, <1>2, <2>1, <3>1 DEF Card!Fail, CardTypes
      <3> QED BY <1>0, <1>2, <2>1, <3>2 DEF Card!Fail, CardInv, ReplyIsTrue, ProposalIsTrue
    <2>2. CASE action[1].what = "counter"
      <3>1. CardTypes'
        BY <1>0, <1>2, <2>2 DEF Card!Fail, CardTypes
      <3> QED BY <1>0, <1>2, <2>2, <3>1 DEF Card!Fail, CardInv, ReplyIsTrue, ProposalIsTrue
    <2> QED BY <1>0, <2>1, <2>2, ActionKinds
  <1> QED BY <1>1, <1>2

LEMMA CardKeeps == CardInv /\ [Card!Next]_(Card!vars) => CardInv'
  <1> SUFFICES ASSUME CardInv, [Card!Next]_(Card!vars) PROVE CardInv'
    OBVIOUS
  <1>1. CASE UNCHANGED Card!vars
    <2>1. UNCHANGED <<kind, method, calendar, action, override, accepted, agreed, there>>
          /\ listed' \in {calendar, listed}
      BY <1>1 DEF Card!vars, Card!card, Card!facts
    <2> QED BY <2>1, ListKeeps
  <1>2. CASE Card!Next
    <2>1. CASE Card!List
      BY <2>1, ListKeeps DEF Card!List, Card!card, Card!facts
    <2> QED BY <1>2, <2>1, RsvpKeeps, AcceptKeeps, FindKeeps, RespondKeeps, MoveKeeps,
               ConflictKeeps, CompareKeeps, CardEnds, OtherKeeps DEF Card!Next
  <1> QED BY <1>1, <1>2

\* Once no call is under way, the reply the card shows was carried out and the meeting
\* of the proposal it shows as accepted has been at the proposed time, even when
\* Exchange refused the version and the card looked at the calendar again
\* (ICSInvitationCard.tsx).
THEOREM CardTellsTheTruth == MCSpec => []CardIsTrue
  <1> DEFINE Inv == part = "card" => CardInv
  <1>1. MCInit => Inv
    BY PartsStart, CardStarts
  <1>2. Inv /\ [MCNext]_allVars => Inv'
    BY PartStays, PartsStep, CardKeeps
  <1>3. Inv => CardIsTrue
    BY DEF CardInv, ReplyIsTrue, ProposalIsTrue, CardIsTrue, Card!CardIsTrue, Card!Busy
  <1> QED BY <1>1, <1>2, <1>3, PTL DEF MCSpec
-----------------------------------------------------------------------------
(* ContinuousListener: which accounts are listened to, for any accounts,     *)
(* modes, networks and coroutines under way.                                *)

Callback == [up : BOOLEAN, net : Nat]
Coroutine == [n : 1..MaxStarts, read : BOOLEAN, continuous : SUBSET Accounts]

ListenTypes == /\ modes \in [Accounts -> Listener!Modes] /\ jobs \in [Accounts -> Listener!Phases]
               /\ heard \in [Accounts -> {"none", "debounce", "pass"}]
               /\ running \in BOOLEAN /\ configuring \in BOOLEAN /\ starts \in Nat
               /\ reading \subseteq Coroutine /\ news \in Seq(Callback)
               /\ networks \in Nat /\ network \in 0..networks
               /\ ~running => jobs = Listener!NoJobs /\ reading = {} /\ news = <<>>

(* Without a continuous account the service is gone, or a call of the plug-in *)
(* is about to stop it; so a coroutine that read no such account ends it in   *)
(* vain.                                                                     *)
Stopped == /\ Listener!Continuous = {} /\ ~configuring => ~running /\ starts = 0
           /\ \A r \in reading : r.read /\ r.continuous = {} => Listener!Continuous = {}

(* Whatever network the callbacks to come tell of, the last is the default.  *)
Follows(q, last, net) ==
  \/ \E i \in 1..Len(q) : /\ q[i].up /\ q[i].net = net
                          /\ \A j \in (i + 1)..Len(q) : ~q[j].up /\ q[j].net # net
  \/ last = net /\ \A j \in 1..Len(q) : ~q[j].up /\ q[j].net # net

Known == running /\ network # 0 => Follows(news, active, network)

Coming(q) == \E i \in 1..Len(q) : q[i].up

Pending == configuring \/ starts > 0 \/ reading # {}

(* A continuous account has its listener, or one is to come.                 *)
Served == \A a \in Listener!Continuous \ stranded :
            /\ running \/ configuring \/ starts > 0
            /\ jobs[a] = "none" => network = 0 \/ Pending \/ Coming(news)

(* A listener of another account goes by itself, or a coroutine ends it.     *)
Leaving == \A a \in Accounts \ Listener!Continuous :
             jobs[a] \in {"sync", "listen", "wait"} =>
               configuring \/ starts > 0 \/ \E r \in reading : ~r.read \/ a \notin r.continuous

(* What was heard of is fetched.                                            *)
Hearing == \A a \in unsynced \cap Accounts : jobs[a] = "listen" => heard[a] # "none"

ListenInv == ListenTypes /\ Stopped /\ Known /\ Served /\ Leaving /\ Hearing

LEMMA ListenStarts == Listener!Init => ListenInv
  <1> SUFFICES ASSUME Listener!Init PROVE ListenInv
    OBVIOUS
  <1>1. /\ modes \in [Accounts -> Listener!Modes] /\ jobs = Listener!NoJobs
        /\ heard = Listener!NoPasses /\ running = FALSE /\ configuring = FALSE /\ starts = 0
        /\ reading = {} /\ news = <<>> /\ networks = 1 /\ network \in 0..1
        /\ stranded = Listener!Continuous /\ unsynced = {}
    BY DEF Listener!Init
  <1>2. /\ jobs \in [Accounts -> Listener!Phases]
        /\ heard \in [Accounts -> {"none", "debounce", "pass"}]
    BY <1>1 DEF Listener!Phases, Listener!NoJobs, Listener!NoPasses
  <1>3. news \in Seq(Callback)
    BY <1>1
  <1>4. networks \in Nat /\ network \in 0..networks
    BY <1>1
  <1>5. ListenTypes
    BY <1>1, <1>2, <1>3, <1>4 DEF ListenTypes
  <1>6. Stopped /\ Known /\ Served
    BY <1>1 DEF Stopped, Known, Served
  <1>7. Leaving /\ Hearing
    BY <1>1 DEF Leaving, Hearing, Listener!NoJobs
  <1> QED BY <1>5, <1>6, <1>7 DEF ListenInv

(* A network that comes up is the last one told of.                          *)
LEMMA FollowsTold ==
    ASSUME NEW q \in Seq(Callback), NEW old \in Nat, NEW new \in Nat, new # old, NEW last,
           NEW calls \in Listener!Told(old, new)
    PROVE  q \o calls \in Seq(Callback) /\ Coming(q \o calls) /\ Follows(q \o calls, last, new)
  <1> DEFINE up == [up |-> TRUE, net |-> new]
             down == [up |-> FALSE, net |-> old]
  <1>0. up \in Callback /\ down \in Callback /\ Len(q) \in Nat
    BY DEF Callback
  <1>1. up.up /\ up.net = new /\ ~down.up /\ down.net # new
    OBVIOUS
  <1>2. calls \in {<<up>>, <<down, up>>, <<up, down>>}
    BY DEF Listener!Told, Listener!Available, Listener!Lost
  <1> HIDE DEF up, down
  <1>3. CASE calls = <<up>>
    <2>1. /\ q \o calls \in Seq(Callback) /\ Len(q \o calls) = Len(q) + 1
          /\ (q \o calls)[Len(q) + 1] = up
      BY <1>0, <1>3
    <2> QED BY <1>0, <1>1, <2>1 DEF Follows, Coming
  <1>4. CASE calls = <<down, up>>
    <2>1. /\ q \o calls \in Seq(Callback) /\ Len(q \o calls) = Len(q) + 2
          /\ (q \o calls)[Len(q) + 2] = up
      BY <1>0, <1>4
    <2> QED BY <1>0, <1>1, <2>1 DEF Follows, Coming
  <1>5. CASE calls = <<up, down>>
    <2>1. /\ q \o calls \in Seq(Callback) /\ Len(q \o calls) = Len(q) + 2
          /\ (q \o calls)[Len(q) + 1] = up /\ (q \o calls)[Len(q) + 2] = down
      BY <1>0, <1>5
    <2> QED BY <1>0, <1>1, <2>1 DEF Follows, Coming
  <1> QED BY <1>2, <1>3, <1>4, <1>5

(* The oldest callback is taken.                                            *)
LEMMA FollowsTail ==
    ASSUME NEW q \in Seq(Callback), q # <<>>, NEW last, NEW net, Follows(q, last, net)
    PROVE  /\ Tail(q) \in Seq(Callback) /\ Head(q) \in Callback
           /\ Head(q).up => Follows(Tail(q), Head(q).net, net)
           /\ ~Head(q).up /\ last = Head(q).net =>
                 Coming(Tail(q)) /\ \A any : Follows(Tail(q), any, net)
           /\ ~Head(q).up /\ last # Head(q).net => Follows(Tail(q), last, net)
           /\ ~Head(q).up /\ Coming(q) => Coming(Tail(q))
  <1>1. /\ Tail(q) \in Seq(Callback) /\ Head(q) \in Callback /\ Head(q) = q[1]
        /\ Len(q) \in Nat /\ Len(q) >= 1 /\ Len(Tail(q)) = Len(q) - 1
        /\ \A i \in 1..(Len(q) - 1) : Tail(q)[i] = q[i + 1]
    OBVIOUS
  <1>0. ~Head(q).up /\ Coming(q) => Coming(Tail(q))
    <2> SUFFICES ASSUME ~q[1].up, NEW i \in 1..Len(q), q[i].up PROVE Coming(Tail(q))
      BY <1>1 DEF Coming
    <2>1. i - 1 \in 1..Len(Tail(q)) /\ Tail(q)[i - 1] = q[i]
      BY <1>1
    <2> QED BY <2>1 DEF Coming
  <1>2. CASE \E i \in 2..Len(q) : /\ q[i].up /\ q[i].net = net
                                  /\ \A j \in (i + 1)..Len(q) : ~q[j].up /\ q[j].net # net
    <2>1. PICK i \in 2..Len(q) : /\ q[i].up /\ q[i].net = net
                                 /\ \A j \in (i + 1)..Len(q) : ~q[j].up /\ q[j].net # net
      BY <1>2
    <2>2. i - 1 \in 1..Len(Tail(q)) /\ Tail(q)[i - 1] = q[i]
      BY <1>1
    <2>3. \A j \in (i - 1 + 1)..Len(Tail(q)) : j + 1 \in (i + 1)..Len(q) /\ Tail(q)[j] = q[j + 1]
      BY <1>1
    <2>4. \A any : Follows(Tail(q), any, net)
      BY <2>1, <2>2, <2>3 DEF Follows
    <2>5. Coming(Tail(q))
      BY <2>1, <2>2 DEF Coming
    <2> QED BY <1>1, <1>0, <2>4, <2>5
  <1>3. CASE /\ q[1].up /\ q[1].net = net
             /\ \A j \in (1 + 1)..Len(q) : ~q[j].up /\ q[j].net # net
    <2>1. \A j \in 1..Len(Tail(q)) : j + 1 \in (1 + 1)..Len(q) /\ Tail(q)[j] = q[j + 1]
      BY <1>1
    <2>2. Follows(Tail(q), net, net)
      BY <1>3, <2>1 DEF Follows
    <2> QED BY <1>1, <1>0, <1>3, <2>2
  <1>4. CASE last = net /\ \A j \in 1..Len(q) : ~q[j].up /\ q[j].net # net
    <2>1. \A j \in 1..Len(Tail(q)) : j + 1 \in 1..Len(q) /\ Tail(q)[j] = q[j + 1]
      BY <1>1
    <2>2. Follows(Tail(q), last, net)
      BY <1>4, <2>1 DEF Follows
    <2>3. ~q[1].up /\ q[1].net # net
      BY <1>1, <1>4
    <2> QED BY <1>1, <1>0, <1>4, <2>2, <2>3
  <1> QED BY <1>1, <1>2, <1>3, <1>4 DEF Follows

(* A coroutine just launched has not read the modes.                        *)
LEMMA Launches ==
    ASSUME Listener!Numbers # {}
    PROVE  /\ Listener!Launched # {}
           /\ \A r \in Listener!Launched : r \in Coroutine /\ ~r.read
  <1>1. (CHOOSE n \in Listener!Numbers : TRUE) \in 1..MaxStarts
    BY DEF Listener!Numbers
  <1> DEFINE number == CHOOSE n \in Listener!Numbers : TRUE
             one == [n |-> number, read |-> FALSE, continuous |-> {}]
  <1> HIDE DEF number
  <1>2. one \in Coroutine /\ ~one.read
    BY <1>1 DEF Coroutine, number
  <1>3. Listener!Launched = {one}
    BY DEF Listener!Launched, number
  <1> HIDE DEF one
  <1> QED BY <1>2, <1>3

(* The steps of the service.                                                 *)
LEMMA ConfigureKeeps ==
    ASSUME ListenInv, NEW a \in Accounts, NEW mode \in Listener!Modes,
           Listener!ConfigureSync(a, mode)
    PROVE  ListenInv'
  <1>0. /\ modes' = [modes EXCEPT ![a] = mode] /\ ~configuring /\ configuring' = TRUE
        /\ UNCHANGED <<starts, running, reading, jobs, active, news, heard, network, unsynced,
                       networks>>
    BY DEF Listener!ConfigureSync, Listener!service
  <1>1. ListenTypes'
    BY <1>0 DEF ListenInv, ListenTypes, Listener!NoJobs
  <1>2. Stopped'
    BY <1>0 DEF ListenInv, ListenTypes, Stopped
  <1>3. Known'
    BY <1>0 DEF ListenInv, Known
  <1>4. Served' /\ Leaving'
    BY <1>0 DEF Served, Leaving, Pending
  <1>5. Hearing'
    BY <1>0 DEF ListenInv, Hearing
  <1> QED BY <1>1, <1>2, <1>3, <1>4, <1>5 DEF ListenInv

LEMMA DestroyKeeps ==
    ASSUME ListenInv, Listener!Continuous = {}, Listener!Destroyed, configuring' \in BOOLEAN,
           UNCHANGED <<modes, network, networks>>
    PROVE  ListenInv'
  <1>0. /\ running' = FALSE /\ starts' = 0 /\ reading' = {} /\ jobs' = Listener!NoJobs
        /\ news' = <<>> /\ heard' = Listener!NoPasses
    BY DEF Listener!Destroyed
  <1>1. /\ jobs' \in [Accounts -> Listener!Phases]
        /\ heard' \in [Accounts -> {"none", "debounce", "pass"}]
        /\ \A a \in Accounts : jobs'[a] = "none"
    BY <1>0 DEF Listener!Phases, Listener!NoJobs, Listener!NoPasses
  <1>2. news' \in Seq(Callback)
    BY <1>0
  <1>3. ListenTypes'
    BY <1>0, <1>1, <1>2 DEF ListenInv, ListenTypes, Listener!NoJobs
  <1>4. Listener!Continuous' = {}
    BY DEF Listener!Continuous
  <1>5. Stopped' /\ Known' /\ Served'
    BY <1>0, <1>4 DEF Stopped, Known, Served
  <1>6. Leaving' /\ Hearing'
    BY <1>1 DEF Leaving, Hearing
  <1> QED BY <1>3, <1>5, <1>6 DEF ListenInv

LEMMA StartKeeps ==
    ASSUME ListenInv, Listener!Continuous # {}, starts' = starts + 1, configuring' \in BOOLEAN,
           UNCHANGED Listener!service, UNCHANGED <<modes, network, networks, unsynced, stranded>>
    PROVE  ListenInv'
  <1>0. UNCHANGED <<running, reading, jobs, active, news, heard>>
    BY DEF Listener!service
  <1>1. starts' \in Nat /\ starts' > 0
    BY DEF ListenInv, ListenTypes
  <1>2. ListenTypes'
    BY <1>0, <1>1 DEF ListenInv, ListenTypes, Listener!NoJobs
  <1>3. Listener!Continuous' = Listener!Continuous
    BY DEF Listener!Continuous
  <1>4. Stopped'
    BY <1>0, <1>3 DEF ListenInv, Stopped
  <1>5. Known'
    BY <1>0 DEF ListenInv, Known
  <1>6. Served' /\ Leaving'
    BY <1>1 DEF Served, Leaving, Pending
  <1>7. Hearing'
    BY <1>0 DEF ListenInv, Hearing
  <1> QED BY <1>2, <1>4, <1>5, <1>6, <1>7 DEF ListenInv

LEMMA ReconcileKeeps ==
    ASSUME ListenInv, Listener!Configured \/ Listener!Restore
    PROVE  ListenInv'
  <1>1. /\ Listener!Reconcile(modes) /\ configuring' \in BOOLEAN
        /\ UNCHANGED <<modes, network, networks, unsynced, stranded>>
    BY DEF Listener!Configured, Listener!Restore, Listener!counts, ListenInv, ListenTypes
  <1>2. \/ Listener!Continuous # {} /\ starts' = starts + 1 /\ UNCHANGED Listener!service
        \/ Listener!Continuous = {} /\ Listener!Destroyed
    BY <1>1 DEF Listener!Reconcile, Listener!Continuous
  <1> QED BY <1>1, <1>2, StartKeeps, DestroyKeeps

LEMMA OnStartKeeps == ASSUME ListenInv, Listener!OnStartCommand PROVE ListenInv'
  <1>0. /\ starts > 0 /\ Listener!Numbers # {} /\ starts' = starts - 1 /\ running' = TRUE
        /\ reading' = reading \cup Listener!Launched
        /\ news' = IF ~running /\ network # 0 THEN <<Listener!Available(network)>> ELSE news
        /\ UNCHANGED <<modes, configuring, jobs, network, active, heard, unsynced, stranded,
                       networks>>
    BY DEF Listener!OnStartCommand, Listener!mail, Listener!counts
  <1>1. /\ Listener!Launched # {} /\ \A r \in Listener!Launched : r \in Coroutine /\ ~r.read
    BY <1>0, Launches
  <1>2. ListenTypes
    BY DEF ListenInv
  <1>3. Listener!Available(network) \in Callback
    BY <1>2 DEF ListenTypes, Callback, Listener!Available
  <1>4. news' \in Seq(Callback)
    BY <1>0, <1>2, <1>3 DEF ListenTypes
  <1>5. starts' \in Nat
    BY <1>0, <1>2 DEF ListenTypes
  <1>6. ListenTypes'
    BY <1>0, <1>1, <1>2, <1>4, <1>5 DEF ListenTypes
  <1>7. Stopped'
    BY <1>0, <1>1 DEF ListenInv, Stopped, Listener!Continuous
  <1>8. Known'
    <2>1. CASE ~running /\ network # 0
      <3>1. news' = <<Listener!Available(network)>>
        BY <1>0, <2>1
      <3>2. Len(news') = 1 /\ news'[1].up /\ news'[1].net = network
        BY <3>1 DEF Listener!Available
      <3>3. Follows(news', active', network)
        BY <3>2 DEF Follows
      <3> QED BY <1>0, <3>3 DEF Known
    <2> QED BY <1>0, <2>1 DEF ListenInv, Known
  <1>9. Served'
    BY <1>0, <1>1 DEF Served, Pending
  <1>10. Leaving'
    <2> SUFFICES \E r \in reading' : ~r.read
      BY DEF Leaving
    <2> QED BY <1>0, <1>1
  <1>11. Hearing'
    BY <1>0 DEF ListenInv, Hearing
  <1> QED BY <1>6, <1>7, <1>8, <1>9, <1>10, <1>11 DEF ListenInv

LEMMA KillKeeps == ASSUME ListenInv, Listener!Kill PROVE ListenInv'
  <1>0. /\ running /\ running' = FALSE /\ starts' = 1 /\ reading' = {} /\ jobs' = Listener!NoJobs
        /\ news' = <<>> /\ heard' = Listener!NoPasses
        /\ UNCHANGED <<modes, configuring, network, unsynced, stranded, networks>>
    BY DEF Listener!Kill
  <1>1. /\ jobs' \in [Accounts -> Listener!Phases]
        /\ heard' \in [Accounts -> {"none", "debounce", "pass"}]
        /\ \A a \in Accounts : jobs'[a] = "none"
    BY <1>0 DEF Listener!Phases, Listener!NoJobs, Listener!NoPasses
  <1>2. news' \in Seq(Callback)
    BY <1>0
  <1>3. ListenTypes'
    BY <1>0, <1>1, <1>2 DEF ListenInv, ListenTypes, Listener!NoJobs
  <1>4. Stopped'
    BY <1>0 DEF ListenInv, Stopped, Listener!Continuous
  <1>5. Known' /\ Served'
    BY <1>0 DEF Known, Served, Pending
  <1>6. Leaving' /\ Hearing'
    BY <1>1 DEF Leaving, Hearing
  <1> QED BY <1>3, <1>4, <1>5, <1>6 DEF ListenInv

LEMMA ReadKeeps ==
    ASSUME ListenInv, NEW r \in reading, Listener!ReadModes(r)
    PROVE  ListenInv'
  <1> DEFINE read == [r EXCEPT !.read = TRUE, !.continuous = Listener!Continuous]
  <1>0. /\ reading' = (reading \ {r}) \cup {read}
        /\ UNCHANGED <<modes, running, configuring, starts, jobs, network, active, news, heard,
                       unsynced, stranded, networks>>
    BY DEF Listener!ReadModes, Listener!mail, Listener!counts
  <1>1. r \in Coroutine /\ ListenTypes
    BY DEF ListenInv, ListenTypes
  <1>2. read \in Coroutine /\ read.read /\ read.continuous = Listener!Continuous
    BY <1>1 DEF Coroutine, Listener!Continuous
  <1> HIDE DEF read
  <1>3. ListenTypes'
    BY <1>0, <1>1, <1>2 DEF ListenTypes
  <1>4. Listener!Continuous' = Listener!Continuous
    BY <1>0 DEF Listener!Continuous
  <1>5. Stopped'
    BY <1>0, <1>2, <1>4 DEF ListenInv, Stopped
  <1>6. Known'
    BY <1>0 DEF ListenInv, Known
  <1>7. Served'
    BY <1>0, <1>4 DEF ListenInv, Served, Pending
  <1>8. Leaving'
    BY <1>0, <1>2, <1>4 DEF ListenInv, Leaving
  <1>9. Hearing'
    BY <1>0 DEF ListenInv, Hearing
  <1> QED BY <1>3, <1>5, <1>6, <1>7, <1>8, <1>9 DEF ListenInv

LEMMA StopSelfKeeps ==
    ASSUME ListenInv, NEW r \in reading, Listener!StopSelf(r)
    PROVE  ListenInv'
  <1>1. Listener!Continuous = {}
    BY DEF Listener!StopSelf, ListenInv, Stopped
  <1>2. configuring' \in BOOLEAN
    BY DEF Listener!StopSelf, ListenInv, ListenTypes
  <1> QED BY <1>1, <1>2, DestroyKeeps DEF Listener!StopSelf, Listener!counts

LEMMA SuperviseKeeps ==
    ASSUME ListenInv, NEW r \in reading, Listener!Supervise(r)
    PROVE  ListenInv'
  <1>0. /\ r.read /\ r.continuous # {}
        /\ jobs' = [a \in Accounts |-> IF a \notin r.continuous THEN "none"
                                       ELSE IF jobs[a] # "none" THEN jobs[a] ELSE "starting"]
        /\ Listener!Continuous \ stranded' \subseteq r.continuous
        /\ heard' = [a \in Accounts |-> IF a \in Accounts \ r.continuous /\ jobs[a] = "listen"
                                        THEN "none" ELSE heard[a]]
        /\ reading' = reading \ {r}
        /\ UNCHANGED <<modes, configuring, running, starts, network, active, news, unsynced,
                       networks>>
    BY DEF Listener!Supervise, Listener!IsActive, Listener!Cancelled, Listener!counts
  <1>1. ListenTypes /\ r \in Coroutine /\ running
    BY DEF ListenInv, ListenTypes
  <1>2. jobs' \in [Accounts -> Listener!Phases]
    BY <1>0, <1>1 DEF ListenTypes, Listener!Phases
  <1>3. heard' \in [Accounts -> {"none", "debounce", "pass"}]
    BY <1>0, <1>1 DEF ListenTypes
  <1>4. ListenTypes'
    BY <1>0, <1>1, <1>2, <1>3 DEF ListenTypes
  <1>5. Listener!Continuous' = Listener!Continuous
    BY <1>0 DEF Listener!Continuous
  <1>6. Stopped'
    BY <1>0, <1>5 DEF ListenInv, Stopped
  <1>7. Known'
    BY <1>0 DEF ListenInv, Known
  <1>8. \A a \in r.continuous : jobs'[a] # "none"
    BY <1>0, <1>1 DEF Coroutine
  <1>9. Served'
    BY <1>0, <1>1, <1>5, <1>8 DEF Served
  <1>10. Leaving'
    <2> SUFFICES ASSUME NEW a \in Accounts \ Listener!Continuous,
                        jobs'[a] \in {"sync", "listen", "wait"}
                 PROVE  \/ configuring \/ starts > 0
                        \/ \E o \in reading' : ~o.read \/ a \notin o.continuous
      BY <1>0, <1>5 DEF Leaving
    <2>1. a \in r.continuous /\ jobs'[a] = jobs[a]
      BY <1>0
    <2>2. \/ configuring \/ starts > 0
          \/ \E o \in reading : ~o.read \/ a \notin o.continuous
      BY <2>1 DEF ListenInv, Leaving
    <2> QED BY <1>0, <2>1, <2>2
  <1>11. Hearing'
    BY <1>0 DEF ListenInv, Hearing
  <1> QED BY <1>4, <1>6, <1>7, <1>9, <1>10, <1>11 DEF ListenInv

(* A listener passes from one phase to another.                             *)
LEMMA PhaseKeeps ==
    ASSUME ListenInv, NEW a \in Accounts, NEW phase2 \in Listener!Phases \ {"none"},
           jobs[a] # "none", jobs' = [jobs EXCEPT ![a] = phase2],
           UNCHANGED <<Listener!around, heard, Listener!counts>>,
           unsynced' \subseteq unsynced,
           \/ phase2 \notin {"sync", "listen", "wait"} \/ jobs[a] \in {"sync", "listen", "wait"}
           \/ a \in Listener!Continuous,
           phase2 = "listen" => a \notin unsynced'
    PROVE  ListenInv'
  <1>0. UNCHANGED <<modes, configuring, running, starts, reading, network, active, news, stranded,
                    heard, networks>>
    BY DEF Listener!around, Listener!counts
  <1>1. ListenTypes /\ running
    BY DEF ListenInv, ListenTypes, Listener!NoJobs
  <1>2. ListenTypes'
    BY <1>0, <1>1 DEF ListenTypes
  <1>3. Listener!Continuous' = Listener!Continuous
    BY <1>0 DEF Listener!Continuous
  <1>4. \A o \in Accounts : jobs'[o] = IF o = a THEN phase2 ELSE jobs[o]
    BY <1>1 DEF ListenTypes
  <1>5. Stopped' /\ Known'
    BY <1>0, <1>3 DEF ListenInv, Stopped, Known
  <1>6. Served'
    BY <1>0, <1>3, <1>4 DEF ListenInv, Served, Pending, Listener!Continuous
  <1>7. Leaving'
    BY <1>0, <1>3, <1>4 DEF ListenInv, Leaving
  <1>8. Hearing'
    BY <1>0, <1>4 DEF ListenInv, Hearing
  <1> QED BY <1>2, <1>5, <1>6, <1>7, <1>8 DEF ListenInv

LEMMA SuperviseStepsKeep ==
    ASSUME ListenInv, NEW a \in Accounts,
           \/ Listener!Checks(a) \/ Listener!Synced(a) \/ Listener!Refused(a) \/ Listener!Fails(a)
           \/ Listener!SourceEnds(a) \/ Listener!WaitFails(a) \/ Listener!DelayEnds(a)
    PROVE  ListenInv'
  <1> USE DEF Listener!Steps
  <1>1. CASE Listener!Checks(a)
    <2>1. CASE modes[a] = "continuous"
      BY <1>1, <2>1, PhaseKeeps DEF Listener!Checks, Listener!Phases, Listener!Continuous
    <2>2. CASE modes[a] # "continuous"
      BY <1>1, <2>2, PhaseKeeps DEF Listener!Checks, Listener!Phases
    <2> QED BY <2>1, <2>2
  <1>2. CASE Listener!Synced(a)
    <2>1. CASE modes[a] = "none"
      BY <1>2, <2>1, PhaseKeeps DEF Listener!Synced, Listener!Phases
    <2>2. CASE modes[a] # "none"
      BY <1>2, <2>2, PhaseKeeps DEF Listener!Synced, Listener!Phases
    <2> QED BY <2>1, <2>2
  <1>3. CASE Listener!Refused(a)
    BY <1>3, PhaseKeeps DEF Listener!Refused, Listener!Phases
  <1>4. CASE Listener!Fails(a) \/ Listener!SourceEnds(a) \/ Listener!WaitFails(a)
    BY <1>4, PhaseKeeps DEF Listener!Fails, Listener!SourceEnds, Listener!WaitFails,
                            Listener!Phases
  <1>5. CASE Listener!DelayEnds(a)
    BY <1>5, PhaseKeeps DEF Listener!DelayEnds, Listener!Phases
  <1> QED BY <1>1, <1>2, <1>3, <1>4, <1>5

(* Events are heard, and their passes run.                                  *)
LEMMA HearsKeeps ==
    ASSUME ListenInv, NEW a \in Accounts, NEW pass2 \in {"none", "debounce", "pass"},
           NEW of, Listener!Hears(a, pass2, of), of \subseteq unsynced \cup {a},
           pass2 # "none" \/ a \notin of
    PROVE  ListenInv'
  <1>0. /\ heard' = [heard EXCEPT ![a] = pass2] /\ unsynced' = of
        /\ UNCHANGED <<modes, configuring, running, starts, reading, network, active, news,
                       stranded, jobs, networks>>
    BY DEF Listener!Hears, Listener!around
  <1>1. ListenTypes
    BY DEF ListenInv
  <1>2. ListenTypes'
    BY <1>0, <1>1 DEF ListenTypes, Listener!NoJobs
  <1>3. Listener!Continuous' = Listener!Continuous
    BY <1>0 DEF Listener!Continuous
  <1>4. Stopped' /\ Known' /\ Served' /\ Leaving'
    BY <1>0, <1>3 DEF ListenInv, Stopped, Known, Served, Pending, Leaving
  <1>5. \A o \in Accounts : heard'[o] = IF o = a THEN pass2 ELSE heard[o]
    BY <1>0, <1>1 DEF ListenTypes
  <1>6. Hearing'
    BY <1>0, <1>5 DEF ListenInv, Hearing
  <1> QED BY <1>2, <1>4, <1>6 DEF ListenInv

LEMMA EventsKeep ==
    ASSUME ListenInv, NEW a \in Accounts,
           \/ Listener!OnEvent(a) \/ Listener!DebounceEnds(a) \/ Listener!AwaitEvent(a)
           \/ Listener!PassEnds(a)
    PROVE  ListenInv'
  <1>1. CASE Listener!OnEvent(a)
    BY <1>1, HearsKeeps DEF Listener!OnEvent
  <1>2. CASE Listener!DebounceEnds(a)
    BY <1>2, HearsKeeps DEF Listener!DebounceEnds
  <1>3. CASE Listener!AwaitEvent(a)
    BY <1>3, HearsKeeps DEF Listener!AwaitEvent
  <1>4. CASE Listener!PassEnds(a)
    BY <1>4, HearsKeeps DEF Listener!PassEnds
  <1> QED BY <1>1, <1>2, <1>3, <1>4

LEMMA LeavesKeeps == ASSUME ListenInv, NEW a \in Accounts, Listener!Leaves(a) PROVE ListenInv'
  <1>0. /\ jobs[a] = "leaving" /\ jobs' = [jobs EXCEPT ![a] = "none"]
        /\ stranded' = stranded \cup ({a} \cap Listener!Continuous)
        /\ UNCHANGED <<modes, configuring, running, starts, reading, network, active, news, heard,
                       unsynced, networks>>
    BY DEF Listener!Leaves, Listener!mail, Listener!counts
  <1>1. ListenTypes /\ running
    BY <1>0 DEF ListenInv, ListenTypes, Listener!NoJobs
  <1>2. ListenTypes'
    BY <1>0, <1>1 DEF ListenTypes, Listener!Phases
  <1>3. Listener!Continuous' = Listener!Continuous
    BY <1>0 DEF Listener!Continuous
  <1>4. \A o \in Accounts : jobs'[o] = IF o = a THEN "none" ELSE jobs[o]
    BY <1>0, <1>1 DEF ListenTypes
  <1>5. Stopped' /\ Known'
    BY <1>0, <1>3 DEF ListenInv, Stopped, Known
  <1>6. Served'
    BY <1>0, <1>3, <1>4 DEF ListenInv, Served, Pending, Listener!Continuous
  <1>7. Leaving' /\ Hearing'
    BY <1>0, <1>3, <1>4 DEF ListenInv, Leaving, Hearing
  <1> QED BY <1>2, <1>5, <1>6, <1>7 DEF ListenInv

(* The network changes, and the service is told.                            *)
LEMMA NetworkUpKeeps == ASSUME ListenInv, Listener!NetworkUp PROVE ListenInv'
  <1>0. /\ networks' = networks + 1 /\ network' = networks + 1
        /\ UNCHANGED <<modes, configuring, running, starts, reading, jobs, active, heard, unsynced,
                       stranded>>
    BY DEF Listener!NetworkUp, Listener!mail
  <1>1. ListenTypes
    BY DEF ListenInv
  <1>2. network \in Nat /\ network' \in Nat /\ network' # network /\ network' \in 0..networks'
        /\ networks' \in Nat
    BY <1>0, <1>1 DEF ListenTypes
  <1>3. Listener!Continuous' = Listener!Continuous
    BY <1>0 DEF Listener!Continuous
  <1>4. CASE running
    <2>1. PICK calls \in Listener!Told(network, network') : news' = news \o calls
      BY <1>4 DEF Listener!NetworkUp
    <2>2. news \in Seq(Callback)
      BY <1>1 DEF ListenTypes
    <2>3. /\ news' \in Seq(Callback) /\ Coming(news')
          /\ Follows(news', active, network')
      BY <1>2, <2>1, <2>2, FollowsTold
    <2>4. ListenTypes'
      BY <1>0, <1>1, <1>2, <1>4, <2>3 DEF ListenTypes
    <2>5. Known' /\ Served'
      BY <1>0, <1>4, <2>3 DEF Known, Served
    <2> QED BY <1>0, <1>3, <2>4, <2>5 DEF ListenInv, Stopped, Leaving, Hearing
  <1>5. CASE ~running
    <2>1. news' = news \o <<>>
      BY <1>5 DEF Listener!NetworkUp
    <2>2. news' = <<>>
      BY <1>1, <1>5, <2>1 DEF ListenTypes
    <2>3. ListenTypes'
      BY <1>0, <1>1, <1>2, <1>5, <2>2 DEF ListenTypes, Listener!NoJobs
    <2>4. Known' /\ Served'
      BY <1>0, <1>3, <1>5 DEF ListenInv, Known, Served, Pending
    <2> QED BY <1>0, <1>3, <2>3, <2>4 DEF ListenInv, Stopped, Leaving, Hearing
  <1> QED BY <1>4, <1>5

LEMMA NetworkDownKeeps == ASSUME ListenInv, Listener!NetworkDown PROVE ListenInv'
  <1>0. /\ network' = 0 /\ news' = IF running THEN Append(news, Listener!Lost(network)) ELSE news
        /\ UNCHANGED <<modes, configuring, running, starts, reading, jobs, active, heard, unsynced,
                       stranded, networks>>
    BY DEF Listener!NetworkDown, Listener!mail, Listener!counts
  <1>1. ListenTypes
    BY DEF ListenInv
  <1>2. Listener!Lost(network) \in Callback
    BY <1>1 DEF ListenTypes, Callback, Listener!Lost
  <1>3. news' \in Seq(Callback)
    BY <1>0, <1>1, <1>2 DEF ListenTypes
  <1>4. ListenTypes'
    BY <1>0, <1>1, <1>3 DEF ListenTypes, Listener!NoJobs
  <1>5. Listener!Continuous' = Listener!Continuous
    BY <1>0 DEF Listener!Continuous
  <1>6. Known' /\ Served'
    BY <1>0, <1>5 DEF ListenInv, Known, Served, Pending
  <1> QED BY <1>0, <1>4, <1>5, <1>6 DEF ListenInv, Stopped, Leaving, Hearing

LEMMA OnAvailableKeeps == ASSUME ListenInv, Listener!OnAvailable PROVE ListenInv'
  <1>0. /\ news # <<>> /\ Head(news).up /\ Listener!Numbers # {} /\ active' = Head(news).net
        /\ news' = Tail(news) /\ jobs' = Listener!NoJobs
        /\ heard' = [a \in Accounts |-> IF a \in Accounts /\ jobs[a] = "listen" THEN "none"
                                        ELSE heard[a]]
        /\ reading' = reading \cup Listener!Launched
        /\ UNCHANGED <<modes, configuring, running, starts, network, unsynced, stranded, networks>>
    BY DEF Listener!OnAvailable, Listener!Cancelled, Listener!counts
  <1>1. ListenTypes /\ running
    BY <1>0 DEF ListenInv, ListenTypes
  <1>2. /\ Listener!Launched # {} /\ \A r \in Listener!Launched : r \in Coroutine /\ ~r.read
    BY <1>0, Launches
  <1>3. /\ jobs' \in [Accounts -> Listener!Phases]
        /\ heard' \in [Accounts -> {"none", "debounce", "pass"}]
        /\ \A a \in Accounts : jobs'[a] = "none"
    BY <1>0, <1>1 DEF ListenTypes, Listener!Phases, Listener!NoJobs
  <1>4. news' \in Seq(Callback)
    BY <1>0, <1>1 DEF ListenTypes
  <1>5. ListenTypes'
    BY <1>0, <1>1, <1>2, <1>3, <1>4 DEF ListenTypes
  <1>6. Listener!Continuous' = Listener!Continuous
    BY <1>0 DEF Listener!Continuous
  <1>7. Stopped'
    BY <1>0, <1>2, <1>6 DEF ListenInv, Stopped
  <1>8. Known'
    BY <1>0, <1>1, FollowsTail DEF ListenInv, ListenTypes, Known
  <1>9. Served'
    BY <1>0, <1>1, <1>2 DEF Served, Pending
  <1>10. Leaving' /\ Hearing'
    BY <1>3 DEF Leaving, Hearing
  <1> QED BY <1>5, <1>7, <1>8, <1>9, <1>10 DEF ListenInv

LEMMA OnLostKeeps == ASSUME ListenInv, Listener!OnLost PROVE ListenInv'
  <1>0. /\ news # <<>> /\ ~Head(news).up /\ news' = Tail(news)
        /\ UNCHANGED <<modes, configuring, running, starts, reading, network, unsynced, stranded,
                       networks>>
    BY DEF Listener!OnLost, Listener!counts
  <1>1. ListenTypes /\ running /\ news \in Seq(Callback)
    BY <1>0 DEF ListenInv, ListenTypes
  <1>2. Listener!Continuous' = Listener!Continuous
    BY <1>0 DEF Listener!Continuous
  <1>3. news' \in Seq(Callback)
    BY <1>0, <1>1
  <1>4. CASE active = Head(news).net
    <2>1. /\ active' = 0 /\ jobs' = Listener!NoJobs
          /\ heard' = [a \in Accounts |-> IF a \in Accounts /\ jobs[a] = "listen" THEN "none"
                                          ELSE heard[a]]
      BY <1>4 DEF Listener!OnLost, Listener!Concerns, Listener!Cancelled
    <2>2. /\ jobs' \in [Accounts -> Listener!Phases]
          /\ heard' \in [Accounts -> {"none", "debounce", "pass"}]
          /\ \A a \in Accounts : jobs'[a] = "none"
      BY <1>1, <2>1 DEF ListenTypes, Listener!Phases, Listener!NoJobs
    <2>3. ListenTypes'
      BY <1>0, <1>1, <1>3, <2>2 DEF ListenTypes
    <2>4. network # 0 => Coming(news') /\ Follows(news', active', network)
      BY <1>0, <1>1, <1>4, FollowsTail DEF ListenInv, Known
    <2>5. Known' /\ Served'
      BY <1>0, <1>1, <2>4 DEF Known, Served
    <2>6. Leaving' /\ Hearing'
      BY <2>2 DEF Leaving, Hearing
    <2> QED BY <1>0, <1>2, <2>3, <2>5, <2>6 DEF ListenInv, Stopped
  <1>5. CASE active # Head(news).net
    <2>1. UNCHANGED <<active, jobs, heard>>
      BY <1>5 DEF Listener!OnLost, Listener!Concerns
    <2>2. ListenTypes'
      BY <1>0, <1>1, <1>3, <2>1 DEF ListenTypes
    <2>3. network # 0 => /\ Follows(news', active', network)
                         /\ Coming(news) => Coming(news')
      BY <1>0, <1>1, <1>5, <2>1, FollowsTail DEF ListenInv, Known
    <2>4. Known'
      BY <1>0, <2>3 DEF Known
    <2>5. Served'
      BY <1>0, <1>2, <2>1, <2>3 DEF ListenInv, Served, Pending
    <2> QED BY <1>0, <1>2, <2>1, <2>2, <2>4, <2>5 DEF ListenInv, Stopped, Leaving, Hearing
  <1> QED BY <1>4, <1>5

LEMMA ListenKeeps == ListenInv /\ [Listener!Next]_(Listener!vars) => ListenInv'
  <1> SUFFICES ASSUME ListenInv, [Listener!Next]_(Listener!vars) PROVE ListenInv'
    OBVIOUS
  <1>1. CASE UNCHANGED Listener!vars
    BY <1>1 DEF Listener!vars, ListenInv, ListenTypes, Stopped, Known, Served, Pending, Leaving,
                Hearing, Listener!Continuous, Listener!NoJobs
  <1>2. CASE Listener!Next
    <2>1. CASE \E r \in reading : Listener!ReadModes(r) \/ Listener!StopSelf(r) \/ Listener!Supervise(r)
      BY <2>1, ReadKeeps, StopSelfKeeps, SuperviseKeeps
    <2>2. CASE \/ \E a \in Accounts, mode \in Listener!Modes : Listener!ConfigureSync(a, mode)
               \/ Listener!Configured \/ Listener!Restore \/ Listener!OnStartCommand
               \/ Listener!Kill
      BY <2>2, ConfigureKeeps, ReconcileKeeps, OnStartKeeps, KillKeeps
    <2> QED BY <1>2, <2>1, <2>2, SuperviseStepsKeep, LeavesKeeps, EventsKeep, NetworkUpKeeps,
               NetworkDownKeeps, OnAvailableKeeps, OnLostKeeps DEF Listener!Next
  <1> QED BY <1>1, <1>2

\* Once the starts, the callbacks and the coroutines are through, the accounts that are
\* listened to are the continuous ones, whatever changes of the settings and of the
\* network overlapped, and what a listener has heard of gets its pass
\* (ContinuousSyncService.kt).
THEOREM ListenersFollowTheModes == MCSpec => []ListensToContinuous
  <1> DEFINE Inv == part = "listener" => ListenInv
  <1>1. MCInit => Inv
    BY PartsStart, ListenStarts
  <1>2. Inv /\ [MCNext]_allVars => Inv'
    BY PartStays, PartsStep, ListenKeeps
  <1>3. Inv => ListensToContinuous
    <2> SUFFICES ASSUME ListenInv, Listener!Quiet PROVE Listener!ListensToContinuous
      BY DEF ListensToContinuous, Listener!ListensToContinuous
    <2>1. /\ ~configuring /\ starts = 0 /\ reading = {} /\ news = <<>>
          /\ \A a \in Accounts : jobs[a] \notin {"starting", "leaving"}
      BY DEF Listener!Quiet
    <2>2. ~Pending /\ ~Coming(news)
      BY <2>1 DEF Pending, Coming
    <2>3. \A a \in Listener!Continuous \ stranded :
             running /\ (network = 0 \/ Listener!IsActive(a))
      BY <2>1, <2>2 DEF ListenInv, Served, Listener!IsActive
    <2>4. \A a \in Accounts : jobs[a] \in {"none", "sync", "listen", "wait"}
      BY <2>1 DEF ListenInv, ListenTypes, Listener!Phases
    <2>5. \A a \in Accounts : Listener!IsActive(a) => a \in Listener!Continuous
      BY <2>1, <2>4 DEF ListenInv, Leaving, Listener!IsActive
    <2>6. \A a \in unsynced \cap (Listener!Continuous \ stranded) :
             heard[a] # "none" \/ jobs[a] \in {"sync", "wait"} \/ network = 0
      BY <2>3, <2>4 DEF ListenInv, Hearing, Listener!IsActive, Listener!Continuous
    <2> QED BY <2>3, <2>5, <2>6 DEF Listener!ListensToContinuous
  <1> QED BY <1>1, <1>2, <1>3, PTL DEF MCSpec
-----------------------------------------------------------------------------
(* CalendarMirror: what is published, for any calendars, events, batches and *)
(* runs.                                                                    *)

Contents == {Kept \cup p : p \in SUBSET Passing}
Readings == Optional(Contents)
Payloads == UNION {[S -> Readings] : S \in SUBSET Cals}
Hook == [n : Nat, todo : SUBSET Cals, read : [Cals -> Readings], failed : SUBSET Cals]
Left == [cal : Cals, write : SUBSET (Kept \cup Passing), prune : SUBSET Passing]
Job == [want : Payloads, made : SUBSET Cals, left : Optional(Left)]

(* Whatever is read, cached, loaded or published of a calendar has the       *)
(* events its source always has, and only others are removed.               *)
MirrorInv == /\ origin \in [Cals -> Contents] /\ cache \in [Cals -> Readings]
             /\ current \in [Cals -> Readings] /\ selected \subseteq Cals /\ hooks \subseteq Hook
             /\ payloads \in Seq(Payloads) /\ job \in Optional(Job)
             /\ device \in [Cals -> Optional(SUBSET (Kept \cup Passing))]
             /\ launches \in Nat
             /\ \A step \in Left : job # <<>> /\ job[1].left = <<step>> => device[step.cal] # <<>>


LEMMA MirrorStarts == Mirror!Init => MirrorInv
  <1> SUFFICES ASSUME Mirror!Init PROVE MirrorInv
    OBVIOUS
  <1>1. <<>> \in Readings /\ <<>> \in Optional(SUBSET (Kept \cup Passing)) /\ <<>> \in Optional(Job)
    BY DEF Readings, Optional
  <1>2. payloads \in Seq(Payloads)
    BY DEF Mirror!Init
  <1> QED BY <1>1, <1>2 DEF Mirror!Init, Mirror!Never, MirrorInv, Contents

(* The steps of the page: what is read goes where the events of a calendar  *)
(* are kept.                                                                *)
LEMMA AppKeeps ==
    ASSUME MirrorInv, Kept \cap Passing = {},
           \/ \E c \in Cals, e \in Passing : Mirror!SourceChanges(c, e)
           \/ \E chosen \in SUBSET Cals : Mirror!Run(chosen)
           \/ \E S \in SUBSET Cals : Mirror!SaveSelection(S)
    PROVE  MirrorInv' /\ device' = device
  <1> USE DEF Mirror!app, Mirror!memory, Mirror!counts
  <1>1. CASE \E c \in Cals, e \in Passing : Mirror!SourceChanges(c, e)
    <2>1. PICK c \in Cals, e \in Passing : Mirror!SourceChanges(c, e)
      BY <1>1
    <2>2. PICK p \in SUBSET Passing : origin[c] = Kept \cup p
      BY DEF MirrorInv, Contents
    <2>3. /\ origin[c] \ {e} = Kept \cup (p \ {e}) /\ origin[c] \cup {e} = Kept \cup (p \cup {e})
          /\ p \ {e} \in SUBSET Passing /\ p \cup {e} \in SUBSET Passing
      BY <2>2
    <2>4. origin[c] \ {e} \in Contents /\ origin[c] \cup {e} \in Contents
      BY <2>3 DEF Contents
    <2>5. origin' \in [Cals -> Contents]
      BY <2>1, <2>4 DEF Mirror!SourceChanges, MirrorInv
    <2> QED BY <2>1, <2>5 DEF Mirror!SourceChanges, MirrorInv
  <1>2. CASE \E chosen \in SUBSET Cals : Mirror!Run(chosen)
    <2>1. PICK chosen \in SUBSET Cals : Mirror!Run(chosen)
      BY <1>2
    <2> DEFINE run == [n |-> launches + 1, todo |-> chosen, read |-> Mirror!Never, failed |-> {}]
    <2>2. run \in Hook
      BY DEF Hook, Mirror!Never, Readings, Optional, MirrorInv
    <2> HIDE DEF run
    <2>3. hooks' \subseteq hooks \cup {run}
      BY <2>1 DEF Mirror!Run, run
    <2>4. current' \in [Cals -> Readings] /\ launches' \in Nat
      BY <2>1 DEF Mirror!Run, MirrorInv
    <2> QED BY <2>1, <2>2, <2>3, <2>4 DEF Mirror!Run, MirrorInv
  <1>3. CASE \E S \in SUBSET Cals : Mirror!SaveSelection(S)
    BY <1>3 DEF Mirror!SaveSelection, MirrorInv
  <1> QED BY <1>1, <1>2, <1>3

LEMMA EndRunKeeps ==
    ASSUME MirrorInv, NEW r \in hooks, Mirror!EndRun(r)
    PROVE  MirrorInv' /\ device' = device
  BY DEF Mirror!EndRun, MirrorInv, Mirror!app, Mirror!memory, Mirror!counts

LEMMA HookKeeps ==
    ASSUME MirrorInv, NEW r \in hooks, NEW c \in Cals,
           Mirror!Answer(r, c) \/ Mirror!Load(r, c) \/ Mirror!Fail(r, c)
    PROVE  MirrorInv' /\ device' = device
  <1> USE DEF Mirror!app, Mirror!memory, Mirror!counts
  <1>0. r \in Hook
    BY DEF MirrorInv
  <1>2. CASE Mirror!Answer(r, c)
    <2>1. <<origin[c]>> \in Readings
      BY DEF MirrorInv, Readings, Optional
    <2>2. [r EXCEPT !.read[c] = <<origin[c]>>] \in Hook
      BY <1>0, <2>1 DEF Hook
    <2> QED BY <1>2, <2>2 DEF Mirror!Answer, MirrorInv
  <1>3. CASE Mirror!Load(r, c)
    <2>1. r.read[c] \in Readings /\ [r EXCEPT !.todo = @ \ {c}] \in Hook
      BY <1>0 DEF Hook
    <2>2. cache' \in [Cals -> Readings] /\ current' \in [Cals -> Readings]
      BY <1>3, <2>1 DEF Mirror!Load, MirrorInv
    <2> QED BY <1>3, <2>1, <2>2 DEF Mirror!Load, MirrorInv
  <1>4. CASE Mirror!Fail(r, c)
    <2>1. [r EXCEPT !.todo = @ \ {c}, !.failed = @ \cup {c}] \in Hook
      BY <1>0 DEF Hook
    <2> QED BY <1>4, <2>1 DEF Mirror!Fail, MirrorInv
  <1> QED BY <1>2, <1>3, <1>4

LEMMA PublishKeeps ==
    ASSUME MirrorInv, Mirror!Publish \/ Mirror!Restart
    PROVE  MirrorInv' /\ device' = device
  <1> USE DEF Mirror!app, Mirror!memory, Mirror!counts
  <1>0. <<>> \in Readings /\ <<>> \in Optional(Job)
    BY DEF Readings, Optional
  <1>1. CASE Mirror!Publish
    <2>1. \A c \in selected : Mirror!Snapshot(c) \in Readings
      BY <1>0 DEF Mirror!Snapshot, Mirror!None, MirrorInv
    <2>2. Mirror!Payload \in Payloads
      BY <2>1 DEF Mirror!Payload, Payloads, MirrorInv
    <2>3. payloads' \in Seq(Payloads)
      BY <1>1, <2>2 DEF Mirror!Publish, MirrorInv
    <2> QED BY <1>1, <2>3 DEF Mirror!Publish, MirrorInv
  <1>2. CASE Mirror!Restart
    <2>1. current' \in [Cals -> Readings]
      BY <1>0, <1>2 DEF Mirror!Restart, Mirror!Never
    <2>2. \A c \in selected : Mirror!Snapshot(c)' \in Readings
      BY <1>0, <2>1 DEF Mirror!Snapshot, Mirror!None, MirrorInv
    <2>3. sent' \in Payloads
      BY <1>2, <2>2 DEF Mirror!Restart, Payloads, MirrorInv
    <2>4. payloads' \in Seq(Payloads)
      BY <1>2, <2>3 DEF Mirror!Restart
    <2> QED BY <1>0, <1>2, <2>1, <2>4 DEF Mirror!Restart, MirrorInv
  <1> QED BY <1>1, <1>2

(* The steps of a publication: what the device has of a calendar only grows *)
(* or loses what no snapshot need have.                                     *)
LEMMA BeginKeeps ==
    ASSUME MirrorInv, Mirror!Begin
    PROVE  MirrorInv' /\ Mirror!RetainsKept
  <1> USE DEF Mirror!app, Mirror!memory, Mirror!counts
  <1> DEFINE want == Head(payloads)
             first == [want |-> want, made |-> {}, left |-> <<>>]
  <1>0. /\ payloads # <<>> /\ job' = <<first>> /\ payloads' = Tail(payloads)
        /\ device' = [c \in Cals |-> IF c \in DOMAIN want THEN device[c] ELSE <<>>]
        /\ UNCHANGED <<origin, cache, selected, current, hooks, launches>>
    BY DEF Mirror!Begin, Mirror!None
  <1>1. want \in Payloads /\ payloads' \in Seq(Payloads)
    BY <1>0 DEF MirrorInv
  <1>2. first \in Job
    BY <1>1 DEF Job, Optional
  <1>3. job' \in Optional(Job)
    BY <1>0, <1>2 DEF Optional
  <1>4. device' \in [Cals -> Optional(SUBSET (Kept \cup Passing))]
    BY <1>0 DEF MirrorInv, Optional
  <1>7. job'[1].left = <<>>
    BY <1>0
  <1>5. MirrorInv'
    BY <1>0, <1>1, <1>3, <1>4, <1>7 DEF MirrorInv
  <1>6. Mirror!RetainsKept
    BY <1>0 DEF Mirror!RetainsKept, Mirror!Retains
  <1> QED BY <1>5, <1>6

LEMMA UpsertKeeps ==
    ASSUME MirrorInv, NEW c \in Cals, Mirror!Upsert(c), Kept \cap Passing = {}
    PROVE  MirrorInv' /\ Mirror!RetainsKept
  <1> USE DEF Mirror!app, Mirror!memory, Mirror!counts
  <1> DEFINE j == job[1]
             want == j.want[c]
             rows == device'[c][1]
             step == [cal |-> c, write |-> want[1], prune |-> rows \ want[1]]
             left == IF want = <<>> THEN <<>> ELSE <<step>>
             after == [j EXCEPT !.made = @ \cup {c}, !.left = left]
  <1>0. /\ job # <<>> /\ c \in DOMAIN j.want
        /\ device' = [device EXCEPT ![c] = IF @ = <<>> THEN <<{}>> ELSE @]
        /\ job' = <<after>>
        /\ UNCHANGED <<origin, cache, selected, current, hooks, launches, payloads>>
    BY DEF Mirror!Upsert, Mirror!None
  <1>1. j \in Job
    BY <1>0 DEF MirrorInv, Optional
  <1>2. want \in Readings
    BY <1>0, <1>1 DEF Job, Payloads
  <1>3. device' \in [Cals -> Optional(SUBSET (Kept \cup Passing))] /\ device'[c] # <<>>
    BY <1>0 DEF MirrorInv, Optional
  <1>4. rows \subseteq Kept \cup Passing
    BY <1>3 DEF Optional
  <1>5. left \in Optional(Left)
    <2>1. CASE want # <<>>
      <3>1. PICK p \in SUBSET Passing : want = <<Kept \cup p>>
        BY <1>2, <2>1 DEF Readings, Optional, Contents
      <3>2. want[1] = Kept \cup p
        BY <3>1
      <3>3. want[1] \subseteq Kept \cup Passing /\ rows \ want[1] \subseteq Passing
        BY <1>4, <3>2
      <3>4. step \in Left
        BY <3>3 DEF Left
      <3> QED BY <2>1, <3>4 DEF Optional
    <2> QED BY <2>1 DEF Optional
  <1> HIDE DEF left
  <1>6. after \in Job
    BY <1>1, <1>5 DEF Job
  <1> HIDE DEF after
  <1>7. job' \in Optional(Job)
    BY <1>0, <1>6 DEF Optional
  <1>8. \A s \in Left : job'[1].left = <<s>> => device'[s.cal] # <<>>
    <2>1. job'[1].left = left
      BY <1>0, <1>1 DEF after, Job
    <2>2. \A s \in Left : left = <<s>> => s.cal = c
      BY DEF left
    <2> QED BY <1>3, <2>1, <2>2
  <1>9. \A d \in Cals : device[d] # <<>> => device'[d] = device[d]
    BY <1>0 DEF MirrorInv
  <1>11. MirrorInv'
    BY <1>0, <1>3, <1>7, <1>8 DEF MirrorInv
  <1>10. Mirror!RetainsKept
    BY <1>9 DEF Mirror!RetainsKept, Mirror!Retains
  <1> QED BY <1>10, <1>11

LEMMA RowsKeep ==
    ASSUME MirrorInv, NEW step \in Mirror!Steps, NEW B, Kept \cap Passing = {},
           \/ B \in Mirror!Batches(step.write) /\ Mirror!Write(B)
           \/ B \in Mirror!Batches(step.prune) /\ Mirror!Prune(B)
    PROVE  MirrorInv' /\ Mirror!RetainsKept
  <1> USE DEF Mirror!app, Mirror!memory, Mirror!counts
  <1> DEFINE j == job[1]
  <1>1. job # <<>> /\ j \in Job
    BY DEF Mirror!Steps, MirrorInv, Optional
  <1>2. j.left = <<step>> /\ step \in Left /\ j.left[1] = step
    BY <1>1 DEF Mirror!Steps, Job, Optional
  <1> DEFINE cal == step.cal
             rows == device[cal][1]
             written == [step EXCEPT !.write = @ \ B]
             pruned == [step EXCEPT !.prune = @ \ B]
  <1>3. device[cal] # <<>> /\ cal \in Cals /\ rows \subseteq Kept \cup Passing
    BY <1>1, <1>2 DEF MirrorInv, Left, Optional
  <1>4. written \in Left /\ written.cal = cal /\ pruned \in Left /\ pruned.cal = cal
    BY <1>2 DEF Left
  <1>5. ASSUME NEW next \in Left, next.cal = cal, job' = <<[j EXCEPT !.left = <<next>>]>>,
               NEW new \in SUBSET (Kept \cup Passing), device' = [device EXCEPT ![cal] = <<new>>],
               rows \cap Kept \subseteq new,
               UNCHANGED <<origin, cache, selected, current, hooks, launches, payloads>>
        PROVE  MirrorInv' /\ Mirror!RetainsKept
    <2> DEFINE after == [j EXCEPT !.left = <<next>>]
    <2>1. after \in Job /\ after.left = <<next>>
      BY <1>1, <1>5 DEF Job, Optional
    <2>2. job' = <<after>>
      BY <1>5
    <2> HIDE DEF after
    <2>3. job' \in Optional(Job) /\ job'[1].left = <<next>>
      BY <2>1, <2>2 DEF Optional
    <2>4. device' \in [Cals -> Optional(SUBSET (Kept \cup Passing))] /\ device'[cal] = <<new>>
      BY <1>3, <1>5 DEF MirrorInv, Optional
    <2>5. \A s \in Left : job'[1].left = <<s>> => device'[s.cal] # <<>>
      BY <1>5, <2>3, <2>4
    <2>6. MirrorInv'
      BY <1>5, <2>3, <2>4, <2>5 DEF MirrorInv
    <2>7. \A c \in Cals : c # cal => device'[c] = device[c]
      BY <1>5 DEF MirrorInv
    <2>8. device'[cal] # <<>> /\ device'[cal][1] = new
      BY <2>4
    <2>9. Mirror!RetainsKept
      BY <1>5, <2>7, <2>8 DEF Mirror!RetainsKept, Mirror!Retains
    <2> QED BY <2>6, <2>9
  <1>6. CASE B \in Mirror!Batches(step.write) /\ Mirror!Write(B)
    <2>1. B \subseteq Kept \cup Passing
      BY <1>2, <1>6 DEF Mirror!Batches, Left
    <2>2. rows \cup B \in SUBSET (Kept \cup Passing)
      BY <1>3, <2>1
    <2>3. /\ job' = <<[j EXCEPT !.left = <<written>>]>>
          /\ device' = [device EXCEPT ![cal] = <<rows \cup B>>]
          /\ UNCHANGED <<origin, cache, selected, current, hooks, launches, payloads>>
      BY <1>2, <1>6 DEF Mirror!Write, MirrorInv
    <2> QED BY <1>4, <1>5, <2>2, <2>3
  <1>7. CASE B \in Mirror!Batches(step.prune) /\ Mirror!Prune(B)
    <2>1. B \subseteq Passing
      BY <1>2, <1>7 DEF Mirror!Batches, Left
    <2>2. rows \ B \in SUBSET (Kept \cup Passing) /\ rows \cap Kept \subseteq rows \ B
      BY <1>3, <2>1
    <2>3. /\ job' = <<[j EXCEPT !.left = <<pruned>>]>>
          /\ device' = [device EXCEPT ![cal] = <<rows \ B>>]
          /\ UNCHANGED <<origin, cache, selected, current, hooks, launches, payloads>>
      BY <1>2, <1>7 DEF Mirror!Prune, MirrorInv
    <2> QED BY <1>4, <1>5, <2>2, <2>3
  <1> QED BY <1>6, <1>7

LEMMA JobEndsKeep ==
    ASSUME MirrorInv, Mirror!NextCalendar \/ Mirror!Done \/ Mirror!StorageFails
    PROVE  MirrorInv' /\ device' = device
  <1> USE DEF Mirror!app, Mirror!memory, Mirror!counts
  <1>1. CASE Mirror!NextCalendar
    <2> DEFINE after == [job[1] EXCEPT !.left = <<>>]
    <2>1. job # <<>> /\ job[1] \in Job
      BY <1>1 DEF Mirror!NextCalendar, Mirror!Steps, MirrorInv, Optional
    <2>2. after \in Job /\ after.left = <<>>
      BY <2>1 DEF Job, Optional
    <2>3. job' = <<after>>
      BY <1>1 DEF Mirror!NextCalendar, Mirror!None
    <2> HIDE DEF after
    <2>4. job' \in Optional(Job) /\ job'[1].left = <<>>
      BY <2>2, <2>3 DEF Optional
    <2>5. \A s \in Left : job'[1].left # <<s>>
      BY <2>4
    <2>6. UNCHANGED <<origin, cache, selected, current, hooks, launches, payloads, device>>
      BY <1>1 DEF Mirror!NextCalendar
    <2> QED BY <2>4, <2>5, <2>6 DEF MirrorInv
  <1>2. CASE Mirror!Done \/ Mirror!StorageFails
    <2>1. <<>> \in Optional(Job)
      BY DEF Optional
    <2> QED BY <1>2, <2>1 DEF Mirror!Done, Mirror!StorageFails, MirrorInv
  <1> QED BY <1>1, <1>2

LEMMA MirrorKeeps ==
    ASSUME MirrorInv, [Mirror!Next]_(Mirror!vars), Kept \cap Passing = {}
    PROVE  MirrorInv' /\ Mirror!RetainsKept
  <1>0. device' = device => Mirror!RetainsKept
    BY DEF Mirror!RetainsKept, Mirror!Retains
  <1>1. CASE UNCHANGED Mirror!vars
    BY <1>0, <1>1 DEF Mirror!vars, Mirror!app, Mirror!memory, Mirror!counts, MirrorInv
  <1>2. CASE Mirror!Next
    <2>1. CASE \E s \in Mirror!Steps : \/ \E B \in Mirror!Batches(s.write) : Mirror!Write(B)
                                       \/ \E B \in Mirror!Batches(s.prune) : Mirror!Prune(B)
      BY <2>1, RowsKeep
    <2>2. CASE \E r \in hooks : \/ Mirror!EndRun(r)
                                \/ \E c \in Cals : Mirror!Answer(r, c) \/ Mirror!Load(r, c)
                                                   \/ Mirror!Fail(r, c)
      <3>1. PICK r \in hooks : \/ Mirror!EndRun(r)
                               \/ \E c \in Cals : Mirror!Answer(r, c) \/ Mirror!Load(r, c)
                                                  \/ Mirror!Fail(r, c)
        BY <2>2
      <3>2. CASE Mirror!EndRun(r)
        BY <3>2, EndRunKeeps, <1>0
      <3> QED BY <3>1, <3>2, <1>0, HookKeeps
    <2> QED BY <1>2, <1>0, <2>1, <2>2, AppKeeps, PublishKeeps, BeginKeeps, UpsertKeeps, JobEndsKeep
            DEF Mirror!Next
  <1> QED BY <1>1, <1>2

\* An event that its source has all along, once copied, stays on the device for as long
\* as its calendar is wanted, whatever fails and wherever the app ends
\* (AndroidCalendarProvider.tsx, CalendarMirror.kt), when the events that a source may
\* lose are others.
THEOREM CopiesStay == ASSUME Kept \cap Passing = {} PROVE MCSpec => KeptStays
  <1> DEFINE Inv == part = "mirror" => MirrorInv
  <1>1. MCInit => Inv
    BY PartsStart, MirrorStarts
  <1>2. Inv /\ [MCNext]_allVars => Inv' /\ (part = "mirror" => Mirror!RetainsKept)
    BY PartStays, PartsStep, MirrorKeeps
  <1>3. Inv /\ [MCNext]_allVars => [part = "mirror" => Mirror!RetainsKept]_allVars
    BY <1>2
  <1> QED BY <1>1, <1>2, <1>3, PTL DEF MCSpec, KeptStays
-----------------------------------------------------------------------------
(* ExchangeCalendar: what an edit replaces, for any items, writes and calls.  *)

Version == {v \in [key : Nat, value : Nat] : v.key = v.value}
Item == {i \in [key : Nat, value : Nat, folder : {"calendar", "deleted"}] : i.key = i.value}
Read == UNION {[S -> Version] : S \in SUBSET Items}
Change == [item : Items, series : BOOLEAN, seen : Version, began : Nat, key : Nat,
           stage : {"lookup", "master", "update", "saved"}]

ExchangeTypes == /\ mailbox \in UNION {[S -> Item] : S \in SUBSET Items}
                 /\ latest \in Nat /\ versions \in Nat
                 /\ displayed \in Read /\ reads \in Optional([found : Read, todo : SUBSET Items])
                 /\ edited \subseteq Change

(* The item an edit is for has the value its user saw, or one written since. *)
Fresh(e) == e.item \in DOMAIN mailbox =>
              LET now == mailbox[e.item].value IN now = e.seen.value \/ now > e.began

(* An edit of a series that has compared the occurrence, and whose version   *)
(* of the series is still the last.                                         *)
Compared(e) == e.series /\ (e.stage = "master" \/ (e.stage = "update" /\ e.key = latest))

ExchangeInv == /\ ExchangeTypes
               /\ latest <= versions
               /\ \A e \in edited : /\ e.began <= versions /\ e.key <= versions
                                    /\ Compared(e) => Fresh(e)

LEMMA ExchangeStarts == Exchange!Init => ExchangeInv
  <1> SUFFICES ASSUME Exchange!Init PROVE ExchangeInv
    OBVIOUS
  <1> DEFINE first == [key |-> 0, value |-> 0, folder |-> "calendar"]
  <1>1. /\ mailbox = [i \in Items |-> first] /\ displayed = [i \in Items |-> Exchange!Read(i)]
        /\ latest = 0 /\ versions = 0 /\ reads = <<>> /\ edited = {}
    BY DEF Exchange!Init
  <1>2. first \in Item /\ first.key = 0 /\ first.value = 0
    BY DEF Item
  <1>3. mailbox \in [Items -> Item]
    BY <1>1, <1>2
  <1>4. \A i \in Items : Exchange!Read(i) \in Version
    BY <1>1 DEF Exchange!Read, Version
  <1>5. displayed \in [Items -> Version]
    BY <1>1, <1>4
  <1> HIDE DEF first
  <1>6. /\ mailbox \in UNION {[S -> Item] : S \in SUBSET Items} /\ displayed \in Read
    BY <1>3, <1>5 DEF Read
  <1> QED BY <1>1, <1>6 DEF ExchangeInv, ExchangeTypes, Optional

(* What is read of an item has the value of its version.                    *)
LEMMA ReadVersion ==
    ASSUME ExchangeInv, NEW i \in DOMAIN mailbox
    PROVE  /\ mailbox[i] \in Item /\ Exchange!Read(i) \in Version /\ i \in Items
           /\ \A v \in Version : mailbox[i].key = v.key => mailbox[i].value = v.value
  <1>1. mailbox[i] \in Item /\ i \in Items
    BY DEF ExchangeInv, ExchangeTypes
  <1>2. mailbox[i].key \in Nat /\ mailbox[i].value = mailbox[i].key
    BY <1>1 DEF Item
  <1>3. Exchange!Read(i) \in Version
    BY <1>2 DEF Exchange!Read, Version
  <1> QED BY <1>1, <1>2, <1>3 DEF Version

(* Lists and calls leave the items, their versions and the edits alone.      *)
LEMMA ListingKeeps ==
    ASSUME ExchangeInv,
           \/ Exchange!FindItems
           \/ /\ reads # <<>>
              /\ \/ Exchange!Listed
                 \/ \E C \in Exchange!Chunks : Exchange!GetItems(C) \/ Exchange!GetItemsFails(C)
    PROVE  ExchangeInv'
  <1>0. UNCHANGED <<mailbox, latest, edited, versions>>
    BY DEF Exchange!FindItems, Exchange!Listed, Exchange!GetItems, Exchange!GetItemsFails
  <1> DEFINE Found == [found : Read, todo : SUBSET Items]
  <1>s. SUFFICES displayed' \in Read /\ reads' \in Optional(Found)
    BY <1>0 DEF ExchangeInv, ExchangeTypes, Compared, Fresh
  <1>t. displayed \in Read /\ reads \in Optional(Found) /\ (reads # <<>> => reads[1] \in Found)
    BY DEF ExchangeInv, ExchangeTypes, Optional
  <1>1. CASE Exchange!FindItems
    <2>1. [i \in Exchange!InCalendar |-> Exchange!Read(i)] \in Read /\ Exchange!InCalendar \subseteq Items
      <3>1. \A i \in Exchange!InCalendar : Exchange!Read(i) \in Version /\ i \in Items
        BY ReadVersion DEF Exchange!InCalendar
      <3>2. Exchange!InCalendar \in SUBSET Items
        BY <3>1
      <3>3. [i \in Exchange!InCalendar |-> Exchange!Read(i)] \in [Exchange!InCalendar -> Version]
        BY <3>1
      <3> QED BY <3>2, <3>3 DEF Read
    <2> QED BY <1>1, <1>t, <2>1 DEF Exchange!FindItems, Optional
  <1>2. CASE reads # <<>> /\ Exchange!Listed
    BY <1>2, <1>t DEF Exchange!Listed, Optional
  <1>3. ASSUME reads # <<>>, NEW C \in Exchange!Chunks, Exchange!GetItems(C)
        PROVE  displayed' \in Read /\ reads' \in Optional(Found)
    <2> DEFINE found == reads[1].found
               new == [i \in DOMAIN found |-> IF i \in C THEN Exchange!Read(i) ELSE found[i]]
    <2>1. found \in Read /\ reads[1].todo \subseteq Items
      BY <1>3, <1>t
    <2>2. C \subseteq DOMAIN mailbox => new \in Read
      BY <2>1, ReadVersion DEF Read
    <2> HIDE DEF new
    <2>3. C \subseteq DOMAIN mailbox => [found |-> new, todo |-> reads[1].todo \ C] \in Found
      BY <2>1, <2>2
    <2>4. /\ displayed' = displayed
          /\ reads' = IF C \subseteq DOMAIN mailbox THEN <<[found |-> new, todo |-> reads[1].todo \ C]>>
                      ELSE <<>>
      BY <1>3 DEF Exchange!GetItems, new
    <2> QED BY <1>t, <2>3, <2>4 DEF Optional
  <1>4. ASSUME reads # <<>>, NEW C \in Exchange!Chunks, Exchange!GetItemsFails(C)
        PROVE  displayed' \in Read /\ reads' \in Optional(Found)
    <2>1. [reads[1] EXCEPT !.todo = @ \ C] \in Found
      BY <1>4, <1>t
    <2> QED BY <1>4, <1>t, <2>1 DEF Exchange!GetItemsFails, Optional
  <1> QED BY <1>1, <1>2, <1>3, <1>4

(* A write gives the items it changes a version and a value later than all   *)
(* edits under way began with, and the series a version none of them took.   *)
LEMMA WriteKeeps ==
    ASSUME ExchangeInv, NEW written, Exchange!Write(written), UNCHANGED <<displayed, reads>>,
           edited' \subseteq Change,
           \A e \in edited' : /\ e \in edited \/ e.stage = "saved"
                              /\ e.began <= versions /\ e.key <= versions
    PROVE  ExchangeInv'
  <1> DEFINE Later(i) == [mailbox[i] EXCEPT !.key = versions + 1, !.value = versions + 1]
  <1>0. /\ versions' = versions + 1 /\ latest' = versions + 1
        /\ mailbox' = [i \in DOMAIN mailbox |-> IF i \notin written THEN mailbox[i] ELSE Later(i)]
        /\ versions \in Nat
    BY DEF Exchange!Write, ExchangeInv, ExchangeTypes
  <1>1. ASSUME NEW i \in DOMAIN mailbox
        PROVE  Later(i) \in Item /\ Later(i).value = versions + 1
    <2>1. mailbox[i] \in Item
      BY ReadVersion
    <2>2. versions + 1 \in Nat
      BY DEF ExchangeInv, ExchangeTypes
    <2> QED BY <2>1, <2>2 DEF Item, Later
  <1> HIDE DEF Later
  <1>2. \A i \in DOMAIN mailbox : mailbox'[i] \in Item
    BY <1>0, <1>1, ReadVersion
  <1>3. mailbox' \in [DOMAIN mailbox -> Item] /\ DOMAIN mailbox \in SUBSET Items
    BY <1>0, <1>2 DEF ExchangeInv, ExchangeTypes
  <1>4. ExchangeTypes'
    BY <1>0, <1>3 DEF ExchangeInv, ExchangeTypes
  <1>5. ASSUME NEW e \in edited'
        PROVE  e.began <= versions' /\ e.key <= versions' /\ (Compared(e)' => Fresh(e)')
    <2>1. e \in Change /\ e.began <= versions /\ e.key <= versions
      BY DEF ExchangeInv
    <2>2. e.began \in Nat /\ e.key \in Nat
      BY <2>1 DEF Change
    <2>3. ASSUME Compared(e)' PROVE Fresh(e)'
      <3>1. e \in edited /\ e.stage = "master" /\ Compared(e)
        BY <1>0, <2>1, <2>2, <2>3 DEF Compared
      <3>2. Fresh(e)
        BY <3>1 DEF ExchangeInv
      <3> SUFFICES ASSUME e.item \in DOMAIN mailbox
                   PROVE  mailbox'[e.item].value = e.seen.value \/ mailbox'[e.item].value > e.began
        BY <1>0 DEF Fresh
      <3>3. mailbox'[e.item] = mailbox[e.item] \/ mailbox'[e.item].value = versions + 1
        BY <1>0, <1>1
      <3> QED BY <1>0, <2>1, <2>2, <3>2, <3>3 DEF Fresh
    <2> QED BY <1>0, <2>1, <2>2, <2>3
  <1> QED BY <1>0, <1>4, <1>5 DEF ExchangeInv

(* Items leave and change folders with the value they have.                 *)
LEMMA PlaceKeeps ==
    ASSUME ExchangeInv, UNCHANGED <<displayed, reads, latest, versions, edited>>,
           \/ mailbox' = mailbox
           \/ \E i \in Items : mailbox' = [j \in DOMAIN mailbox \ {i} |-> mailbox[j]]
           \/ \E items : \E f \in {"calendar", "deleted"} : Exchange!Remove(items, f)
    PROVE  ExchangeInv'
  <1> SUFFICES /\ mailbox' \in UNION {[S -> Item] : S \in SUBSET Items}
               /\ \A j \in DOMAIN mailbox' : /\ j \in DOMAIN mailbox
                                             /\ mailbox'[j].value = mailbox[j].value
    BY DEF ExchangeInv, ExchangeTypes, Compared, Fresh
  <1>0. DOMAIN mailbox \subseteq Items
    BY DEF ExchangeInv, ExchangeTypes
  <1>1. CASE mailbox' = mailbox
    BY <1>1 DEF ExchangeInv, ExchangeTypes
  <1>2. ASSUME NEW i \in Items, mailbox' = [j \in DOMAIN mailbox \ {i} |-> mailbox[j]]
        PROVE  /\ mailbox' \in UNION {[S -> Item] : S \in SUBSET Items}
               /\ \A j \in DOMAIN mailbox' : /\ j \in DOMAIN mailbox
                                             /\ mailbox'[j].value = mailbox[j].value
    <2>2. \A j \in DOMAIN mailbox : mailbox[j] \in Item
      BY ReadVersion
    <2>3. mailbox' \in [DOMAIN mailbox \ {i} -> Item] /\ DOMAIN mailbox \ {i} \in SUBSET Items
      BY <1>0, <1>2, <2>2
    <2> QED BY <1>2, <2>3
  <1>3. ASSUME NEW items, NEW f \in {"calendar", "deleted"}, Exchange!Remove(items, f)
        PROVE  /\ mailbox' \in UNION {[S -> Item] : S \in SUBSET Items}
               /\ \A j \in DOMAIN mailbox' : /\ j \in DOMAIN mailbox
                                             /\ mailbox'[j].value = mailbox[j].value
    <2> DEFINE Filed(j) == [mailbox[j] EXCEPT !.folder = f]
    <2>1. mailbox' = [j \in DOMAIN mailbox |-> IF j \notin items THEN mailbox[j] ELSE Filed(j)]
      BY <1>3 DEF Exchange!Remove
    <2>2. ASSUME NEW j \in DOMAIN mailbox
          PROVE  Filed(j) \in Item /\ Filed(j).value = mailbox[j].value /\ mailbox[j] \in Item
      <3>1. mailbox[j] \in Item
        BY ReadVersion
      <3> QED BY <3>1 DEF Item, Filed
    <2> HIDE DEF Filed
    <2>3. mailbox' \in [DOMAIN mailbox -> Item] /\ DOMAIN mailbox \in SUBSET Items
      BY <1>0, <2>1, <2>2
    <2> QED BY <2>1, <2>2, <2>3
  <1> QED BY <1>1, <1>2, <1>3

(* An edit under way becomes another, while the items stay as they are.      *)
LEMMA StageKeeps ==
    ASSUME ExchangeInv, UNCHANGED <<mailbox, displayed, reads, latest, versions>>,
           \A f \in edited' : \/ f \in edited
                              \/ /\ f \in Change /\ f.began <= versions /\ f.key <= versions
                                 /\ Compared(f) => Fresh(f)
    PROVE  ExchangeInv'
  BY DEF ExchangeInv, ExchangeTypes, Compared, Fresh

LEMMA EditKeeps ==
    ASSUME ExchangeInv, NEW i \in Items, NEW series \in BOOLEAN, Exchange!Edit(i, series)
    PROVE  ExchangeInv'
  <1> DEFINE e == [item |-> i, series |-> series, seen |-> displayed[i], began |-> versions,
                   key |-> 0, stage |-> IF series THEN "lookup" ELSE "update"]
  <1>1. /\ edited' = edited \cup {e} /\ i \in DOMAIN displayed
        /\ UNCHANGED <<mailbox, displayed, reads, latest, versions>>
    BY DEF Exchange!Edit
  <1>2. displayed[i] \in Version /\ versions \in Nat
    BY <1>1 DEF ExchangeInv, ExchangeTypes, Read
  <1>3. e \in Change /\ e.began <= versions /\ e.key <= versions /\ ~Compared(e)
    BY <1>2 DEF Change, Compared
  <1> HIDE DEF e
  <1> QED BY <1>1, <1>3, StageKeeps

LEMMA EditStepsKeep ==
    ASSUME ExchangeInv, NEW e \in edited,
           \/ Exchange!Verify(e) \/ Exchange!GetMaster(e) \/ Exchange!Refused(e)
           \/ Exchange!Reports(e)
    PROVE  ExchangeInv'
  <1> USE DEF Exchange!Rest, Exchange!End, Exchange!Replace
  <1>0. e \in Change /\ e.began <= versions /\ e.key <= versions /\ (Compared(e) => Fresh(e))
    BY DEF ExchangeInv, ExchangeTypes
  <1>1. CASE Exchange!Verify(e)
    <2> DEFINE f == [e EXCEPT !.stage = "master"]
    <2>1. /\ f \in Change /\ f.item = e.item /\ f.seen = e.seen /\ f.began = e.began
          /\ f.key = e.key
      BY <1>0 DEF Change
    <2> HIDE DEF f
    <2>2. CASE e.item \in DOMAIN mailbox /\ mailbox[e.item].key = e.seen.key /\ edited' = (edited \ {e}) \cup {f}
      <3>1. e.seen \in Version
        BY <1>0 DEF Change
      <3>2. Fresh(f)
        BY <2>1, <2>2, <3>1, ReadVersion DEF Fresh
      <3> QED BY <1>0, <1>1, <2>1, <2>2, <3>2, StageKeeps DEF Exchange!Verify
    <2>3. CASE edited' = edited \ {e}
      BY <1>1, <2>3, StageKeeps DEF Exchange!Verify
    <2> QED BY <1>1, <2>2, <2>3 DEF Exchange!Verify, f
  <1>2. CASE Exchange!GetMaster(e)
    <2> DEFINE f == [e EXCEPT !.stage = "update", !.key = latest]
    <2>1. /\ f \in Change /\ f.item = e.item /\ f.seen = e.seen /\ f.began = e.began
          /\ f.key = latest /\ f.series = e.series
      BY <1>0 DEF Change, ExchangeInv, ExchangeTypes
    <2>2. edited' = (edited \ {e}) \cup {f} /\ e.stage = "master"
      BY <1>2 DEF Exchange!GetMaster
    <2> HIDE DEF f
    <2>3. latest <= versions /\ (Compared(f) => Fresh(f))
      BY <1>0, <2>1, <2>2 DEF Compared, Fresh, ExchangeInv
    <2> QED BY <1>0, <1>2, <2>1, <2>2, <2>3, StageKeeps DEF Exchange!GetMaster
  <1>3. CASE Exchange!Refused(e) \/ Exchange!Reports(e)
    BY <1>3, StageKeeps DEF Exchange!Refused, Exchange!Reports
  <1> QED BY <1>1, <1>2, <1>3

LEMMA UpdateKeeps == ASSUME ExchangeInv, NEW e \in edited, Exchange!Update(e) PROVE ExchangeInv'
  <1> DEFINE f == [e EXCEPT !.stage = "saved"]
  <1>0. e \in Change /\ e.began <= versions /\ e.key <= versions
    BY DEF ExchangeInv, ExchangeTypes
  <1>1. f \in Change /\ f.stage = "saved" /\ f.began = e.began /\ f.key = e.key
    BY <1>0 DEF Change
  <1>2. edited' = (edited \ {e}) \cup {f} /\ UNCHANGED <<displayed, reads>>
    BY DEF Exchange!Update, Exchange!Replace
  <1> HIDE DEF f
  <1>3. PICK written : Exchange!Write(written)
    BY DEF Exchange!Update
  <1>4. edited' \subseteq Change
    BY <1>1, <1>2 DEF ExchangeInv, ExchangeTypes
  <1>5. \A d \in edited' : d \in edited \/ d = f
    BY <1>2
  <1>6. \A d \in edited' : /\ d \in edited \/ d.stage = "saved"
                          /\ d.began <= versions /\ d.key <= versions
    BY <1>0, <1>1, <1>5 DEF ExchangeInv
  <1> QED BY <1>2, <1>3, <1>4, <1>6, WriteKeeps

LEMMA CallsKeep ==
    ASSUME ExchangeInv,
           \/ \E i \in Items : Exchange!OtherDeletes(i)
           \/ \E what, i, series : Exchange!Call(what, i, series)
           \/ \E c \in requests : \/ Exchange!Resolve(c) \/ Exchange!Send(c)
                                  \/ Exchange!MoveBack(c) \/ Exchange!CallFails(c)
    PROVE  ExchangeInv'
  <1>1. UNCHANGED <<displayed, reads, latest, versions, edited>>
    BY DEF Exchange!OtherDeletes, Exchange!Call, Exchange!Resolve, Exchange!Send,
           Exchange!MoveBack, Exchange!CallFails
  <1>2. \/ mailbox' = mailbox
        \/ \E i \in Items : mailbox' = [j \in DOMAIN mailbox \ {i} |-> mailbox[j]]
        \/ \E items : \E f \in {"calendar", "deleted"} : Exchange!Remove(items, f)
    <2>1. CASE \E i \in Items : Exchange!OtherDeletes(i)
      BY <2>1 DEF Exchange!OtherDeletes, Exchange!Restrict
    <2>2. CASE \E what, i, series : Exchange!Call(what, i, series)
      BY <2>2 DEF Exchange!Call
    <2>3. ASSUME NEW c \in requests, Exchange!Send(c)
          PROVE  mailbox' = mailbox \/ Exchange!Remove(Exchange!Target(c), "deleted")
      BY <2>3 DEF Exchange!Send
    <2>4. ASSUME NEW c \in requests, Exchange!MoveBack(c)
          PROVE  \E items : Exchange!Remove(items, "calendar")
      BY <2>4 DEF Exchange!MoveBack
    <2>5. ASSUME NEW c \in requests, Exchange!Resolve(c) \/ Exchange!CallFails(c)
          PROVE  mailbox' = mailbox
      BY <2>5 DEF Exchange!Resolve, Exchange!CallFails
    <2>6. ASSUME NEW c \in requests,
                 \/ Exchange!Resolve(c) \/ Exchange!Send(c) \/ Exchange!MoveBack(c)
                 \/ Exchange!CallFails(c)
          PROVE  \/ mailbox' = mailbox
                 \/ \E items : \E f \in {"calendar", "deleted"} : Exchange!Remove(items, f)
      <3>1. "calendar" \in {"calendar", "deleted"} /\ "deleted" \in {"calendar", "deleted"}
        OBVIOUS
      <3>2. CASE Exchange!Send(c)
        BY <3>1, <3>2, <2>3
      <3>3. CASE Exchange!MoveBack(c)
        BY <3>1, <3>3, <2>4
      <3> QED BY <2>5, <2>6, <3>2, <3>3
    <2> QED BY <2>1, <2>2, <2>6
  <1> QED BY <1>1, <1>2, PlaceKeeps

LEMMA ExchangeKeeps == ExchangeInv /\ [Exchange!Next]_(Exchange!vars) => ExchangeInv'
  <1> SUFFICES ASSUME ExchangeInv, [Exchange!Next]_(Exchange!vars) PROVE ExchangeInv'
    OBVIOUS
  <1>1. CASE UNCHANGED Exchange!vars
    BY <1>1, PlaceKeeps DEF Exchange!vars
  <1>2. CASE Exchange!OtherWrites
    <2>1. \E written : Exchange!Write(written)
      BY <1>2 DEF Exchange!OtherWrites
    <2>2. UNCHANGED <<displayed, reads, edited>>
      BY <1>2 DEF Exchange!OtherWrites
    <2> QED BY <2>1, <2>2, WriteKeeps DEF ExchangeInv, ExchangeTypes
  <1>3. CASE \E e \in edited : \/ Exchange!Verify(e) \/ Exchange!GetMaster(e)
                               \/ Exchange!Update(e) \/ Exchange!Refused(e) \/ Exchange!Reports(e)
    BY <1>3, EditStepsKeep, UpdateKeeps
  <1>4. CASE \E i \in Items, series \in BOOLEAN :
               Exchange!Edit(i, series) \/ \E what \in {"delete", "cancel", "accept", "decline"} :
                                             Exchange!Call(what, i, series)
    BY <1>4, EditKeeps, CallsKeep
  <1> QED BY <1>1, <1>2, <1>3, <1>4, ListingKeeps, CallsKeep DEF Exchange!Next

\* An edit that reaches an item of Exchange replaces the value its user saw, or one
\* written after the edit began, whatever else reads and writes the series
\* (ews/calendar.rs:154, 196).
THEOREM NothingUnseenIsReplaced == MCSpec => []NothingUnseenReplaced
  <1> DEFINE Inv == part = "exchange" => ExchangeInv
  <1>1. MCInit => Inv
    BY PartsStart, ExchangeStarts
  <1>2. Inv /\ [MCNext]_allVars => Inv'
    BY PartStays, PartsStep, ExchangeKeeps
  <1>3. Inv => NothingUnseenReplaced
    <2> SUFFICES ASSUME ExchangeInv, NEW e \in edited, e.stage = "update",
                        e.item \in DOMAIN mailbox,
                        IF e.series THEN latest = e.key ELSE mailbox[e.item].key = e.seen.key
                 PROVE  LET now == mailbox[e.item].value
                        IN  now = e.seen.value \/ now > e.began
      BY DEF NothingUnseenReplaced, Exchange!NothingUnseenReplaced
    <2>1. CASE e.series
      BY <2>1 DEF ExchangeInv, Compared, Fresh
    <2>2. CASE ~e.series
      <3>1. e.seen \in Version
        BY DEF ExchangeInv, ExchangeTypes, Change
      <3> QED BY <2>2, <3>1, ReadVersion
    <2> QED BY <2>1, <2>2
  <1> QED BY <1>1, <1>2, <1>3, PTL DEF MCSpec
----------------------------------------------------------------------------
(* CalDavSeries: an edit of one occurrence touches no other, for every      *)
(* number of occurrences, of calls and whatever times they move to.         *)
Shown == [start : Int, title : Nat, reply : Nat, cancelled : BOOLEAN]
Exception == [id : Int, start : Int, title : Nat, reply : Nat, cancelled : BOOLEAN]
Resource == [series : Shown, exceptions : Seq(Exception)]
SeriesCall == [n : Nat, what : {"update", "cancel", "respond"}, scope : {"this", "all"},
               event : Exception, to : Int, copy : Resource]

SeriesInv == /\ resource \in Optional(Resource)
             /\ callsMade \in Nat
             /\ \A k \in DOMAIN occurrences : occurrences[k] \in Exception
             /\ changes \subseteq SeriesCall

(* A set of indices of a sequence has a first and a last.                   *)
Less == {ss \in Nat \X Nat : ss[1] < ss[2]}

LEMMA LeastExists ==
    ASSUME NEW is \in SUBSET Nat, is # {}
    PROVE  \E i \in is : \A j \in is : i <= j
  <1>1. IsWellFoundedOn(Less, Nat)
    BY NatLessThanWellFounded DEF OpToRel, Less
  <1>2. PICK i \in is : \A j \in is : ~ (<<j, i>> \in Less)
    BY <1>1, WFMin, Zenon
  <1>3. \A j \in is : i <= j
    <2> TAKE j \in is
    <2>1. i \in Nat /\ j \in Nat /\ ~ (<<j, i>> \in Less)
      BY <1>2
    <2>2. j < i => <<j, i>> \in Nat \X Nat /\ <<j, i>>[1] < <<j, i>>[2]
      BY <2>1
    <2>3. ~ (j < i)
      BY <2>1, <2>2, Zenon DEF Less
    <2> QED BY <2>1, <2>3
  <1> QED BY <1>3

LEMMA FirstIsIn ==
    ASSUME NEW is \in SUBSET Nat, is # {}
    PROVE  Series!First(is) \in is
  BY LeastExists DEF Series!First

LEMMA LatestIsIn ==
    ASSUME NEW n \in Nat, NEW is \in SUBSET (1..n), is # {}
    PROVE  Series!Latest(is) \in is
  <1> DEFINE back == {n - i : i \in is}
  <1>1. PICK b \in back : \A j \in back : b <= j
    <2>1. \A i \in is : i \in Int /\ n - i \in Nat
      OBVIOUS
    <2>2. back \in SUBSET Nat /\ back # {}
      BY <2>1
    <2> QED BY <2>2, LeastExists
  <1>2. PICK i \in is : b = n - i
    BY <1>1
  <1>3. \A j \in is : j <= i
    <2> TAKE j \in is
    <2>1. i \in Int /\ j \in Int
      OBVIOUS
    <2>2. n - j \in back
      OBVIOUS
    <2>3. n - i <= n - j
      BY <1>1, <1>2, <2>2
    <2> QED BY <2>1, <2>3
  <1> QED BY <1>3 DEF Series!Latest

LEMMA OccurrenceType ==
    ASSUME Slots \in Nat, NEW f \in Resource, NEW k \in 1..Slots
    PROVE  Series!Occurrence(f, k) \in Exception
  <1> DEFINE t == Series!RuleTime(f, k)  own == Series!Exceptions(f, t)
  <1>1. t \in Int
    BY DEF Series!RuleTime, Resource, Shown
  <1>2. CASE own = {}
    <2>1. Series!Like(f.series, t, t) \in Exception
      BY <1>1 DEF Series!Like, Resource, Shown, Exception
    <2> QED BY <1>2, <2>1 DEF Series!Occurrence
  <1>3. CASE own # {}
    <2>1. f.exceptions \in Seq(Exception) /\ Len(f.exceptions) \in Nat
          /\ DOMAIN f.exceptions = 1..Len(f.exceptions)
      BY DEF Resource
    <2>2. own \subseteq 1..Len(f.exceptions)
      BY <2>1 DEF Series!Exceptions
    <2>3. Series!Latest(own) \in own
      BY <1>3, <2>1, <2>2, LatestIsIn
    <2> HIDE DEF own, t
    <2> DEFINE at == Series!Latest(own)  xs == f.exceptions
    <2>5. at \in 1..Len(xs) /\ xs \in Seq(Exception)
      BY <2>1, <2>2, <2>3
    <2> HIDE DEF at, xs
    <2>6. xs[at] \in Exception
      BY <2>5
    <2>4. f.exceptions[Series!Latest(own)] \in Exception
      BY <2>6 DEF at, xs
    <2> QED BY <1>3, <2>4 DEF Series!Occurrence, own, t
  <1> QED BY <1>2, <1>3

LEMMA SeriesStarts ==
    ASSUME Slots \in Nat, Series!Init
    PROVE  SeriesInv
  <1> DEFINE f == [series |-> [start |-> 0, title |-> 0, reply |-> 0, cancelled |-> FALSE],
                   exceptions |-> <<>>]
  <1>1. f \in Resource
    BY DEF Resource, Shown
  <1>2. resource = <<f>> /\ resource[1] = f /\ resource # <<>>
    BY DEF Series!Init
  <1> HIDE DEF f
  <1>3. occurrences = [k \in 1..Slots |-> Series!Occurrence(f, k)]
    BY <1>2 DEF Series!Init, Series!Listed
  <1>4. \A k \in DOMAIN occurrences : occurrences[k] \in Exception
    BY <1>1, <1>3, OccurrenceType
  <1> QED BY <1>1, <1>2, <1>4 DEF Series!Init, SeriesInv, Optional

LEMMA EditedType ==
    ASSUME NEW c \in SeriesCall, NEW x \in Exception
    PROVE  Series!Edited(x, c) \in Exception /\ Series!Edited(x, c).id = x.id
  BY DEF Series!Edited, SeriesCall, Exception

(* The exception an edit finds or adds is under the recurrence-id of the     *)
(* occurrence.                                                               *)
LEMMA EditKeepsOthers ==
    ASSUME NEW c \in SeriesCall
    PROVE  /\ Series!UpdatedOne(c) \in Resource
           /\ Series!UpdatedOne(c).series = c.copy.series
           /\ \A id \in Int : id # c.event.id =>
                /\ Series!Exceptions(Series!UpdatedOne(c), id) = Series!Exceptions(c.copy, id)
                /\ \A i \in Series!Exceptions(c.copy, id) :
                     Series!UpdatedOne(c).exceptions[i] = c.copy.exceptions[i]
  <1> DEFINE xs == c.copy.exceptions  found == Series!Exceptions(c.copy, c.event.id)
  <1>1. /\ c.copy \in Resource /\ c.copy.series \in Shown /\ xs \in Seq(Exception)
        /\ c.event.id \in Int /\ c.to \in Int /\ c.n \in Nat
        /\ Len(xs) \in Nat /\ DOMAIN xs = 1..Len(xs)
    BY DEF SeriesCall, Resource, Exception
  <1>2. CASE found = {}
    <2> DEFINE x == Series!Edited(Series!Like(c.copy.series, c.event.id, c.to), c)
    <2>1. Series!Like(c.copy.series, c.event.id, c.to) \in Exception
          /\ Series!Like(c.copy.series, c.event.id, c.to).id = c.event.id
      BY <1>1 DEF Series!Like, Shown, Exception
    <2>2. x \in Exception /\ x.id = c.event.id
      BY <2>1, EditedType
    <2> HIDE DEF x
    <2>3. Series!UpdatedOne(c) = [series |-> c.copy.series, exceptions |-> Append(xs, x)]
      BY <1>1, <1>2 DEF Series!UpdatedOne, Resource, x
    <2> DEFINE ys == Append(xs, x)
    <2>4. /\ ys \in Seq(Exception) /\ Len(ys) = Len(xs) + 1 /\ DOMAIN ys = 1..(Len(xs) + 1)
          /\ ys[Len(xs) + 1] = x /\ \A i \in 1..Len(xs) : ys[i] = xs[i]
      BY <1>1, <2>2
    <2> HIDE DEF ys
    <2>5. ASSUME NEW id \in Int, id # c.event.id
          PROVE  /\ Series!Exceptions(Series!UpdatedOne(c), id) = Series!Exceptions(c.copy, id)
                 /\ \A i \in Series!Exceptions(c.copy, id) : ys[i] = xs[i]
      BY <1>1, <2>2, <2>3, <2>4, <2>5 DEF Series!Exceptions, ys
    <2>6. Series!UpdatedOne(c) \in Resource /\ Series!UpdatedOne(c).series = c.copy.series
          /\ Series!UpdatedOne(c).exceptions = ys
      BY <1>1, <2>3, <2>4 DEF Resource, ys
    <2> QED BY <2>5, <2>6
  <1>3. CASE found # {}
    <2> DEFINE at == Series!First(found)  x == Series!Edited(xs[at], c)
    <2>1. at \in 1..Len(xs) /\ xs[at].id = c.event.id /\ xs[at] \in Exception
      <3>1. found \in SUBSET Nat /\ found \subseteq 1..Len(xs)
        BY <1>1 DEF Series!Exceptions
      <3>2. at \in found
        BY <1>3, <3>1, FirstIsIn
      <3> HIDE DEF at
      <3>3. xs[at].id = c.event.id
        BY <3>2 DEF Series!Exceptions
      <3>4. at \in 1..Len(xs)
        BY <3>1, <3>2
      <3> HIDE DEF xs
      <3>5. xs[at] \in Exception
        BY <1>1, <3>4
      <3> QED BY <3>3, <3>4, <3>5
    <2>2. x \in Exception /\ x.id = c.event.id
      BY <2>1, EditedType
    <2>3. Series!UpdatedOne(c) = [series |-> c.copy.series, exceptions |-> [xs EXCEPT ![at] = x]]
      BY <1>1, <1>3, <2>1 DEF Series!UpdatedOne, Resource
    <2> HIDE DEF x, at
    <2> DEFINE ys == [xs EXCEPT ![at] = x]
    <2>4. /\ ys \in Seq(Exception) /\ Len(ys) = Len(xs) /\ DOMAIN ys = 1..Len(xs)
          /\ ys[at] = x /\ \A i \in 1..Len(xs) : i # at => ys[i] = xs[i]
      BY <1>1, <2>1, <2>2
    <2> HIDE DEF ys
    <2>5. ASSUME NEW id \in Int, id # c.event.id
          PROVE  /\ Series!Exceptions(Series!UpdatedOne(c), id) = Series!Exceptions(c.copy, id)
                 /\ \A i \in Series!Exceptions(c.copy, id) : ys[i] = xs[i]
      BY <1>1, <2>1, <2>2, <2>3, <2>4, <2>5 DEF Series!Exceptions, ys
    <2>6. Series!UpdatedOne(c) \in Resource /\ Series!UpdatedOne(c).series = c.copy.series
          /\ Series!UpdatedOne(c).exceptions = ys
      BY <1>1, <2>3, <2>4 DEF Resource, ys
    <2> QED BY <2>5, <2>6
  <1> QED BY <1>2, <1>3

LEMMA WrittenType ==
    ASSUME NEW c \in SeriesCall
    PROVE  Series!Written(c) \in Resource
  <1>1. /\ c.copy \in Resource /\ c.copy.series \in Shown /\ c.copy.exceptions \in Seq(Exception)
        /\ c.event \in Exception /\ c.event.start \in Int /\ c.to \in Int /\ c.n \in Nat
    BY DEF SeriesCall, Resource, Exception
  <1>2. Series!UpdatedSeries(c) \in Resource
    <2>1. c.copy.series.start \in Int
      BY <1>1 DEF Shown
    <2>2. c.copy.series.start + c.to - c.event.start \in Int
      BY <1>1, <2>1
    <2> QED BY <1>1, <2>2 DEF Series!UpdatedSeries, Resource, Shown
  <1>3. Series!CancelledSeries(c) \in Resource
    BY <1>1 DEF Series!CancelledSeries, Resource, Shown
  <1>4. Series!CancelledOne(c) \in Resource
    <2>1. [Series!Like(c.copy.series, c.event.start, c.event.start) EXCEPT !.cancelled = TRUE]
          \in Exception
      BY <1>1 DEF Series!Like, Shown, Exception
    <2> DEFINE x == [Series!Like(c.copy.series, c.event.start, c.event.start) EXCEPT !.cancelled = TRUE]
    <2> HIDE DEF x
    <2>2. Series!CancelledOne(c) = [series |-> c.copy.series, exceptions |-> Append(c.copy.exceptions, x)]
      <3>1. Series!CancelledOne(c) = [c.copy EXCEPT !.exceptions = Append(c.copy.exceptions, x)]
        BY Zenon DEF Series!CancelledOne, x
      <3> QED BY <1>1, <3>1 DEF Resource
    <2>3. Append(c.copy.exceptions, x) \in Seq(Exception)
      BY <1>1, <2>1 DEF x
    <2> QED BY <1>1, <2>2, <2>3 DEF Resource
  <1>5. Series!Replied(c) \in Resource
    BY <1>1 DEF Series!Replied, Resource, Shown
  <1> QED BY <1>2, <1>3, <1>4, <1>5, EditKeepsOthers DEF Series!Written

LEMMA SeriesSteps ==
    ASSUME Slots \in Nat, Times \subseteq Int, SeriesInv, [Series!Next]_(Series!vars)
    PROVE  SeriesInv'
  <1> USE DEF SeriesInv
  <1>1. ASSUME NEW what \in {"update", "cancel", "respond"}, NEW scope \in {"this", "all"},
               NEW k \in 1..Slots, NEW to \in Int, Series!Read(what, scope, k, to)
        PROVE  SeriesInv'
    <2> DEFINE c == [n |-> callsMade + 1, what |-> what, scope |-> scope,
                     event |-> occurrences[k], to |-> to, copy |-> resource[1]]
    <2>1. resource[1] \in Resource /\ occurrences[k] \in Exception /\ callsMade + 1 \in Nat
      BY <1>1 DEF Series!Read, Optional
    <2>2. c \in SeriesCall
      BY <2>1 DEF SeriesCall
    <2>3. changes' = changes \cup {c}
      BY <1>1 DEF Series!Read
    <2> HIDE DEF c
    <2> QED BY <1>1, <2>1, <2>2, <2>3 DEF Series!Read
  <1>2. ASSUME NEW c \in changes, Series!Put(c)
        PROVE  SeriesInv'
    <2>1. Series!Written(c) \in Resource
      BY WrittenType
    <2> QED BY <1>2, <2>1 DEF Series!Put, Optional
  <1>3. ASSUME NEW c \in changes, Series!PutFails(c)
        PROVE  SeriesInv'
    BY <1>3 DEF Series!PutFails
  <1>4. CASE Series!Delete
    BY <1>4 DEF Series!Delete, Optional
  <1>5. CASE Series!List
    <2>1. \A k \in DOMAIN Series!Listed(resource) : Series!Listed(resource)[k] \in Exception
      <3>1. CASE resource = <<>>
        BY <3>1 DEF Series!Listed
      <3>2. CASE resource # <<>>
        <4>1. resource[1] \in Resource
          BY <3>2 DEF Optional
        <4> QED BY <3>2, <4>1, OccurrenceType DEF Series!Listed
      <3> QED BY <3>1, <3>2
    <2> QED BY <1>5, <2>1 DEF Series!List
  <1>6. CASE UNCHANGED Series!vars
    BY <1>6 DEF Series!vars
  <1> QED BY <1>1, <1>2, <1>3, <1>4, <1>5, <1>6 DEF Series!Next

(* An exception an edit finds or adds is under the recurrence-id of its      *)
(* occurrence, so the others keep theirs.                                   *)
LEMMA EditsTouchOne ==
    ASSUME Slots \in Nat, SeriesInv
    PROVE  Series!EditTouchesOne
  <1> SUFFICES ASSUME NEW c \in changes, c.what = "update", c.scope = "this", NEW k \in 1..Slots,
                      Series!RuleTime(c.copy, k) # c.event.id
               PROVE  Series!Occurrence(c.copy, k) = Series!Occurrence(Series!Written(c), k)
    BY DEF Series!EditTouchesOne, Series!Touches
  <1>1. c \in SeriesCall
    BY DEF SeriesInv
  <1> DEFINE f == Series!UpdatedOne(c)  t == Series!RuleTime(c.copy, k)
  <1>2. Series!Written(c) = f
    BY DEF Series!Written
  <1>3. t \in Int
    BY <1>1 DEF Series!RuleTime, SeriesCall, Resource, Shown
  <1>4. /\ f.series = c.copy.series
        /\ Series!Exceptions(f, t) = Series!Exceptions(c.copy, t)
        /\ \A i \in Series!Exceptions(c.copy, t) : f.exceptions[i] = c.copy.exceptions[i]
    BY <1>1, <1>3, EditKeepsOthers
  <1>5. Series!RuleTime(f, k) = t
    BY <1>4 DEF Series!RuleTime
  <1>6. CASE Series!Exceptions(c.copy, t) = {}
    BY <1>2, <1>4, <1>5, <1>6 DEF Series!Occurrence
  <1>7. CASE Series!Exceptions(c.copy, t) # {}
    <2> DEFINE is == Series!Exceptions(c.copy, t)
    <2>1. Series!Latest(is) \in is
      <3>1. Len(c.copy.exceptions) \in Nat /\ is \subseteq 1..Len(c.copy.exceptions)
        BY <1>1 DEF SeriesCall, Resource, Series!Exceptions
      <3> QED BY <1>7, <3>1, LatestIsIn
    <2> HIDE DEF is
    <2>2. Series!Occurrence(c.copy, k) = c.copy.exceptions[Series!Latest(is)]
      BY <1>7 DEF Series!Occurrence, is
    <2>3. Series!Occurrence(f, k) = f.exceptions[Series!Latest(is)]
      BY <1>4, <1>5, <1>7 DEF Series!Occurrence, is
    <2> QED BY <1>2, <1>4, <2>1, <2>2, <2>3 DEF is
  <1> QED BY <1>6, <1>7

\* Changing one occurrence of a series leaves every other as it was, whatever
\* was moved, cancelled or answered before, and whatever was written while the
\* call had read the resource (updateNextcloudEvent, parseICS).
THEOREM OneOccurrenceChanges ==
    ASSUME Slots \in Nat, Times \subseteq Int
    PROVE  MCSpec => []EditTouchesOne
  <1> DEFINE Inv == part = "series" => SeriesInv
  <1>1. MCInit => Inv
    BY PartsStart, SeriesStarts
  <1>2. Inv /\ [MCNext]_allVars => Inv'
    BY PartStays, PartsStep, SeriesSteps
  <1>3. Inv => EditTouchesOne
    BY EditsTouchOne DEF EditTouchesOne
  <1> QED BY <1>1, <1>2, <1>3, PTL DEF MCSpec
----------------------------------------------------------------------------
(* CalendarEdits: what the server refused leaves the page, for every number *)
(* of events, of calls and of listings under way.                          *)
OnPage == Events \cup Recurring \cup {New}
EventValue == [title : Nat, reply : Nat, cancelled : Nat]
Listing == UNION {[D -> EventValue] : D \in SUBSET OnPage}
CallKinds == {"create", "edit", "form", "rsvp", "delete", "cancel"}
Landed == {"done", "listing", "listed", "ended", "lost"}
UserCall == [what : CallKinds, ids : SUBSET OnPage, on : SUBSET OnPage,
             stage : Landed \cup {"sent", "refused", "failed", "missing"}]
Editors == {<<>>} \cup (OnPage \X EventValue \X Nat)
Question == [what : CallKinds, event : Recurring, seen : Listing]
ListingRun == [after : Nat, stale : Listing, answer : Optional(Listing)]

PageTypes ==
  /\ server \in Listing /\ entries \in Listing /\ lastList \in Listing /\ marks \in Listing
  /\ userCalls \in Seq(UserCall)
  /\ editor \in Editors
  /\ asksScope \in Optional(Question)
  /\ reloads \subseteq ListingRun

(* A title of a single event was there at first, or comes from a call the   *)
(* server carried out; a mark may also be of a call that is not yet         *)
(* reported, and goes with it.                                             *)
Genuine(t) == t = 0 \/ (t \in DOMAIN userCalls /\ userCalls[t].stage \in Landed)
Unreported(t, e) == /\ t \in DOMAIN userCalls /\ userCalls[t].stage \in {"sent", "refused"}
                    /\ userCalls[t].what \in {"edit", "form"} /\ e \in userCalls[t].ids
Marked(t, e) == Genuine(t) \/ Unreported(t, e)
GenuineList(f) == \A e \in DOMAIN f \ Recurring : Genuine(f[e].title)

PageInv ==
  /\ PageTypes
  /\ GenuineList(server) /\ GenuineList(entries) /\ GenuineList(lastList)
  /\ \A l \in reloads : /\ GenuineList(l.stale)
                        /\ l.answer # <<>> => GenuineList(l.answer[1])
  /\ \A e \in DOMAIN marks \ Recurring : Marked(marks[e].title, e)

LEMMA ListingParts ==
    ASSUME NEW f \in Listing
    PROVE  DOMAIN f \subseteq OnPage /\ \A e \in DOMAIN f : f[e] \in EventValue
  BY DEF Listing

LEMMA ListingMade ==
    ASSUME NEW D \in SUBSET OnPage, NEW f \in [D -> EventValue]
    PROVE  f \in Listing
  BY DEF Listing

LEMMA OverIs ==
    ASSUME NEW f \in Listing, NEW g \in Listing
    PROVE  /\ Edits!Over(f, g) \in Listing
           /\ DOMAIN Edits!Over(f, g) = DOMAIN f \cup DOMAIN g
           /\ \A e \in DOMAIN Edits!Over(f, g) :
                Edits!Over(f, g)[e] = IF e \in DOMAIN f THEN f[e] ELSE g[e]
  <1> DEFINE D == DOMAIN f \cup DOMAIN g
  <1>1. D \in SUBSET OnPage /\ Edits!Over(f, g) \in [D -> EventValue]
    BY ListingParts DEF Edits!Over
  <1> QED BY <1>1, ListingMade DEF Edits!Over

LEMMA WithoutIs ==
    ASSUME NEW f \in Listing, NEW ids
    PROVE  /\ Edits!Without(f, ids) \in Listing
           /\ DOMAIN Edits!Without(f, ids) = DOMAIN f \ ids
           /\ \A e \in DOMAIN f \ ids : Edits!Without(f, ids)[e] = f[e]
  <1> DEFINE D == DOMAIN f \ ids
  <1>1. Edits!Without(f, ids) = [e \in D |-> f[e]]
    BY DEF Edits!Without, Edits!Restrict
  <1>2. D \in SUBSET OnPage /\ Edits!Without(f, ids) \in [D -> EventValue]
    BY <1>1, ListingParts
  <1> QED BY <1>1, <1>2, ListingMade

(* The page shows what is listed, or a mark over it.                        *)
LEMMA ScreenIs ==
    ASSUME PageInv
    PROVE  /\ Edits!Screen \in Listing
           /\ DOMAIN Edits!Screen = Edits!Shown /\ Edits!Shown \subseteq OnPage
           /\ \A e \in Edits!Shown \ Recurring : Marked(Edits!Screen[e].title, e)
  <1> DEFINE D == DOMAIN entries \ hidden
  <1>1. Edits!Screen = [e \in D |-> IF e \in DOMAIN marks THEN marks[e] ELSE entries[e]]
    BY DEF Edits!Screen, Edits!Shown
  <1>2. D \in SUBSET OnPage /\ Edits!Screen \in [D -> EventValue]
    BY <1>1, ListingParts DEF PageInv, PageTypes
  <1>3. \A e \in D \ Recurring : Marked(Edits!Screen[e].title, e)
    BY <1>1 DEF PageInv, GenuineList, Marked
  <1> QED BY <1>1, <1>2, <1>3, ListingMade DEF Edits!Shown

LEMMA PageStarts ==
    ASSUME Edits!Init
    PROVE  PageInv
  <1> DEFINE old == [e \in Events |-> Edits!Old]
  <1>1. old \in Listing /\ DOMAIN old = Events /\ \A e \in Events : old[e].title = 0
    <2>1. Edits!Old \in EventValue /\ Edits!Old.title = 0
      BY DEF Edits!Old, EventValue
    <2>2. old \in [Events -> EventValue] /\ Events \in SUBSET OnPage
      BY <2>1 DEF OnPage
    <2> QED BY <2>1, <2>2, ListingMade
  <1> HIDE DEF old
  <1>2. server = old /\ entries = old /\ lastList = old
    BY DEF Edits!Init, old
  <1>3. marks = <<>> /\ marks \in Listing /\ DOMAIN marks = {}
    <2>1. marks = <<>> /\ marks \in [{} -> EventValue]
      BY DEF Edits!Init
    <2> QED BY <2>1, ListingMade
  <1>4. userCalls = <<>> /\ userCalls \in Seq(UserCall) /\ editor = <<>> /\ asksScope = <<>> /\ reloads = {}
    BY DEF Edits!Init
  <1> QED BY <1>1, <1>2, <1>3, <1>4 DEF PageInv, PageTypes, GenuineList, Genuine, Optional, Editors

----------------------------------------------------------------------------
(* What the server carried out stays carried out.                           *)
LEMMA GenuineStays ==
    ASSUME DOMAIN userCalls \subseteq DOMAIN userCalls',
           \A t \in DOMAIN userCalls : userCalls[t].stage \in Landed => userCalls'[t].stage \in Landed
    PROVE  \A t : Genuine(t) => Genuine(t)'
  BY DEF Genuine

(* The stage of one call changes, or those of several.                      *)
LEMMA StageSet ==
    ASSUME NEW c, NEW stage \in Landed \cup {"refused", "failed", "missing"}, userCalls \in Seq(UserCall),
           userCalls' = [userCalls EXCEPT ![c].stage = stage]
    PROVE  /\ userCalls' \in Seq(UserCall) /\ DOMAIN userCalls' = DOMAIN userCalls
           /\ \A t \in DOMAIN userCalls :
                /\ userCalls'[t].what = userCalls[t].what /\ userCalls'[t].ids = userCalls[t].ids
                /\ userCalls'[t].stage = IF t = c THEN stage ELSE userCalls[t].stage
  <1> DEFINE n == Len(userCalls)
  <1>1. n \in Nat /\ DOMAIN userCalls = 1..n /\ \A t \in 1..n : userCalls[t] \in UserCall
    OBVIOUS
  <1>2. \A t \in 1..n : [userCalls[t] EXCEPT !.stage = stage] \in UserCall
    BY <1>1 DEF UserCall
  <1>3. userCalls' = [t \in 1..n |-> IF t = c THEN [userCalls[t] EXCEPT !.stage = stage] ELSE userCalls[t]]
    BY <1>1
  <1>4. userCalls' \in [1..n -> UserCall]
    BY <1>1, <1>2, <1>3
  <1>5. userCalls' \in Seq(UserCall)
    BY <1>1, <1>4
  <1> QED BY <1>1, <1>3, <1>5 DEF UserCall

LEMMA StagesSet ==
    ASSUME NEW c, NEW stage \in {"listing", "missing"}, userCalls \in Seq(UserCall),
           userCalls' = Edits!Staged(c, stage)
    PROVE  /\ userCalls' \in Seq(UserCall) /\ DOMAIN userCalls' = DOMAIN userCalls
           /\ \A t \in DOMAIN userCalls :
                /\ userCalls'[t].what = userCalls[t].what /\ userCalls'[t].ids = userCalls[t].ids
                /\ userCalls'[t].stage \in IF t = c THEN {stage} ELSE {userCalls[t].stage, "listed"}
  <1> DEFINE n == Len(userCalls)
  <1>1. n \in Nat /\ DOMAIN userCalls = 1..n /\ \A t \in 1..n : userCalls[t] \in UserCall
    OBVIOUS
  <1>2. \A t \in 1..n : /\ [userCalls[t] EXCEPT !.stage = stage] \in UserCall
                        /\ [userCalls[t] EXCEPT !.stage = "listed"] \in UserCall
    BY <1>1 DEF UserCall, Landed
  <1>3. /\ userCalls' = [t \in 1..n |-> userCalls'[t]]
        /\ \A t \in 1..n : userCalls'[t] \in
             IF t = c THEN {[userCalls[t] EXCEPT !.stage = stage]}
             ELSE {userCalls[t], [userCalls[t] EXCEPT !.stage = "listed"]}
    BY <1>1 DEF Edits!Staged
  <1>4. userCalls' \in [1..n -> UserCall]
    BY <1>1, <1>2, <1>3
  <1>5. userCalls' \in Seq(UserCall)
    BY <1>1, <1>4
  <1> QED BY <1>1, <1>3, <1>5 DEF UserCall

(* A call joins those made.                                                 *)
LEMMA CallJoins ==
    ASSUME PageInv, NEW call \in UserCall, call.stage = "sent", userCalls' = Append(userCalls, call)
    PROVE  /\ userCalls' \in Seq(UserCall) /\ Len(userCalls) + 1 \in DOMAIN userCalls'
           /\ DOMAIN userCalls \subseteq DOMAIN userCalls'
           /\ userCalls'[Len(userCalls) + 1] = call
           /\ \A t \in DOMAIN userCalls : userCalls'[t] = userCalls[t]
           /\ \A t : Genuine(t) => Genuine(t)'
           /\ \A t, e : Marked(t, e) => Marked(t, e)'
  <1>1. /\ userCalls' \in Seq(UserCall) /\ Len(userCalls) + 1 \in DOMAIN userCalls'
        /\ DOMAIN userCalls \subseteq DOMAIN userCalls'
        /\ userCalls'[Len(userCalls) + 1] = call
        /\ \A t \in DOMAIN userCalls : userCalls'[t] = userCalls[t]
    BY DEF PageInv, PageTypes
  <1> QED BY <1>1 DEF Genuine, Marked, Unreported

LEMMA FieldIs ==
    ASSUME NEW v \in EventValue, NEW n \in Nat, NEW what \in CallKinds
    PROVE  /\ [v EXCEPT ![Edits!Field(what)] = n] \in EventValue
           /\ [v EXCEPT ![Edits!Field(what)] = n].title = IF what \in {"edit", "form"} THEN n ELSE v.title
  <1>1. CASE what \in {"edit", "form"}
    <2>1. Edits!Field(what) = "title"
      BY <1>1 DEF Edits!Field
    <2> QED BY <1>1, <2>1 DEF EventValue
  <1>2. CASE what = "rsvp"
    <2>1. Edits!Field(what) = "reply"
      BY <1>2 DEF Edits!Field
    <2> QED BY <1>2, <2>1 DEF EventValue
  <1>3. CASE what \notin {"edit", "form", "rsvp"}
    <2>1. Edits!Field(what) = "cancelled"
      BY <1>3 DEF Edits!Field
    <2> QED BY <1>3, <2>1 DEF EventValue
  <1> QED BY <1>1, <1>2, <1>3

(* A call marks single events with its own title, or with one on the page.  *)
LEMMA CallBegins ==
    ASSUME PageInv, NEW what \in CallKinds, NEW ids \in SUBSET OnPage, NEW on \in SUBSET OnPage,
           NEW seen \in Listing, Edits!Begin(what, ids, on, seen),
           editor' \in Editors,
           asksScope' \in Optional(Question),
           \A e \in (ids \cap DOMAIN seen) \ Recurring :
             what \in {"edit", "form"} \/ Marked(seen[e].title, e)
    PROVE  PageInv'
  <1> DEFINE n == Len(userCalls) + 1
             call == [what |-> what, ids |-> ids, on |-> on, stage |-> "sent"]
             new == [e \in ids \cap DOMAIN seen |-> [seen[e] EXCEPT ![Edits!Field(what)] = n]]
  <1>1. n \in Nat /\ Edits!Last + 1 = n
    BY DEF PageInv, PageTypes, Edits!Last
  <1>2. call \in UserCall /\ userCalls' = Append(userCalls, call)
    BY DEF UserCall, Edits!Begin
  <1>3. /\ userCalls' \in Seq(UserCall) /\ n \in DOMAIN userCalls'
        /\ userCalls'[n] = call
        /\ \A t : Genuine(t) => Genuine(t)'
        /\ \A t, e : Marked(t, e) => Marked(t, e)'
    BY <1>2, CallJoins
  <1>4. /\ new \in Listing
        /\ \A e \in DOMAIN new : new[e].title = IF what \in {"edit", "form"} THEN n ELSE seen[e].title
    <2>1. DOMAIN new = ids \cap DOMAIN seen /\ DOMAIN new \in SUBSET OnPage
      OBVIOUS
    <2>2. \A e \in DOMAIN new :
            /\ new[e] \in EventValue
            /\ new[e].title = IF what \in {"edit", "form"} THEN n ELSE seen[e].title
      <3> TAKE e \in DOMAIN new
      <3>1. seen[e] \in EventValue
        BY ListingParts
      <3>2. new[e] = [seen[e] EXCEPT ![Edits!Field(what)] = n]
        OBVIOUS
      <3> HIDE DEF new, n
      <3> DEFINE v == seen[e]
      <3> HIDE DEF v
      <3>3. v \in EventValue
        BY <3>1 DEF v
      <3>4. /\ [v EXCEPT ![Edits!Field(what)] = n] \in EventValue
            /\ [v EXCEPT ![Edits!Field(what)] = n].title = IF what \in {"edit", "form"} THEN n ELSE v.title
        <4>1. v \in EventValue /\ n \in Nat /\ what \in CallKinds
          BY <1>1, <3>3
        <4> QED BY <4>1, FieldIs, Zenon
      <3> QED BY <3>2, <3>4, Zenon DEF v
    <2>3. new \in [DOMAIN new -> EventValue]
      BY <2>2
    <2> QED BY <2>1, <2>2, <2>3, ListingMade
  <1>5. \A e \in DOMAIN new \ Recurring : \A t : t = new[e].title => Marked(t, e)'
    <2> TAKE e \in DOMAIN new \ Recurring
    <2> TAKE t
    <2>1. e \in ids \cap DOMAIN seen
      OBVIOUS
    <2>2. CASE what \in {"edit", "form"}
      <3>1. new[e].title = n
        BY <1>4, <2>2
      <3> HIDE DEF new, n
      <3>2. \A u : u = n => Unreported(u, e)'
        BY <1>3, <2>1, <2>2 DEF Unreported, call
      <3> QED BY <3>1, <3>2 DEF Marked
    <2>3. CASE what \notin {"edit", "form"}
      <3>1. new[e].title = seen[e].title /\ Marked(seen[e].title, e)
        BY <1>4, <2>1, <2>3
      <3> HIDE DEF new, n
      <3> QED BY <1>3, <3>1
    <2> QED BY <2>2, <2>3
  <1>6. /\ UNCHANGED <<server, entries, lastList, reloads>>
        /\ marks' = marks \/ marks' = Edits!Over(new, marks)
    BY <1>1 DEF Edits!Begin
  <1> HIDE DEF new, n, call
  <1>7. marks' \in Listing /\ \A e \in DOMAIN marks' \ Recurring : \A t : t = marks'[e].title => Marked(t, e)'
    <2>1. CASE marks' = marks
      BY <1>3, <2>1 DEF PageInv, PageTypes
    <2>2. CASE marks' = Edits!Over(new, marks)
      <3>1. marks \in Listing
        BY DEF PageInv, PageTypes
      <3>2. /\ marks' \in Listing /\ DOMAIN marks' = DOMAIN new \cup DOMAIN marks
            /\ \A e \in DOMAIN marks' : marks'[e] = IF e \in DOMAIN new THEN new[e] ELSE marks[e]
        <4>1. new \in Listing
          BY <1>4
        <4>2. /\ Edits!Over(new, marks) \in Listing
              /\ DOMAIN Edits!Over(new, marks) = DOMAIN new \cup DOMAIN marks
              /\ \A e \in DOMAIN Edits!Over(new, marks) :
                   Edits!Over(new, marks)[e] = IF e \in DOMAIN new THEN new[e] ELSE marks[e]
          BY <3>1, <4>1, OverIs
        <4> QED BY <2>2, <4>2, Zenon
      <3>3. ASSUME NEW e \in DOMAIN marks' \ Recurring, NEW t, t = marks'[e].title
            PROVE  Marked(t, e)'
        <4>1. CASE e \in DOMAIN new
          BY <1>5, <3>2, <3>3, <4>1
        <4>2. CASE e \notin DOMAIN new
          <5>1. Marked(t, e)
            BY <3>2, <3>3, <4>2 DEF PageInv
          <5> QED BY <1>3, <5>1
        <4> QED BY <4>1, <4>2
      <3> QED BY <3>2, <3>3
    <2> QED BY <1>6, <2>1, <2>2
  <1>8. PageTypes'
    BY <1>3, <1>6, <1>7 DEF PageInv, PageTypes
  <1>9. /\ GenuineList(server)' /\ GenuineList(entries)' /\ GenuineList(lastList)'
        /\ \A l \in reloads' : /\ GenuineList(l.stale)'
                               /\ l.answer # <<>> => GenuineList(l.answer[1])'
    BY <1>3, <1>6 DEF PageInv, GenuineList
  <1>10. \A e \in DOMAIN marks' \ Recurring : Marked(marks[e].title, e)'
    BY <1>7
  <1> QED BY <1>8, <1>9, <1>10 DEF PageInv

----------------------------------------------------------------------------
(* What a step leaves true when it changes stages only so that what was     *)
(* carried out stays so, and reports no failure of a call that marks.       *)
LEMMA QuietStep ==
    ASSUME PageInv, userCalls' \in Seq(UserCall), DOMAIN userCalls' = DOMAIN userCalls,
           \A t \in DOMAIN userCalls :
             /\ userCalls'[t].what = userCalls[t].what /\ userCalls'[t].ids = userCalls[t].ids
             /\ userCalls[t].stage \in Landed => userCalls'[t].stage \in Landed
             /\ userCalls[t].stage \in {"sent", "refused"} /\ userCalls[t].what \in {"edit", "form"} =>
                  userCalls'[t].stage \in Landed \cup {"sent", "refused"}
    PROVE  /\ \A t : Genuine(t) => Genuine(t)'
           /\ \A t, e : Marked(t, e) => Marked(t, e)'
  <1>1. \A t : Genuine(t) => Genuine(t)'
    BY GenuineStays
  <1>2. \A t, e : Unreported(t, e) => Marked(t, e)'
    BY DEF Unreported, Marked, Genuine
  <1> QED BY <1>1, <1>2 DEF Marked

(* Nothing the page holds changes but the calls.                            *)
LEMMA HeldStays ==
    ASSUME PageInv, \A t : Genuine(t) => Genuine(t)', UNCHANGED <<server, entries, lastList, reloads>>
    PROVE  /\ GenuineList(server)' /\ GenuineList(entries)' /\ GenuineList(lastList)'
           /\ \A l \in reloads' : /\ \A e \in DOMAIN l.stale \ Recurring : \A t : t = l.stale[e].title => Genuine(t)'
                                  /\ l.answer # <<>> =>
                                       \A e \in DOMAIN l.answer[1] \ Recurring :
                                         \A t : t = l.answer[1][e].title => Genuine(t)'
  BY DEF PageInv, GenuineList

LEMMA StartEditKeeps ==
    ASSUME PageInv, NEW e \in Edits!Shown, Edits!StartEdit(e)
    PROVE  PageInv'
  <1>1. e \in OnPage /\ Edits!Screen[e] \in EventValue
    BY ScreenIs, ListingParts
  <1>2. editor' \in OnPage \X EventValue \X Nat
    BY <1>1 DEF Edits!StartEdit
  <1> QED BY <1>2 DEF Editors, Edits!StartEdit, PageInv, PageTypes, GenuineList, Genuine, Marked, Unreported

LEMMA CloseKeeps ==
    ASSUME PageInv, Edits!CloseForm
    PROVE  PageInv'
  BY DEF Editors, Edits!CloseForm, PageInv, PageTypes, GenuineList, Genuine, Marked, Unreported

(* The form marks its own event with its own title, over what it was opened *)
(* with.                                                                    *)
LEMMA SubmitKeeps ==
    ASSUME PageInv, NEW scope \in {"this", "all"}, Edits!SubmitForm(scope)
    PROVE  PageInv'
  <1> DEFINE e == editor[1]  v == editor[2]  seen == [x \in {e} |-> v]
  <1>1. editor \in OnPage \X EventValue \X Nat
    BY DEF Edits!SubmitForm, PageInv, PageTypes, Editors
  <1>2. e \in OnPage /\ v \in EventValue
    BY <1>1
  <1>3. seen \in Listing
    <2>1. seen \in [{e} -> EventValue] /\ {e} \in SUBSET OnPage
      BY <1>2
    <2> QED BY <2>1, ListingMade
  <1>4. Edits!On("form", scope, e) \in SUBSET OnPage
    BY <1>2 DEF Edits!On, OnPage
  <1>5. Edits!Last + 1 \in Nat
    BY DEF PageInv, PageTypes, Edits!Last
  <1>6. editor' \in Editors
    BY <1>1, <1>5 DEF Edits!SubmitForm, Editors
  <1>7. asksScope' \in Optional(Question)
    BY DEF Edits!SubmitForm, PageInv, PageTypes
  <1>8. Edits!Begin("form", {e}, Edits!On("form", scope, e), seen)
    BY DEF Edits!SubmitForm
  <1> HIDE DEF e, v, seen
  <1>9. {e} \in SUBSET OnPage /\ "form" \in CallKinds
    BY <1>2 DEF CallKinds
  <1> QED BY <1>3, <1>4, <1>6, <1>7, <1>8, <1>9, CallBegins

(* A call on a single event starts from the page.                           *)
LEMMA ActKeeps ==
    ASSUME PageInv, NEW what \in {"edit", "rsvp", "delete", "cancel"}, NEW e \in Edits!Shown,
           Edits!Act(what, e)
    PROVE  PageInv'
  <1>1. e \in OnPage /\ what \in CallKinds /\ Edits!Screen \in Listing
    BY ScreenIs DEF CallKinds
  <1>2. editor' \in Editors
    BY DEF Edits!Act, PageInv, PageTypes
  <1>3. CASE e \in Recurring
    <2> DEFINE q == [what |-> what, event |-> e, seen |-> Edits!Screen]
    <2>1. q \in Question
      BY <1>1, <1>3 DEF Question
    <2>2. asksScope' = <<q>>
      BY <1>3 DEF Edits!Act
    <2> HIDE DEF q
    <2>3. asksScope' \in Optional(Question)
      BY <2>1, <2>2 DEF Optional
    <2> QED BY <1>2, <1>3, <2>3
            DEF Edits!Act, PageInv, PageTypes, GenuineList, Genuine, Marked, Unreported
  <1>4. CASE e \notin Recurring
    <2>1. Edits!Begin(what, {e}, {e}, Edits!Screen)
      BY <1>4 DEF Edits!Act
    <2>2. asksScope' \in Optional(Question)
      BY <1>4 DEF Edits!Act, PageInv, PageTypes
    <2>3. Marked(Edits!Screen[e].title, e) /\ {e} \in SUBSET OnPage
      BY <1>1, <1>4, ScreenIs
    <2>4. \A x \in ({e} \cap DOMAIN Edits!Screen) \ Recurring :
            what \in {"edit", "form"} \/ Marked(Edits!Screen[x].title, x)
      BY <2>3
    <2> QED BY <1>1, <1>2, <2>1, <2>2, <2>3, <2>4, CallBegins
  <1> QED BY <1>3, <1>4

(* What the dialog goes on with marks occurrences only.                     *)
LEMMA ChooseKeeps ==
    ASSUME PageInv, NEW scope \in {"this", "all", "none"}, Edits!Choose(scope)
    PROVE  PageInv'
  <1> DEFINE q == asksScope[1]
  <1>1. q \in Question /\ asksScope' = <<>>
    BY DEF Edits!Choose, PageInv, PageTypes, Optional
  <1>2. q.what \in CallKinds /\ q.event \in Recurring /\ q.seen \in Listing
    BY <1>1 DEF Question
  <1>3. /\ asksScope' \in Optional(Question)
        /\ editor' \in Editors
    BY <1>1 DEF Edits!Choose, PageInv, PageTypes, Optional
  <1>4. CASE scope = "none"
    BY <1>3, <1>4 DEF Edits!Choose, PageInv, PageTypes, GenuineList, Genuine, Marked, Unreported
  <1>5. CASE scope # "none"
    <2>1. PICK ids, on : /\ ids \subseteq Recurring /\ on \subseteq OnPage
                         /\ Edits!Begin(q.what, ids, on, q.seen)
      <3>1. Edits!On(q.what, scope, q.event) \subseteq OnPage
        BY <1>2 DEF Edits!On, OnPage
      <3> DEFINE ids == IF scope = "this" \/ q.what = "edit" THEN {q.event}
                        ELSE Recurring \cap DOMAIN q.seen
      <3>2. ids \subseteq Recurring
        BY <1>2
      <3>3. Edits!Begin(q.what, ids, Edits!On(q.what, scope, q.event), q.seen)
        BY <1>5 DEF Edits!Choose
      <3> QED BY <3>1, <3>2, <3>3
    <2>2. ids \in SUBSET OnPage /\ on \in SUBSET OnPage
      BY <2>1 DEF OnPage
    <2>3. \A x \in (ids \cap DOMAIN q.seen) \ Recurring :
            q.what \in {"edit", "form"} \/ Marked(q.seen[x].title, x)
      BY <2>1
    <2> HIDE DEF q
    <2> QED BY <1>2, <1>3, <2>1, <2>2, <2>3, CallBegins
  <1> QED BY <1>4, <1>5

LEMMA CreateKeeps ==
    ASSUME PageInv, Edits!Create
    PROVE  PageInv'
  <1> DEFINE call == [what |-> "create", ids |-> {New}, on |-> {New}, stage |-> "sent"]
  <1>1. call \in UserCall /\ userCalls' = Append(userCalls, call) /\ call.stage = "sent"
    BY DEF UserCall, CallKinds, OnPage, Edits!Create
  <1> HIDE DEF call
  <1>2. /\ userCalls' \in Seq(UserCall)
        /\ \A t : Genuine(t) => Genuine(t)'
        /\ \A t, e : Marked(t, e) => Marked(t, e)'
    BY <1>1, CallJoins
  <1>3. UNCHANGED <<server, entries, lastList, marks, editor, asksScope, reloads>>
    BY DEF Edits!Create
  <1> QED BY <1>2, <1>3 DEF PageInv, PageTypes, GenuineList

(* What the server carries out bears the title of the call, carried out now. *)
LEMMA ServeKeeps ==
    ASSUME PageInv, NEW c \in DOMAIN userCalls, Edits!Serve(c)
    PROVE  PageInv'
  <1>1. PICK stage \in {"done", "refused"} :
             /\ userCalls' = [userCalls EXCEPT ![c].stage = stage]
             /\ IF stage = "done" THEN server' = Edits!Applied(c) ELSE UNCHANGED server
    BY DEF Edits!Serve
  <1>2. /\ userCalls \in Seq(UserCall) /\ userCalls[c] \in UserCall /\ userCalls[c].stage = "sent"
        /\ stage \in Landed \cup {"refused", "failed", "missing"}
        /\ c \in Nat
    BY DEF PageInv, PageTypes, Edits!Serve, Landed
  <1>3. /\ userCalls' \in Seq(UserCall) /\ DOMAIN userCalls' = DOMAIN userCalls
        /\ \A t \in DOMAIN userCalls :
             /\ userCalls'[t].what = userCalls[t].what /\ userCalls'[t].ids = userCalls[t].ids
             /\ userCalls'[t].stage = IF t = c THEN stage ELSE userCalls[t].stage
    BY <1>1, <1>2, StageSet
  <1>4. /\ \A t : Genuine(t) => Genuine(t)'
        /\ \A t, e : Marked(t, e) => Marked(t, e)'
    BY <1>2, <1>3, QuietStep DEF Landed
  <1>5. /\ server' \in Listing
        /\ \A e \in DOMAIN server' \ Recurring : \A t : t = server'[e].title => Genuine(t)'
    <2>1. server \in Listing /\ GenuineList(server)
      BY DEF PageInv, PageTypes
    <2>2. CASE stage = "refused"
      BY <1>1, <1>4, <2>1, <2>2 DEF GenuineList
    <2>3. CASE stage = "done"
      <3>1. \A t : t = c => Genuine(t)'
        BY <1>3, <2>3 DEF Genuine, Landed
      <3>2. CASE userCalls[c].what = "create"
        <4> DEFINE new == [e \in {New} |-> [Edits!Old EXCEPT !.title = c]]
        <4>1. new \in Listing /\ DOMAIN new = {New} /\ new[New].title = c
          <5>1. [Edits!Old EXCEPT !.title = c] \in EventValue /\ [Edits!Old EXCEPT !.title = c].title = c
            BY <1>2 DEF Edits!Old, EventValue
          <5>2. new \in [{New} -> EventValue] /\ {New} \in SUBSET OnPage
            BY <5>1 DEF OnPage
          <5> QED BY <5>1, <5>2, ListingMade
        <4>2. server' = Edits!Over(new, server)
          <5>1. server' = Edits!Applied(c)
            BY <1>1, <2>3
          <5>2. Edits!Applied(c) = Edits!Created(c)
            BY <3>2 DEF Edits!Applied, Edits!Hides
          <5>3. Edits!Created(c) = Edits!Over(new, server)
            BY DEF Edits!Created
          <5> QED BY <5>1, <5>2, <5>3
        <4> HIDE DEF new
        <4>3. /\ Edits!Over(new, server) \in Listing
              /\ DOMAIN Edits!Over(new, server) = DOMAIN new \cup DOMAIN server
              /\ \A e \in DOMAIN Edits!Over(new, server) :
                   Edits!Over(new, server)[e] = IF e \in DOMAIN new THEN new[e] ELSE server[e]
          BY <2>1, <4>1, OverIs
        <4>4. /\ server' \in Listing /\ DOMAIN server' = DOMAIN new \cup DOMAIN server
              /\ \A e \in DOMAIN server' : server'[e] = IF e \in DOMAIN new THEN new[e] ELSE server[e]
          BY <4>2, <4>3, Zenon
        <4> QED BY <1>4, <2>1, <3>1, <4>1, <4>4 DEF GenuineList
      <3>3. CASE userCalls[c].what # "create" /\ Edits!Hides(userCalls[c].what)
        <4>1. server' = Edits!Without(server, userCalls[c].on)
          BY <1>1, <2>3, <3>3 DEF Edits!Applied, Edits!Removed
        <4>2. /\ server' \in Listing /\ DOMAIN server' \subseteq DOMAIN server
              /\ \A e \in DOMAIN server' : server'[e] = server[e]
          <5> DEFINE left == Edits!Without(server, userCalls[c].on)
          <5>1. left \in Listing /\ DOMAIN left = DOMAIN server \ userCalls[c].on
                /\ \A e \in DOMAIN server \ userCalls[c].on : left[e] = server[e]
            BY <2>1, WithoutIs
          <5>2. server' = left
            BY <4>1
          <5> HIDE DEF left
          <5> QED BY <5>1, <5>2
        <4> QED BY <1>4, <2>1, <4>2 DEF GenuineList
      <3>4. CASE userCalls[c].what # "create" /\ ~Edits!Hides(userCalls[c].what)
        <4> DEFINE what == userCalls[c].what
                   new == [e \in userCalls[c].on \cap DOMAIN server |-> Edits!Value(c, e)]
        <4>1. server' = Edits!Over(new, server)
          BY <1>1, <2>3, <3>4 DEF Edits!Applied, Edits!Edited
        <4>2. /\ new \in Listing /\ DOMAIN new \subseteq DOMAIN server
              /\ \A e \in DOMAIN new : new[e].title \in {c, server[e].title}
          <5>1. DOMAIN new \subseteq DOMAIN server /\ DOMAIN new \in SUBSET OnPage
            BY <2>1, ListingParts
          <5>2. \A e \in DOMAIN new : new[e] \in EventValue /\ new[e].title \in {c, server[e].title}
            <6> TAKE e \in DOMAIN new
            <6> DEFINE v == server[e]
            <6>1. new[e] = [v EXCEPT ![Edits!Field(what)] = c]
              BY DEF Edits!Value
            <6>2. v \in EventValue /\ what \in CallKinds /\ c \in Nat
              BY <1>2, <2>1, <5>1, ListingParts DEF UserCall
            <6> HIDE DEF v, what
            <6>3. /\ [v EXCEPT ![Edits!Field(what)] = c] \in EventValue
                  /\ [v EXCEPT ![Edits!Field(what)] = c].title
                       = IF what \in {"edit", "form"} THEN c ELSE v.title
              BY <6>2, FieldIs, Zenon
            <6> HIDE DEF new
            <6>4. new[e] \in EventValue
                  /\ new[e].title = IF what \in {"edit", "form"} THEN c ELSE v.title
              BY <6>1, <6>3, Zenon
            <6> QED BY <6>4 DEF v
          <5>3. new \in [DOMAIN new -> EventValue]
            BY <5>2
          <5> QED BY <5>1, <5>2, <5>3, ListingMade
        <4> HIDE DEF new
        <4>3. /\ Edits!Over(new, server) \in Listing
              /\ DOMAIN Edits!Over(new, server) = DOMAIN new \cup DOMAIN server
              /\ \A e \in DOMAIN Edits!Over(new, server) :
                   Edits!Over(new, server)[e] = IF e \in DOMAIN new THEN new[e] ELSE server[e]
          BY <2>1, <4>2, OverIs
        <4>4. /\ server' \in Listing /\ DOMAIN server' = DOMAIN new \cup DOMAIN server
              /\ \A e \in DOMAIN server' : server'[e] = IF e \in DOMAIN new THEN new[e] ELSE server[e]
          BY <4>1, <4>3, Zenon
        <4> QED BY <1>4, <2>1, <3>1, <4>2, <4>4 DEF GenuineList
      <3> QED BY <3>2, <3>3, <3>4
    <2> QED BY <2>2, <2>3
  <1>6. UNCHANGED <<entries, lastList, marks, editor, asksScope, reloads>>
    BY DEF Edits!Serve
  <1> QED BY <1>3, <1>4, <1>5, <1>6 DEF PageInv, PageTypes, GenuineList

(* The marks of a call that goes.                                           *)
LEMMA UnmarkIs ==
    ASSUME PageInv, NEW c \in DOMAIN userCalls, Edits!Unmark(c)
    PROVE  /\ marks' \in Listing /\ DOMAIN marks' \subseteq DOMAIN marks
           /\ \A e \in DOMAIN marks' : marks'[e] = marks[e]
           /\ userCalls[c].what \in {"edit", "form"} => DOMAIN marks' \cap userCalls[c].ids = {}
  <1>1. marks \in Listing
    BY DEF PageInv, PageTypes
  <1>2. CASE Edits!Hides(userCalls[c].what)
    BY <1>1, <1>2 DEF Edits!Unmark, Edits!Hides
  <1>3. CASE ~Edits!Hides(userCalls[c].what)
    <2>1. marks' = Edits!Without(marks, userCalls[c].ids)
      BY <1>3 DEF Edits!Unmark
    <2> DEFINE left == Edits!Without(marks, userCalls[c].ids)
    <2>2. left \in Listing /\ DOMAIN left = DOMAIN marks \ userCalls[c].ids
          /\ \A e \in DOMAIN left : left[e] = marks[e]
      BY <1>1, WithoutIs
    <2>3. marks' = left
      BY <2>1
    <2> HIDE DEF left
    <2> QED BY <2>2, <2>3
  <1> QED BY <1>2, <1>3

LEMMA FailKeeps ==
    ASSUME PageInv, NEW c \in DOMAIN userCalls, Edits!Fail(c)
    PROVE  PageInv'
  <1> DEFINE stage == IF userCalls[c].stage = "done" THEN "lost" ELSE "failed"
  <1>1. /\ userCalls \in Seq(UserCall) /\ userCalls[c] \in UserCall
        /\ userCalls[c].stage \in {"done", "refused"}
        /\ stage \in Landed \cup {"refused", "failed", "missing"}
        /\ userCalls' = [userCalls EXCEPT ![c].stage = stage]
    BY DEF PageInv, PageTypes, Edits!Fail, Landed
  <1>2. stage \in Landed <=> userCalls[c].stage = "done"
    BY <1>1 DEF Landed
  <1> HIDE DEF stage
  <1>3. /\ userCalls' \in Seq(UserCall) /\ DOMAIN userCalls' = DOMAIN userCalls
        /\ \A t \in DOMAIN userCalls :
             /\ userCalls'[t].what = userCalls[t].what /\ userCalls'[t].ids = userCalls[t].ids
             /\ userCalls'[t].stage = IF t = c THEN stage ELSE userCalls[t].stage
    BY <1>1, StageSet
  <1>4. \A t : Genuine(t) => Genuine(t)'
    BY <1>1, <1>2, <1>3, GenuineStays DEF Landed
  <1>5. \A t, e : Marked(t, e) /\ ~(t = c /\ Unreported(t, e)) => Marked(t, e)'
    <2> TAKE t, e
    <2>1. CASE Genuine(t)
      BY <1>4, <2>1 DEF Marked
    <2>2. CASE Unreported(t, e) /\ t # c
      <3>1. Unreported(t, e)'
        BY <1>3, <2>2 DEF Unreported
      <3> QED BY <3>1 DEF Marked
    <2> QED BY <2>1, <2>2 DEF Marked
  <1>6. /\ marks' \in Listing /\ DOMAIN marks' \subseteq DOMAIN marks
        /\ \A e \in DOMAIN marks' : marks'[e] = marks[e]
        /\ userCalls[c].what \in {"edit", "form"} => DOMAIN marks' \cap userCalls[c].ids = {}
    BY UnmarkIs DEF Edits!Fail
  <1>7. \A e \in DOMAIN marks' \ Recurring : \A t : t = marks'[e].title => Marked(t, e)'
    <2> TAKE e \in DOMAIN marks' \ Recurring
    <2>1. Marked(marks[e].title, e)
      BY <1>6 DEF PageInv
    <2>2. ~(marks[e].title = c /\ Unreported(marks[e].title, e))
      BY <1>6 DEF Unreported
    <2> QED BY <1>5, <1>6, <2>1, <2>2
  <1>8. editor' \in Editors
    <2>1. CASE editor # <<>> /\ editor[3] = c
      <3>1. editor \in OnPage \X EventValue \X Nat /\ editor' = [editor EXCEPT ![3] = 0]
        BY <2>1 DEF PageInv, PageTypes, Editors, Edits!Fail
      <3> QED BY <3>1 DEF Editors
    <2>2. CASE ~(editor # <<>> /\ editor[3] = c)
      BY <2>2 DEF PageInv, PageTypes, Edits!Fail
    <2> QED BY <2>1, <2>2
  <1>9. UNCHANGED <<server, entries, lastList, asksScope, reloads>>
    BY DEF Edits!Fail
  <1> QED BY <1>3, <1>4, <1>6, <1>7, <1>8, <1>9 DEF PageInv, PageTypes, GenuineList

LEMMA FinishKeeps ==
    ASSUME PageInv, NEW c \in DOMAIN userCalls, Edits!Finish(c)
    PROVE  PageInv'
  <1>1. /\ userCalls \in Seq(UserCall) /\ userCalls[c].stage = "listed"
        /\ "ended" \in Landed \cup {"refused", "failed", "missing"}
        /\ userCalls' = [userCalls EXCEPT ![c].stage = "ended"]
    BY DEF PageInv, PageTypes, Edits!Finish, Landed
  <1>2. /\ userCalls' \in Seq(UserCall) /\ DOMAIN userCalls' = DOMAIN userCalls
        /\ \A t \in DOMAIN userCalls :
             /\ userCalls'[t].what = userCalls[t].what /\ userCalls'[t].ids = userCalls[t].ids
             /\ userCalls'[t].stage = IF t = c THEN "ended" ELSE userCalls[t].stage
    BY <1>1, StageSet
  <1>3. /\ \A t : Genuine(t) => Genuine(t)'
        /\ \A t, e : Marked(t, e) => Marked(t, e)'
    BY <1>1, <1>2, QuietStep DEF Landed
  <1>4. /\ marks' \in Listing /\ DOMAIN marks' \subseteq DOMAIN marks
        /\ \A e \in DOMAIN marks' : marks'[e] = marks[e]
    <2>1. CASE userCalls[c].what = "rsvp"
      BY <2>1 DEF Edits!Finish, PageInv, PageTypes
    <2>2. CASE userCalls[c].what # "rsvp"
      BY <2>2, UnmarkIs DEF Edits!Finish
    <2> QED BY <2>1, <2>2
  <1>5. UNCHANGED <<server, entries, lastList, editor, asksScope, reloads>>
    BY DEF Edits!Finish
  <1> QED BY <1>2, <1>3, <1>4, <1>5 DEF PageInv, PageTypes, GenuineList

----------------------------------------------------------------------------
(* Listings.  One that starts keeps what the last one found.                *)
LEMMA ListsKeep ==
    ASSUME PageInv, NEW c \in Nat, Edits!Lists(c)
    PROVE  /\ reloads' \subseteq ListingRun
           /\ \A l \in reloads' : /\ GenuineList(l.stale)
                                  /\ l.answer # <<>> => GenuineList(l.answer[1])
           /\ entries' \in {entries, lastList}
  <1> DEFINE l == [after |-> c, stale |-> lastList, answer |-> <<>>]
  <1>1. l \in ListingRun /\ l.stale = lastList /\ l.answer = <<>>
    BY DEF ListingRun, Optional, PageInv, PageTypes
  <1>2. reloads' \subseteq reloads \cup {l} /\ entries' \in {entries, lastList}
    BY DEF Edits!Lists
  <1> HIDE DEF l
  <1> QED BY <1>1, <1>2 DEF PageInv, PageTypes

(* A listing starts for a call, or for none.                                *)
LEMMA RelistKeeps ==
    ASSUME PageInv, NEW c \in Nat, NEW d \in {0} \cup DOMAIN userCalls, NEW stage \in {"listing", "missing"},
           Edits!Lists(c), userCalls' = Edits!Staged(d, stage),
           d \in DOMAIN userCalls => \/ stage = "listing" /\ userCalls[d].stage = "done"
                                     \/ stage = "missing" /\ userCalls[d].stage = "refused"
                                          /\ userCalls[d].what \notin {"edit", "form"},
           UNCHANGED <<server, lastList, marks, asksScope>>,
           editor' \in {editor, <<>>}
    PROVE  PageInv'
  <1>1. userCalls \in Seq(UserCall)
    BY DEF PageInv, PageTypes
  <1>2. /\ userCalls' \in Seq(UserCall) /\ DOMAIN userCalls' = DOMAIN userCalls
        /\ \A t \in DOMAIN userCalls :
             /\ userCalls'[t].what = userCalls[t].what /\ userCalls'[t].ids = userCalls[t].ids
             /\ userCalls'[t].stage \in IF t = d THEN {stage} ELSE {userCalls[t].stage, "listed"}
    BY <1>1, StagesSet
  <1>3. /\ \A t : Genuine(t) => Genuine(t)'
        /\ \A t, e : Marked(t, e) => Marked(t, e)'
    <2>1. ASSUME NEW t \in DOMAIN userCalls
          PROVE  /\ userCalls'[t].what = userCalls[t].what /\ userCalls'[t].ids = userCalls[t].ids
                 /\ userCalls[t].stage \in Landed => userCalls'[t].stage \in Landed
                 /\ userCalls[t].stage \in {"sent", "refused"} /\ userCalls[t].what \in {"edit", "form"} =>
                      userCalls'[t].stage \in Landed \cup {"sent", "refused"}
      BY <1>2 DEF Landed
    <2> QED BY <1>2, <2>1, QuietStep
  <1>4. /\ reloads' \subseteq ListingRun
        /\ \A l \in reloads' : /\ GenuineList(l.stale)
                               /\ l.answer # <<>> => GenuineList(l.answer[1])
        /\ entries' \in {entries, lastList}
    BY ListsKeep
  <1>5. PageTypes'
    BY <1>2, <1>4 DEF PageInv, PageTypes, Editors
  <1>6. /\ GenuineList(server)' /\ GenuineList(entries)' /\ GenuineList(lastList)'
    BY <1>3, <1>4 DEF PageInv, GenuineList
  <1>7. \A l \in reloads' : /\ GenuineList(l.stale)'
                            /\ l.answer # <<>> => GenuineList(l.answer[1])'
    BY <1>3, <1>4 DEF GenuineList
  <1>8. \A e \in DOMAIN marks' \ Recurring : Marked(marks[e].title, e)'
    BY <1>3 DEF PageInv
  <1> QED BY <1>5, <1>6, <1>7, <1>8 DEF PageInv

LEMMA RelistingKeeps ==
    ASSUME PageInv,
           \/ \E c \in DOMAIN userCalls : Edits!Missing(c) \/ Edits!Succeed(c)
           \/ Edits!Refresh
    PROVE  PageInv'
  <1>1. ASSUME NEW c \in DOMAIN userCalls, Edits!Missing(c)
        PROVE  PageInv'
    <2>1. /\ userCalls[c].stage = "refused" /\ userCalls[c].what \notin {"edit", "form"}
          /\ Edits!Lists(0) /\ userCalls' = Edits!Staged(c, "missing")
          /\ UNCHANGED <<server, lastList, marks, asksScope, editor>>
      BY <1>1 DEF Edits!Missing, Edits!Hides
    <2> QED BY <2>1, RelistKeeps
  <1>2. ASSUME NEW c \in DOMAIN userCalls, Edits!Succeed(c)
        PROVE  PageInv'
    <2>1. /\ userCalls[c].stage = "done" /\ c \in Nat
          /\ Edits!Lists(c) /\ userCalls' = Edits!Staged(c, "listing")
          /\ UNCHANGED <<server, lastList, marks, asksScope>> /\ editor' \in {editor, <<>>}
      BY <1>2 DEF Edits!Succeed, PageInv, PageTypes
    <2> QED BY <2>1, RelistKeeps
  <1>3. CASE Edits!Refresh
    <2>1. 0 \notin DOMAIN userCalls
      BY DEF PageInv, PageTypes
    <2> QED BY <1>3, <2>1, RelistKeeps DEF Edits!Refresh
  <1> QED BY <1>1, <1>2, <1>3

LEMMA PatchKeeps ==
    ASSUME PageInv, NEW c \in DOMAIN userCalls, Edits!Patch(c)
    PROVE  PageInv'
  <1>1. /\ userCalls \in Seq(UserCall) /\ userCalls[c].stage = "done" /\ c \in Nat
        /\ "ended" \in Landed \cup {"refused", "failed", "missing"}
        /\ userCalls' = [userCalls EXCEPT ![c].stage = "ended"]
    BY DEF PageInv, PageTypes, Edits!Patch, Landed
  <1>2. /\ userCalls' \in Seq(UserCall) /\ DOMAIN userCalls' = DOMAIN userCalls
        /\ \A t \in DOMAIN userCalls :
             /\ userCalls'[t].what = userCalls[t].what /\ userCalls'[t].ids = userCalls[t].ids
             /\ userCalls'[t].stage = IF t = c THEN "ended" ELSE userCalls[t].stage
    BY <1>1, StageSet
  <1>3. /\ \A t : Genuine(t) => Genuine(t)'
        /\ \A t, e : Marked(t, e) => Marked(t, e)'
    BY <1>1, <1>2, QuietStep DEF Landed
  <1>4. entries \in Listing /\ marks \in Listing
    BY DEF PageInv, PageTypes
  <1>5. /\ entries' \in Listing /\ DOMAIN entries' = DOMAIN entries
        /\ \A e \in DOMAIN entries' : entries'[e].title = entries[e].title
    <2> DEFINE new == [e \in userCalls[c].ids \cap DOMAIN entries |-> [entries[e] EXCEPT !.reply = c]]
    <2>1. /\ new \in Listing /\ DOMAIN new \subseteq DOMAIN entries
          /\ \A e \in DOMAIN new : new[e].title = entries[e].title
      <3>1. DOMAIN new \subseteq DOMAIN entries /\ DOMAIN new \in SUBSET OnPage
        BY <1>4, ListingParts
      <3>2. \A e \in DOMAIN new : new[e] \in EventValue /\ new[e].title = entries[e].title
        <4> TAKE e \in DOMAIN new
        <4>1. entries[e] \in EventValue /\ new[e] = [entries[e] EXCEPT !.reply = c]
          BY <1>4, <3>1, ListingParts
        <4> DEFINE v == entries[e]
        <4> HIDE DEF v, new
        <4>2. [v EXCEPT !.reply = c] \in EventValue /\ [v EXCEPT !.reply = c].title = v.title
          BY <1>1, <4>1 DEF EventValue, v
        <4> QED BY <4>1, <4>2 DEF v
      <3>3. new \in [DOMAIN new -> EventValue]
        BY <3>2
      <3> QED BY <3>1, <3>2, <3>3, ListingMade
    <2>2. entries' = Edits!Over(new, entries)
      BY DEF Edits!Patch
    <2> HIDE DEF new
    <2>3. /\ Edits!Over(new, entries) \in Listing
          /\ DOMAIN Edits!Over(new, entries) = DOMAIN new \cup DOMAIN entries
          /\ \A e \in DOMAIN Edits!Over(new, entries) :
               Edits!Over(new, entries)[e] = IF e \in DOMAIN new THEN new[e] ELSE entries[e]
      BY <1>4, <2>1, OverIs
    <2>4. /\ entries' \in Listing /\ DOMAIN entries' = DOMAIN new \cup DOMAIN entries
          /\ \A e \in DOMAIN entries' : entries'[e] = IF e \in DOMAIN new THEN new[e] ELSE entries[e]
      BY <2>2, <2>3, Zenon
    <2> QED BY <2>1, <2>4
  <1>6. /\ marks' \in Listing /\ DOMAIN marks' \subseteq DOMAIN marks
        /\ \A e \in DOMAIN marks' : marks'[e] = marks[e]
    <2> DEFINE left == Edits!Without(marks, userCalls[c].ids)
    <2>1. left \in Listing /\ DOMAIN left = DOMAIN marks \ userCalls[c].ids
          /\ \A e \in DOMAIN marks \ userCalls[c].ids : left[e] = marks[e]
      BY <1>4, WithoutIs
    <2>2. marks' = left
      BY DEF Edits!Patch
    <2> HIDE DEF left
    <2> QED BY <2>1, <2>2
  <1>7. UNCHANGED <<server, lastList, editor, asksScope, reloads>>
    BY DEF Edits!Patch
  <1> QED BY <1>2, <1>3, <1>5, <1>6, <1>7 DEF PageInv, PageTypes, GenuineList

LEMMA AnswerKeeps ==
    ASSUME PageInv, NEW l \in reloads, Edits!AnswerList(l)
    PROVE  PageInv'
  <1> DEFINE m == [l EXCEPT !.answer = <<server>>]
  <1>1. l \in ListingRun /\ GenuineList(l.stale) /\ server \in Listing /\ GenuineList(server)
    BY DEF PageInv, PageTypes
  <1>2. m \in ListingRun /\ m.stale = l.stale /\ m.answer = <<server>> /\ m.answer[1] = server
    BY <1>1 DEF ListingRun, Optional
  <1>3. reloads' = (reloads \ {l}) \cup {m}
    BY DEF Edits!AnswerList
  <1> HIDE DEF m
  <1>4. UNCHANGED <<server, entries, lastList, marks, editor, asksScope, userCalls>>
    BY DEF Edits!AnswerList
  <1>5. /\ reloads' \subseteq ListingRun
        /\ \A x \in reloads' : /\ GenuineList(x.stale)
                               /\ x.answer # <<>> => GenuineList(x.answer[1])
    BY <1>1, <1>2, <1>3 DEF PageInv, PageTypes
  <1>6. /\ \A t : Genuine(t) => Genuine(t)'
        /\ \A t, e : Marked(t, e) => Marked(t, e)'
    BY <1>4 DEF Genuine, Marked, Unreported
  <1> QED BY <1>4, <1>5, <1>6 DEF PageInv, PageTypes, GenuineList

(* A listing that ends shows what the server had, or what it found.         *)
LEMMA EndListKeeps ==
    ASSUME PageInv, NEW l \in reloads, Edits!EndList(l)
    PROVE  PageInv'
  <1>1. l \in ListingRun /\ userCalls \in Seq(UserCall) /\ lastList \in Listing /\ entries \in Listing
        /\ GenuineList(l.stale) /\ GenuineList(lastList) /\ GenuineList(entries)
        /\ (l.answer # <<>> => GenuineList(l.answer[1]))
    BY DEF PageInv, PageTypes
  <1>2. <<>> \in Listing /\ DOMAIN <<>> = {}
    <2>1. <<>> \in [{} -> EventValue]
      OBVIOUS
    <2> QED BY <2>1, ListingMade
  <1>3. l.stale \in Listing /\ (l.answer # <<>> => l.answer[1] \in Listing)
    <2>1. l.stale \in Listing /\ l.answer \in Optional(Listing)
      BY <1>1 DEF ListingRun
    <2> QED BY <2>1 DEF Optional
  <1>4. /\ entries' \in Listing /\ lastList' \in Listing
        /\ GenuineList(entries') /\ GenuineList(lastList')
    <2>1. CASE l.answer # <<>> /\ entries' = l.answer[1] /\ lastList' = entries'
      <3> DEFINE x == l.answer[1]
      <3>1. entries' = x /\ lastList' = x /\ x \in Listing /\ GenuineList(x)
        BY <1>1, <1>3, <2>1
      <3> HIDE DEF x
      <3> QED BY <3>1, Zenon
    <2>2. CASE /\ entries' = CASE kind = "google" -> <<>> [] kind = "nextcloud" -> l.stale [] OTHER -> entries
               /\ UNCHANGED lastList
      <3>1. entries' \in {<<>>, l.stale, entries}
        BY <2>2
      <3>2. GenuineList(<<>>)
        BY <1>2 DEF GenuineList
      <3> QED BY <1>1, <1>2, <1>3, <2>2, <3>1, <3>2, Zenon
    <2> QED BY <2>1, <2>2 DEF Edits!EndList
  <1>5. /\ userCalls' \in Seq(UserCall)
        /\ \A t : Genuine(t) => Genuine(t)'
        /\ \A t, e : Marked(t, e) => Marked(t, e)'
    <2>1. CASE l.after = 0
      <3>1. userCalls' = userCalls
        BY <2>1 DEF Edits!EndList
      <3> QED BY <1>1, <3>1 DEF Genuine, Marked, Unreported
    <2>2. CASE l.after # 0
      <3> DEFINE c == l.after
      <3>1. "listed" \in Landed \cup {"refused", "failed", "missing"}
            /\ userCalls' = [userCalls EXCEPT ![c].stage = "listed"]
        BY <2>2 DEF Edits!EndList, Landed
      <3> HIDE DEF c
      <3>2. /\ userCalls' \in Seq(UserCall) /\ DOMAIN userCalls' = DOMAIN userCalls
            /\ \A t \in DOMAIN userCalls :
                 /\ userCalls'[t].what = userCalls[t].what /\ userCalls'[t].ids = userCalls[t].ids
                 /\ userCalls'[t].stage = IF t = c THEN "listed" ELSE userCalls[t].stage
        BY <1>1, <3>1, StageSet
      <3> QED BY <3>2, QuietStep DEF Landed
    <2> QED BY <2>1, <2>2
  <1>6. reloads' \subseteq reloads /\ UNCHANGED <<server, marks, editor, asksScope>>
    BY DEF Edits!EndList
  <1>7. PageTypes'
    BY <1>4, <1>5, <1>6 DEF PageInv, PageTypes
  <1>8. /\ GenuineList(server)' /\ GenuineList(entries)' /\ GenuineList(lastList)'
    BY <1>4, <1>5, <1>6 DEF PageInv, GenuineList
  <1>9. \A x \in reloads' : /\ GenuineList(x.stale)'
                            /\ x.answer # <<>> => GenuineList(x.answer[1])'
    BY <1>5, <1>6 DEF PageInv, GenuineList
  <1>10. \A e \in DOMAIN marks' \ Recurring : Marked(marks[e].title, e)'
    BY <1>5, <1>6 DEF PageInv
  <1> QED BY <1>7, <1>8, <1>9, <1>10 DEF PageInv

LEMMA PageSteps ==
    ASSUME PageInv, [Edits!Next]_(Edits!vars)
    PROVE  PageInv'
  <1>1. CASE \E e \in Edits!Shown : Edits!StartEdit(e)
    BY <1>1, StartEditKeeps
  <1>2. CASE \E scope \in {"this", "all"} : Edits!SubmitForm(scope)
    BY <1>2, SubmitKeeps
  <1>3. CASE Edits!CloseForm
    BY <1>3, CloseKeeps
  <1>4. CASE Edits!Create
    BY <1>4, CreateKeeps
  <1>5. CASE Edits!Refresh
    BY <1>5, RelistingKeeps
  <1>6. CASE \E e \in Edits!Shown, what \in {"edit", "rsvp", "delete", "cancel"} : Edits!Act(what, e)
    BY <1>6, ActKeeps
  <1>7. CASE \E scope \in {"this", "all", "none"} : Edits!Choose(scope)
    BY <1>7, ChooseKeeps
  <1>8. ASSUME NEW c \in DOMAIN userCalls,
               \/ Edits!Serve(c) \/ Edits!Fail(c) \/ Edits!Missing(c) \/ Edits!Patch(c)
               \/ Edits!Succeed(c) \/ Edits!Finish(c)
        PROVE  PageInv'
    BY <1>8, ServeKeeps, FailKeeps, RelistingKeeps, PatchKeeps, FinishKeeps
  <1>9. CASE \E l \in reloads : Edits!AnswerList(l) \/ Edits!EndList(l)
    BY <1>9, AnswerKeeps, EndListKeeps
  <1>10. CASE UNCHANGED Edits!vars
    BY <1>10 DEF Edits!vars, PageInv, PageTypes, GenuineList, Genuine, Marked, Unreported
  <1> QED BY <1>1, <1>2, <1>3, <1>4, <1>5, <1>6, <1>7, <1>8, <1>9, <1>10 DEF Edits!Next

LEMMA RefusedLeaves ==
    ASSUME PageInv
    PROVE  Edits!FailedNotShown
  <1> SUFFICES ASSUME NEW e \in Edits!Shown \ Recurring, NEW c \in DOMAIN userCalls,
                      userCalls[c].stage = "failed", Edits!Screen[e].title = c
               PROVE  FALSE
    BY DEF Edits!FailedNotShown
  <1>1. Marked(c, e)
    BY ScreenIs
  <1>2. c # 0
    BY DEF PageInv, PageTypes
  <1> QED BY <1>1, <1>2 DEF Marked, Genuine, Unreported, Landed

\* An edit the server refused is not on the page once its failure was
\* reported, whatever ran over it, whatever was listed meanwhile and whatever
\* mark copied the values the page showed (useCalendarLogic.ts).
THEOREM RefusedEditsLeave == MCSpec => []FailedNotShown
  <1> DEFINE Inv == part = "edits" => PageInv
  <1>1. MCInit => Inv
    BY PartsStart, PageStarts
  <1>2. Inv /\ [MCNext]_allVars => Inv'
    BY PartStays, PartsStep, PageSteps
  <1>3. Inv => FailedNotShown
    BY RefusedLeaves DEF FailedNotShown
  <1> QED BY <1>1, <1>2, <1>3, PTL DEF MCSpec

----------------------------------------------------------------------------
(* NotificationOpening: a target is opened once, for any conversations and *)
(* turns.  The target retained is given after the tap that set it, so that *)
(* between a target and another one behind it there is a tap on the other. *)
Opens == {Opening!Target(c, "open") : c \in Conversations}
Note == [what : {"opened"}, url : Opens, release : BOOLEAN]
          \cup [what : {"active"}, url : {Opening!None}, release : BOOLEAN]
          \cup [what : {"consume"}, url : Opens \cup {Opening!None}, release : BOOLEAN]
NativeCall == [what : {"consume", "launch"}, release : BOOLEAN]

TapOf(m, u) == m.what = "opened" /\ m.url = u
TapsBetween(ms, r) ==
  /\ \A k \in DOMAIN ms, i \in DOMAIN ms :
       i < k /\ ms[k].url # Opening!None /\ ms[i].url \notin {Opening!None, ms[k].url} =>
         \E j \in DOMAIN ms : i < j /\ j <= k /\ TapOf(ms[j], ms[k].url)
  /\ r # Opening!None => \A i \in DOMAIN ms : ms[i].url \notin {Opening!None, r} =>
                           \E j \in DOMAIN ms : i < j /\ TapOf(ms[j], r)

(* What was opened comes again only while it is the active one, and before *)
(* any other.                                                              *)
Spent(ms, r, a, done) ==
  \A u \in done :
    /\ u # a => r # u /\ \A i \in DOMAIN ms : ms[i].url # u
    /\ u = a =>
         /\ \A k \in DOMAIN ms, i \in DOMAIN ms :
              i < k /\ ms[k].url = u => ms[i].url \in {u, Opening!None}
         /\ r = u => \A i \in DOMAIN ms : ms[i].url \in {u, Opening!None}

LEMMA NotesHaveUrls ==
    /\ Opening!None \notin Opens
    /\ \A m \in Note : /\ m.url \in Opens \cup {Opening!None}
                       /\ m.what = "opened" => m.url \in Opens
                       /\ m.what = "active" => m.url = Opening!None
                       /\ m.what \in {"opened", "active", "consume"}
  BY DEF Opens, Note, Opening!None, Opening!Target

LEMMA Appended ==
    ASSUME NEW ms \in Seq(Note), NEW m \in Note
    PROVE  /\ Append(ms, m) \in Seq(Note) /\ DOMAIN Append(ms, m) = 1..(Len(ms) + 1)
           /\ DOMAIN ms = 1..Len(ms) /\ Len(ms) \in Nat
           /\ \A i \in 1..Len(ms) : Append(ms, m)[i] = ms[i]
           /\ Append(ms, m)[Len(ms) + 1] = m
  OBVIOUS

LEMMA NothingTold ==
    ASSUME NEW ms \in Seq(Note), NEW m \in Note, m.url = Opening!None,
           NEW r, NEW a, NEW done, TapsBetween(ms, r), Spent(ms, r, a, done), Opening!None \notin done
    PROVE  TapsBetween(Append(ms, m), r) /\ Spent(Append(ms, m), r, a, done)
  <1> DEFINE n == Len(ms)  t == Append(ms, m)
  <1>1. /\ t \in Seq(Note) /\ DOMAIN t = 1..(n + 1) /\ DOMAIN ms = 1..n /\ n \in Nat
        /\ \A i \in 1..n : t[i] = ms[i]
        /\ t[n + 1] = m
    BY Appended
  <1> HIDE DEF n, t
  <1>2. TapsBetween(t, r)
    BY <1>1 DEF TapsBetween, TapOf
  <1>3. Spent(t, r, a, done)
    BY <1>1 DEF Spent
  <1> QED BY <1>2, <1>3 DEF t

LEMMA TapTold ==
    ASSUME NEW ms \in Seq(Note), NEW m \in Note, NEW u \in Opens, TapOf(m, u),
           NEW r, NEW a, NEW done, TapsBetween(ms, r), Spent(ms, r, a, done)
    PROVE  TapsBetween(Append(ms, m), u) /\ Spent(Append(ms, m), u, a, done \ {u})
  <1> DEFINE n == Len(ms)  t == Append(ms, m)
  <1>1. /\ t \in Seq(Note) /\ DOMAIN t = 1..(n + 1) /\ DOMAIN ms = 1..n /\ n \in Nat
        /\ \A i \in 1..n : t[i] = ms[i]
        /\ t[n + 1] = m
    BY Appended
  <1> HIDE DEF n, t
  <1>2. \A i \in DOMAIN t : i <= n + 1 /\ (i = n + 1 \/ i \in DOMAIN ms)
    BY <1>1
  <1>3. TapOf(t[n + 1], u) /\ n + 1 \in DOMAIN t
    BY <1>1
  <1>4. u # Opening!None
    BY NotesHaveUrls
  <1>5. TapsBetween(t, u)
    <2>1. ASSUME NEW k \in DOMAIN t, NEW i \in DOMAIN t, i < k, t[k].url # Opening!None,
                 t[i].url \notin {Opening!None, t[k].url}
          PROVE  \E j \in DOMAIN t : i < j /\ j <= k /\ TapOf(t[j], t[k].url)
      <3>1. CASE k = n + 1
        BY <1>3, <2>1, <3>1 DEF TapOf
      <3>2. CASE k # n + 1
        BY <1>1, <1>2, <2>1, <3>2 DEF TapsBetween
      <3> QED BY <3>1, <3>2
    <2>2. ASSUME NEW i \in DOMAIN t, t[i].url \notin {Opening!None, u}
          PROVE  \E j \in DOMAIN t : i < j /\ TapOf(t[j], u)
      <3>1. i # n + 1
        BY <1>3, <2>2 DEF TapOf
      <3> QED BY <1>1, <1>2, <1>3, <3>1
    <2> QED BY <2>1, <2>2 DEF TapsBetween
  <1>6. Spent(t, u, a, done \ {u})
    BY <1>1, <1>2, <1>3 DEF Spent, TapOf
  <1> QED BY <1>5, <1>6 DEF t

LEMMA RetainedTold ==
    ASSUME NEW ms \in Seq(Note), NEW m \in Note, NEW r, m.url = r,
           NEW a, NEW done, TapsBetween(ms, r), Spent(ms, r, a, done), Opening!None \notin done
    PROVE  /\ TapsBetween(Append(ms, m), Opening!None)
           /\ Spent(Append(ms, m), Opening!None, a, done)
  <1> DEFINE n == Len(ms)  t == Append(ms, m)
  <1>1. /\ t \in Seq(Note) /\ DOMAIN t = 1..(n + 1) /\ DOMAIN ms = 1..n /\ n \in Nat
        /\ \A i \in 1..n : t[i] = ms[i]
        /\ t[n + 1] = m
    BY Appended
  <1> HIDE DEF n, t
  <1>2. \A i \in DOMAIN t : i <= n + 1 /\ (i = n + 1 \/ i \in DOMAIN ms)
    BY <1>1
  <1>3. TapsBetween(t, Opening!None)
    <2>1. ASSUME NEW k \in DOMAIN t, NEW i \in DOMAIN t, i < k, t[k].url # Opening!None,
                 t[i].url \notin {Opening!None, t[k].url}
          PROVE  \E j \in DOMAIN t : i < j /\ j <= k /\ TapOf(t[j], t[k].url)
      <3>1. i \in DOMAIN ms /\ t[i] = ms[i]
        BY <1>1, <1>2, <2>1
      <3>2. CASE k = n + 1
        <4>1. PICK j \in DOMAIN ms : i < j /\ TapOf(ms[j], r)
          BY <1>1, <2>1, <3>1, <3>2 DEF TapsBetween
        <4> QED BY <1>1, <3>2, <4>1
      <3>3. CASE k # n + 1
        BY <1>1, <1>2, <2>1, <3>3 DEF TapsBetween
      <3> QED BY <3>2, <3>3
    <2> QED BY <2>1 DEF TapsBetween
  <1>4. Spent(t, Opening!None, a, done)
    BY <1>1, <1>2 DEF Spent
  <1> QED BY <1>3, <1>4 DEF t

LEMMA FirstGone ==
    ASSUME NEW ms \in Seq(Note), ms # <<>>
    PROVE  /\ Tail(ms) \in Seq(Note) /\ Head(ms) = ms[1] /\ 1 \in DOMAIN ms /\ Head(ms) \in Note
           /\ \A i \in DOMAIN Tail(ms) : /\ i \in Nat \ {0} /\ i + 1 \in DOMAIN ms
                                         /\ Tail(ms)[i] = ms[i + 1]
           /\ \A i \in DOMAIN ms : i \in Nat \ {0} /\ (i = 1 \/ i - 1 \in DOMAIN Tail(ms))
           /\ DOMAIN ms = 1..Len(ms) /\ Len(ms) \in Nat
  OBVIOUS

LEMMA FirstHandled ==
    ASSUME NEW ms \in Seq(Note), ms # <<>>, NEW r, NEW a, NEW done, TapsBetween(ms, r),
           Spent(ms, r, a, done)
    PROVE  TapsBetween(Tail(ms), r) /\ Spent(Tail(ms), r, a, done)
  <1> DEFINE t == Tail(ms)
  <1>1. /\ \A i \in DOMAIN t : i \in Nat \ {0} /\ i + 1 \in DOMAIN ms /\ t[i] = ms[i + 1]
        /\ \A i \in DOMAIN ms : i \in Nat \ {0} /\ (i = 1 \/ i - 1 \in DOMAIN t)
    BY FirstGone
  <1> HIDE DEF t
  <1>2. \A i \in DOMAIN t, j \in DOMAIN ms : i + 1 < j => j - 1 \in DOMAIN t /\ i < j - 1 /\ t[j - 1] = ms[j]
    BY <1>1
  <1>3. TapsBetween(t, r)
    <2>1. ASSUME NEW k \in DOMAIN t, NEW i \in DOMAIN t, i < k, t[k].url # Opening!None,
                 t[i].url \notin {Opening!None, t[k].url}
          PROVE  \E j \in DOMAIN t : i < j /\ j <= k /\ TapOf(t[j], t[k].url)
      <3>1. PICK j \in DOMAIN ms : i + 1 < j /\ j <= k + 1 /\ TapOf(ms[j], t[k].url)
        BY <1>1, <2>1 DEF TapsBetween
      <3>2. j \in Nat /\ j - 1 <= k
        BY <1>1, <3>1
      <3> QED BY <1>2, <3>1, <3>2
    <2>2. ASSUME r # Opening!None, NEW i \in DOMAIN t, t[i].url \notin {Opening!None, r}
          PROVE  \E j \in DOMAIN t : i < j /\ TapOf(t[j], r)
      <3>1. PICK j \in DOMAIN ms : i + 1 < j /\ TapOf(ms[j], r)
        BY <1>1, <2>2 DEF TapsBetween
      <3> QED BY <1>2, <3>1
    <2> QED BY <2>1, <2>2 DEF TapsBetween
  <1>4. Spent(t, r, a, done)
    BY <1>1 DEF Spent
  <1> QED BY <1>3, <1>4 DEF t

LEMMA FirstAccepted ==
    ASSUME NEW ms \in Seq(Note), ms # <<>>, NEW r, NEW a, NEW done, TapsBetween(ms, r),
           Spent(ms, r, a, done), Head(ms).url \in Opens, Head(ms).url # a,
           NEW opens, opens = done \/ /\ opens = done \cup {Head(ms).url}
                                      /\ \A i \in 2..Len(ms) : ~TapOf(ms[i], Head(ms).url)
    PROVE  Spent(Tail(ms), r, Head(ms).url, opens) /\ Head(ms).url \notin done
  <1> DEFINE t == Tail(ms)  v == Head(ms).url
  <1>1. /\ \A i \in DOMAIN t : i \in Nat \ {0} /\ i + 1 \in DOMAIN ms /\ t[i] = ms[i + 1]
        /\ v = ms[1].url /\ 1 \in DOMAIN ms /\ DOMAIN ms = 1..Len(ms) /\ Len(ms) \in Nat
    BY FirstGone
  <1>2. v # Opening!None /\ v # a
    BY NotesHaveUrls
  <1> HIDE DEF t, v
  <1>3. v \notin done
    BY <1>1, <1>2 DEF Spent
  <1>4. ASSUME NEW u \in done PROVE u # v /\ r # u /\ \A i \in DOMAIN t : t[i].url # u
    BY <1>1, <1>2, <1>3 DEF Spent
  <1>5. ASSUME v \in opens
        PROVE  /\ \A k \in DOMAIN t, i \in DOMAIN t :
                    i < k /\ t[k].url = v => t[i].url \in {v, Opening!None}
               /\ r = v => \A i \in DOMAIN t : t[i].url \in {v, Opening!None}
    <2>1. \A i \in DOMAIN t : ~TapOf(t[i], v)
      BY <1>1, <1>3, <1>5 DEF v
    <2>2. TapsBetween(t, r)
      BY FirstHandled DEF t
    <2> QED BY <1>2, <2>1, <2>2 DEF TapsBetween
  <1>6. Spent(t, r, v, opens)
    BY <1>4, <1>5 DEF Spent, v
  <1> QED BY <1>3, <1>6 DEF t, v

native == v1
asks == v3
messages == v4
front == v5
cover == v6
route == v9
opened == v11
USE DEF native, asks, messages, front, cover, route, opened

FirstTarget == Opening!Target(CHOOSE c \in Conversations : TRUE, "open")
Retainable == Opens \cup {FirstTarget, Opening!None}
NativeType == [loader : BOOLEAN, retained : Retainable, launch : Retainable, locked : BOOLEAN]
OpeningTypes ==
  /\ messages \in Seq(Note) /\ asks \in Seq(NativeCall) /\ opened \subseteq Opens
  /\ native.retained \in Opens \cup {Opening!None}
  /\ cover \in [of : Opens \cup {Opening!None}, frames : BOOLEAN, paint : BOOLEAN]
  /\ route \in [settings : BOOLEAN, effect : BOOLEAN]

(* A target is not retained forever: it is being asked for, or will be, and  *)
(* with a preview that has been asked for already.                         *)
ToBeAsked ==
  native.retained # Opening!None =>
    \/ \E i \in DOMAIN asks : asks[i].what = "consume"
    \/ \E i \in DOMAIN messages : messages[i].what = "active"
    \/ cover.of = Opening!None /\ (native.locked \/ route.effect)
Covered == native.locked => cover.of = Opening!None
OncePart == /\ OpeningTypes /\ ToBeAsked /\ Covered
            /\ TapsBetween(messages, native.retained)
            /\ Spent(messages, native.retained, front, opened)
OpensInv == native \in NativeType /\ (native.launch = Opening!None => OncePart)

LEMMA OpensStart == Opening!Init => OpensInv
  <1> SUFFICES ASSUME Opening!Init PROVE OpensInv
    OBVIOUS
  <1>1. PICK locked \in BOOLEAN, url \in {Opening!None, FirstTarget} :
          /\ native = [loader |-> url # Opening!None /\ ~locked, retained |-> url,
                       launch |-> url, locked |-> locked]
          /\ route = [settings |-> FALSE, effect |-> ~locked]
    BY DEF Opening!Init, FirstTarget
  <1>2. /\ asks = <<>> /\ messages = <<>> /\ opened = {}
        /\ cover = [of |-> Opening!None, frames |-> FALSE, paint |-> FALSE]
    BY DEF Opening!Init
  <1>3. native \in NativeType /\ native.retained = native.launch
    BY <1>1 DEF NativeType, Retainable
  <1>4. native.launch = Opening!None => OpeningTypes /\ ToBeAsked /\ Covered
    BY <1>1, <1>2, <1>3 DEF OpeningTypes, ToBeAsked, Covered
  <1>5. TapsBetween(messages, native.retained) /\ Spent(messages, native.retained, front, opened)
    BY <1>2 DEF TapsBetween, Spent
  <1> QED BY <1>3, <1>4, <1>5 DEF OpensInv, OncePart

(* Steps that leave what was sent, what is retained and what was opened.   *)
LEMMA CalmKeeps ==
    ASSUME OpensInv, native' \in NativeType, native'.launch = native.launch,
           native'.retained = native.retained, UNCHANGED <<messages, front, opened>>,
           native.launch = Opening!None =>
             /\ cover' \in [of : {cover.of, Opening!None}, frames : BOOLEAN, paint : BOOLEAN]
             /\ route' \in [settings : BOOLEAN, effect : BOOLEAN]
             /\ asks' \in Seq(NativeCall)
             /\ \A i \in DOMAIN asks : i \in DOMAIN asks' /\ asks'[i] = asks[i]
             /\ native.locked \/ route.effect =>
                  \/ native'.locked \/ route'.effect
                  \/ \E i \in DOMAIN asks' : asks'[i].what = "consume"
             /\ native'.locked => cover'.of = Opening!None
    PROVE  OpensInv' /\ Opening!NotReopened
  <1>1. Opening!NotReopened
    BY DEF Opening!NotReopened
  <1>2. CASE native.launch # Opening!None
    BY <1>1, <1>2 DEF OpensInv
  <1>3. CASE native.launch = Opening!None
    <2>1. OpeningTypes /\ ToBeAsked /\ Covered /\ TapsBetween(messages, native.retained)
          /\ Spent(messages, native.retained, front, opened)
      BY <1>3 DEF OpensInv, OncePart
    <2>2. OpeningTypes'
      BY <1>3, <2>1 DEF OpeningTypes
    <2>3. cover.of = Opening!None => cover'.of = Opening!None
      BY <1>3
    <2>4. ToBeAsked'
      BY <1>3, <2>1, <2>3 DEF ToBeAsked
    <2>5. Covered'
      BY <1>3 DEF Covered
    <2> QED BY <1>1, <2>1, <2>2, <2>4, <2>5 DEF OpensInv, OncePart
  <1> QED BY <1>2, <1>3

(* A record of native as its fields, for the steps that change some of them. *)
LEMMA NativeFields ==
    ASSUME native \in NativeType, NEW l \in BOOLEAN, NEW k \in BOOLEAN
    PROVE  /\ [native EXCEPT !.loader = l] \in NativeType
           /\ [native EXCEPT !.loader = l].retained = native.retained
           /\ [native EXCEPT !.loader = l].launch = native.launch
           /\ [native EXCEPT !.loader = l].locked = native.locked
           /\ [native EXCEPT !.locked = k] \in NativeType
           /\ [native EXCEPT !.locked = k].retained = native.retained
           /\ [native EXCEPT !.locked = k].launch = native.launch
           /\ [native EXCEPT !.locked = k].locked = k
           /\ native.loader \in BOOLEAN /\ native.locked \in BOOLEAN
  BY DEF NativeType

LEMMA CoverFields ==
    ASSUME NEW os, NEW c \in [of : os, frames : BOOLEAN, paint : BOOLEAN]
    PROVE  /\ Opening!NoCover(c) \in [of : {Opening!None}, frames : BOOLEAN, paint : BOOLEAN]
           /\ [c EXCEPT !.frames = FALSE, !.paint = FALSE]
                \in [of : {c.of}, frames : BOOLEAN, paint : BOOLEAN]
  BY DEF Opening!NoCover

LEMMA CalmSteps ==
    ASSUME OpensInv,
           \/ Opening!LoaderTimeout \/ Opening!Paint \/ Opening!SafetyTimeout
           \/ Opening!EnrichmentTimeout \/ Opening!Close \/ Opening!Select \/ Opening!BodyReady
           \/ Opening!Unavailable \/ (\E c \in Conversations : Opening!SelectOther(c))
           \/ UNCHANGED Opening!vars
    PROVE  OpensInv' /\ Opening!NotReopened
  <1>1. native \in NativeType
    BY DEF OpensInv
  <1>2. UNCHANGED <<asks, messages, front, route, opened>>
    BY DEF Opening!LoaderTimeout, Opening!Paint, Opening!SafetyTimeout, Opening!EnrichmentTimeout,
           Opening!Close, Opening!Select, Opening!BodyReady, Opening!Unavailable,
           Opening!SelectOther, Opening!vars
  <1>3. native' = native \/ native' = [native EXCEPT !.loader = FALSE]
    BY DEF Opening!LoaderTimeout, Opening!Paint, Opening!SafetyTimeout, Opening!EnrichmentTimeout,
           Opening!Close, Opening!Select, Opening!BodyReady, Opening!Unavailable,
           Opening!SelectOther, Opening!vars
  <1>4. \/ cover' = cover \/ cover' = Opening!NoCover(cover)
        \/ cover' = [cover EXCEPT !.frames = FALSE, !.paint = FALSE]
    BY DEF Opening!LoaderTimeout, Opening!Paint, Opening!SafetyTimeout, Opening!EnrichmentTimeout,
           Opening!Close, Opening!Select, Opening!BodyReady, Opening!Unavailable,
           Opening!SelectOther, Opening!vars
  <1>5. /\ native' \in NativeType /\ native'.launch = native.launch
        /\ native'.retained = native.retained /\ native'.locked = native.locked
    BY <1>1, <1>3, NativeFields
  <1>6. ASSUME native.launch = Opening!None
        PROVE  /\ cover' \in [of : {cover.of, Opening!None}, frames : BOOLEAN, paint : BOOLEAN]
               /\ route \in [settings : BOOLEAN, effect : BOOLEAN]
               /\ asks \in Seq(NativeCall)
               /\ native.locked => cover'.of = Opening!None
    <2>1. /\ cover \in [of : Opens \cup {Opening!None}, frames : BOOLEAN, paint : BOOLEAN]
          /\ route \in [settings : BOOLEAN, effect : BOOLEAN]
          /\ asks \in Seq(NativeCall)
          /\ native.locked => cover.of = Opening!None
      BY <1>6 DEF OpensInv, OncePart, OpeningTypes, Covered
    <2>2. /\ Opening!NoCover(cover) \in [of : {Opening!None}, frames : BOOLEAN, paint : BOOLEAN]
          /\ [cover EXCEPT !.frames = FALSE, !.paint = FALSE]
               \in [of : {cover.of}, frames : BOOLEAN, paint : BOOLEAN]
          /\ cover \in [of : {cover.of}, frames : BOOLEAN, paint : BOOLEAN]
      BY <2>1, CoverFields
    <2> QED BY <1>4, <2>1, <2>2
  <1> QED BY <1>2, <1>5, <1>6, CalmKeeps

LEMMA EffectKeeps ==
    ASSUME OpensInv, Opening!Effect
    PROVE  OpensInv' /\ Opening!NotReopened
  <1>1. /\ UNCHANGED <<native, messages, front, cover, opened>>
        /\ asks' = asks \o <<Opening!Consume(TRUE), Opening!Launch>>
        /\ route' = [route EXCEPT !.effect = FALSE]
    BY DEF Opening!Effect
  <1>2. native \in NativeType
    BY DEF OpensInv
  <1>3. ASSUME native.launch = Opening!None
        PROVE  /\ cover \in [of : {cover.of, Opening!None}, frames : BOOLEAN, paint : BOOLEAN]
               /\ route' \in [settings : BOOLEAN, effect : BOOLEAN]
               /\ asks' \in Seq(NativeCall)
               /\ \A i \in DOMAIN asks : i \in DOMAIN asks' /\ asks'[i] = asks[i]
               /\ \E i \in DOMAIN asks' : asks'[i].what = "consume"
               /\ native.locked => cover.of = Opening!None
    <2>1. /\ cover \in [of : Opens \cup {Opening!None}, frames : BOOLEAN, paint : BOOLEAN]
          /\ route \in [settings : BOOLEAN, effect : BOOLEAN]
          /\ asks \in Seq(NativeCall)
          /\ native.locked => cover.of = Opening!None
      BY <1>3 DEF OpensInv, OncePart, OpeningTypes, Covered
    <2>2. PICK a \in NativeCall, b \in NativeCall : a.what = "consume" /\ asks' = asks \o <<a, b>>
      BY <1>1 DEF NativeCall, Opening!Consume, Opening!Launch
    <2>3. /\ asks' \in Seq(NativeCall)
          /\ \A i \in DOMAIN asks : i \in DOMAIN asks' /\ asks'[i] = asks[i]
          /\ Len(asks) + 1 \in DOMAIN asks' /\ asks'[Len(asks) + 1] = a
      BY <2>1, <2>2
    <2> QED BY <1>1, <2>1, <2>2, <2>3
  <1> QED BY <1>1, <1>2, <1>3, CalmKeeps

LEMMA SettingsKeeps ==
    ASSUME OpensInv, Opening!Settings
    PROVE  OpensInv' /\ Opening!NotReopened
  <1>1. /\ UNCHANGED <<native, asks, messages, front, cover, opened>>
        /\ route' = [settings |-> ~route.settings, effect |-> TRUE]
    BY DEF Opening!Settings
  <1>2. native \in NativeType
    BY DEF OpensInv
  <1>3. ASSUME native.launch = Opening!None
        PROVE  /\ cover \in [of : {cover.of, Opening!None}, frames : BOOLEAN, paint : BOOLEAN]
               /\ route' \in [settings : BOOLEAN, effect : BOOLEAN]
               /\ asks \in Seq(NativeCall)
               /\ native.locked => cover.of = Opening!None
    BY <1>1, <1>3 DEF OpensInv, OncePart, OpeningTypes, Covered
  <1>4. route'.effect
    BY <1>1
  <1> QED BY <1>1, <1>2, <1>3, <1>4, CalmKeeps

LEMMA UnlockKeeps ==
    ASSUME OpensInv, Opening!Unlock
    PROVE  OpensInv' /\ Opening!NotReopened
  <1>1. /\ UNCHANGED <<asks, messages, front, cover, opened>>
        /\ native' = [native EXCEPT !.locked = FALSE]
        /\ route' = [route EXCEPT !.effect = TRUE]
    BY DEF Opening!Unlock
  <1>2. native \in NativeType
    BY DEF OpensInv
  <1>3. /\ native' \in NativeType /\ native'.launch = native.launch
        /\ native'.retained = native.retained /\ native'.locked = FALSE
    BY <1>1, <1>2, NativeFields
  <1>4. ASSUME native.launch = Opening!None
        PROVE  /\ cover \in [of : {cover.of, Opening!None}, frames : BOOLEAN, paint : BOOLEAN]
               /\ route' \in [settings : BOOLEAN, effect : BOOLEAN] /\ route'.effect
               /\ asks \in Seq(NativeCall)
    BY <1>1, <1>4 DEF OpensInv, OncePart, OpeningTypes
  <1> QED BY <1>1, <1>3, <1>4, CalmKeeps

(* The app is left: what was opened may be opened again.                   *)
LEMMA LeaveKeeps ==
    ASSUME OpensInv, Opening!Leave \/ Opening!Lock
    PROVE  OpensInv' /\ Opening!NotReopened
  <1>1. native \in NativeType
    BY DEF OpensInv
  <1>2. opened' = {} /\ UNCHANGED <<asks, messages>> /\ front' = Opening!None
    BY DEF Opening!Leave, Opening!Lock
  <1>3. Opening!NotReopened /\ Spent(messages', native'.retained, front', opened')
    <2>1. ASSUME native.launch = Opening!None PROVE opened \subseteq Opens
      BY <2>1 DEF OpensInv, OncePart, OpeningTypes
    <2> QED BY <1>2, <2>1, NotesHaveUrls DEF Opening!NotReopened, Spent
  <1>4. CASE Opening!Leave
    <2>1. UNCHANGED <<native, cover, route>>
      BY <1>4 DEF Opening!Leave
    <2> QED BY <1>1, <1>2, <1>3, <2>1
            DEF OpensInv, OncePart, OpeningTypes, ToBeAsked, Covered
  <1>5. CASE Opening!Lock
    <2>1. /\ native' = [native EXCEPT !.locked = TRUE, !.loader = FALSE]
          /\ cover' = [Opening!NoCover(cover) EXCEPT !.paint = FALSE]
          /\ route' = [settings |-> FALSE, effect |-> FALSE]
      BY <1>5 DEF Opening!Lock
    <2>2. /\ native' \in NativeType /\ native'.launch = native.launch
          /\ native'.retained = native.retained /\ native'.locked
      BY <1>1, <2>1 DEF NativeType
    <2>3. ASSUME native.launch = Opening!None
          PROVE  cover' \in [of : {Opening!None}, frames : BOOLEAN, paint : BOOLEAN]
      <3>1. Opening!NoCover(cover) \in [of : {Opening!None}, frames : BOOLEAN, paint : BOOLEAN]
        BY <2>3, CoverFields DEF OpensInv, OncePart, OpeningTypes
      <3> QED BY <2>1, <3>1
    <2>4. route' \in [settings : BOOLEAN, effect : BOOLEAN]
      BY <2>1
    <2> QED BY <1>1, <1>2, <1>3, <2>2, <2>3, <2>4
            DEF OpensInv, OncePart, OpeningTypes, ToBeAsked, Covered
  <1> QED BY <1>4, <1>5

LEMMA ActiveNote ==
  /\ Opening!Message("active", Opening!None, FALSE) \in Note
  /\ Opening!Message("active", Opening!None, FALSE).what = "active"
  /\ Opening!Message("active", Opening!None, FALSE).url = Opening!None
  BY DEF Note, Opening!Message

LEMMA ResumeKeeps ==
    ASSUME OpensInv, Opening!Resume
    PROVE  OpensInv' /\ Opening!NotReopened
  <1> DEFINE a == Opening!Message("active", Opening!None, FALSE)
  <1>1. /\ UNCHANGED <<native, asks, front, cover, route, opened>>
        /\ messages' = messages \/ messages' = Append(messages, a)
    BY DEF Opening!Resume
  <1>2. Opening!NotReopened
    BY <1>1 DEF Opening!NotReopened
  <1>3. a \in Note /\ a.url = Opening!None
    BY ActiveNote
  <1> HIDE DEF a
  <1>4. ASSUME native.launch = Opening!None PROVE OncePart'
    <2>1. /\ OpeningTypes /\ ToBeAsked /\ Covered /\ TapsBetween(messages, native.retained)
          /\ Spent(messages, native.retained, front, opened)
      BY <1>4 DEF OpensInv, OncePart
    <2>2. Opening!None \notin opened /\ messages \in Seq(Note)
      BY <2>1, NotesHaveUrls DEF OpeningTypes
    <2>3. /\ messages' \in Seq(Note)
          /\ \A i \in DOMAIN messages : i \in DOMAIN messages' /\ messages'[i] = messages[i]
      BY <1>1, <1>3, <2>2
    <2>4. TapsBetween(messages', native.retained) /\ Spent(messages', native.retained, front, opened)
      BY <1>1, <1>3, <2>1, <2>2, NothingTold
    <2>5. OpeningTypes' /\ ToBeAsked' /\ Covered'
      BY <1>1, <2>1, <2>3 DEF OpeningTypes, ToBeAsked, Covered
    <2> QED BY <1>1, <2>4, <2>5 DEF OncePart
  <1> QED BY <1>1, <1>2, <1>4 DEF OpensInv

LEMMA BothAppended ==
    ASSUME NEW ms \in Seq(Note), NEW m \in Note, NEW a \in Note
    PROVE  /\ Append(ms, m) \in Seq(Note)
           /\ ms \o <<m>> \o <<>> = Append(ms, m)
           /\ ms \o <<m>> \o <<a>> = Append(Append(ms, m), a)
  <1>1. Append(ms, m) \in Seq(Note) /\ ms \o <<m>> = Append(ms, m)
    OBVIOUS
  <1>2. \A s \in Seq(Note) : s \o <<>> = s /\ s \o <<a>> = Append(s, a)
    OBVIOUS
  <1> QED BY <1>1, <1>2

LEMMA TapKeeps ==
    ASSUME OpensInv, NEW c \in Conversations, Opening!Tap(Opening!Target(c, "open"))
    PROVE  OpensInv' /\ Opening!NotReopened
  <1> DEFINE u == Opening!Target(c, "open")
             m == Opening!Message("opened", u, FALSE)
             a == Opening!Message("active", Opening!None, FALSE)
  <1>1. /\ UNCHANGED <<asks, front, cover, route>> /\ opened' = opened \ {u}
        /\ native' = [native EXCEPT !.loader = ~native.locked, !.retained = u]
        /\ messages' = messages \o <<m>> \o (IF native.locked THEN <<>> ELSE <<a>>)
    BY DEF Opening!Tap
  <1>2. Opening!NotReopened
    BY <1>1 DEF Opening!NotReopened
  <1>3. u \in Opens
    BY DEF Opens
  <1> HIDE DEF u
  <1>4. m \in Note /\ TapOf(m, u) /\ a \in Note /\ a.url = Opening!None /\ a.what = "active"
    BY <1>3, ActiveNote DEF Note, TapOf, Opening!Message
  <1> HIDE DEF m, a
  <1>5. /\ native' \in NativeType /\ native'.launch = native.launch
        /\ native'.retained = u /\ native'.locked = native.locked
    <2>1. native \in NativeType /\ u \in Retainable
      BY <1>3 DEF OpensInv, Retainable
    <2> QED BY <1>1, <2>1 DEF NativeType
  <1>6. ASSUME native.launch = Opening!None PROVE OncePart'
    <2>1. /\ OpeningTypes /\ ToBeAsked /\ Covered /\ TapsBetween(messages, native.retained)
          /\ Spent(messages, native.retained, front, opened)
      BY <1>6 DEF OpensInv, OncePart
    <2>2. Opening!None \notin opened' /\ messages \in Seq(Note) /\ native.locked \in BOOLEAN
      BY <1>1, <2>1, NotesHaveUrls DEF OpeningTypes, OpensInv, NativeType
    <2>3. PICK tapped \in Seq(Note) : tapped = Append(messages, m)
      BY <1>4, <2>2, BothAppended
    <2>4. TapsBetween(tapped, u) /\ Spent(tapped, u, front, opened')
      BY <1>1, <1>3, <1>4, <2>1, <2>2, <2>3, TapTold
    <2>5. TapsBetween(Append(tapped, a), u) /\ Spent(Append(tapped, a), u, front, opened')
      BY <1>4, <2>2, <2>4, NothingTold
    <2>6. CASE native.locked
      <3>1. messages' = tapped
        BY <1>1, <1>4, <2>2, <2>3, <2>6, BothAppended
      <3>2. cover.of = Opening!None
        BY <2>1, <2>6 DEF Covered
      <3>3. OpeningTypes' /\ ToBeAsked' /\ Covered'
        BY <1>1, <1>3, <1>5, <2>1, <2>6, <3>1, <3>2 DEF OpeningTypes, ToBeAsked, Covered
      <3> QED BY <1>1, <1>5, <2>4, <3>1, <3>3 DEF OncePart
    <2>7. CASE ~native.locked
      <3>1. messages' = Append(tapped, a)
        BY <1>1, <1>4, <2>2, <2>3, <2>7, BothAppended
      <3>2. /\ messages' \in Seq(Note) /\ Len(tapped) + 1 \in DOMAIN messages'
            /\ messages'[Len(tapped) + 1].what = "active"
        BY <1>4, <3>1
      <3>3. OpeningTypes' /\ ToBeAsked' /\ Covered'
        BY <1>1, <1>3, <1>5, <2>1, <2>7, <3>2 DEF OpeningTypes, ToBeAsked, Covered
      <3> QED BY <1>1, <1>5, <2>5, <3>1, <3>3 DEF OncePart
    <2> QED BY <2>6, <2>7
  <1> QED BY <1>2, <1>5, <1>6 DEF OpensInv

LEMMA FirstAnswered ==
    ASSUME NEW cs \in Seq(NativeCall), cs # <<>>
    PROVE  /\ Tail(cs) \in Seq(NativeCall) /\ Head(cs) = cs[1] /\ Head(cs) \in NativeCall
           /\ \A i \in DOMAIN cs : i = 1 \/ (i - 1 \in DOMAIN Tail(cs) /\ Tail(cs)[i - 1] = cs[i])
  OBVIOUS

(* The target retained is given: it leaves the native side with the message. *)
LEMMA TargetGiven ==
    ASSUME OpensInv, Opening!Answer
    PROVE  OpensInv' /\ Opening!NotReopened
  <1> DEFINE consumes == Head(asks).what = "consume"
             url == IF consumes THEN native.retained ELSE native.launch
             m == Opening!Message(Head(asks).what, url, Head(asks).release)
  <1>1. /\ UNCHANGED <<front, cover, route, opened>> /\ asks # <<>> /\ asks' = Tail(asks)
        /\ native' = IF consumes THEN Opening!Consumed(native) ELSE native
        /\ messages' = IF consumes \/ url # Opening!None THEN Append(messages, m) ELSE messages
    BY DEF Opening!Answer
  <1>2. Opening!NotReopened
    BY <1>1 DEF Opening!NotReopened
  <1>3. /\ native' \in NativeType /\ native'.launch = native.launch
        /\ native'.locked = native.locked
        /\ native'.retained = IF consumes THEN Opening!None ELSE native.retained
    <2>1. native \in NativeType /\ Opening!None \in Retainable
      BY DEF OpensInv, Retainable
    <2>2. Opening!Consumed(native) = [native EXCEPT !.retained = Opening!None]
      BY DEF Opening!Consumed
    <2> QED BY <1>1, <2>1, <2>2 DEF NativeType
  <1>4. ASSUME native.launch = Opening!None PROVE OncePart'
    <2>1. /\ OpeningTypes /\ ToBeAsked /\ Covered /\ TapsBetween(messages, native.retained)
          /\ Spent(messages, native.retained, front, opened)
      BY <1>4 DEF OpensInv, OncePart
    <2>2. /\ Opening!None \notin opened /\ messages \in Seq(Note) /\ asks \in Seq(NativeCall)
          /\ native.retained \in Opens \cup {Opening!None}
      BY <2>1, NotesHaveUrls DEF OpeningTypes
    <2>3. /\ asks' \in Seq(NativeCall) /\ Head(asks) = asks[1] /\ Head(asks) \in NativeCall
          /\ \A i \in DOMAIN asks : i = 1 \/ (i - 1 \in DOMAIN asks' /\ asks'[i - 1] = asks[i])
      BY <1>1, <2>2, FirstAnswered
    <2>4. CASE consumes
      <3>1. m \in Note /\ m.url = native.retained /\ messages' = Append(messages, m)
        BY <1>1, <2>2, <2>3, <2>4 DEF Note, NativeCall, Opening!Message
      <3> HIDE DEF m
      <3>2. TapsBetween(messages', Opening!None) /\ Spent(messages', Opening!None, front, opened)
        BY <2>1, <2>2, <3>1, RetainedTold
      <3>3. messages' \in Seq(Note)
        BY <2>2, <3>1, Appended
      <3>4. OpeningTypes' /\ ToBeAsked' /\ Covered'
        BY <1>1, <1>3, <2>1, <2>3, <2>4, <3>3 DEF OpeningTypes, ToBeAsked, Covered
      <3> QED BY <1>1, <1>3, <2>4, <3>2, <3>4 DEF OncePart
    <2>5. CASE ~consumes
      <3>1. UNCHANGED <<native, messages>>
        BY <1>1, <1>4, <2>5
      <3>2. OpeningTypes' /\ ToBeAsked' /\ Covered'
        BY <1>1, <2>1, <2>3, <2>5, <3>1 DEF OpeningTypes, ToBeAsked, Covered
      <3> QED BY <1>1, <2>1, <3>1, <3>2 DEF OncePart
    <2> QED BY <2>4, <2>5
  <1>5. OpensInv'
    <2> HIDE DEF consumes, url, m
    <2> QED BY <1>3, <1>4 DEF OpensInv
  <1> QED BY <1>2, <1>5

(* The user deletes from the preview, with nothing on its way any more: no *)
(* target is retained, or it would be asked for.                           *)
LEMMA DeleteKeeps ==
    ASSUME OpensInv, Opening!DeleteFromSkeleton
    PROVE  OpensInv' /\ Opening!NotReopened
  <1>1. /\ UNCHANGED <<native, asks, messages, route, opened>> /\ messages = <<>> /\ asks = <<>>
        /\ cover.of # Opening!None /\ front' = Opening!Target(cover.of.of, "delete")
        /\ cover' = [Opening!NoCover(cover) EXCEPT !.paint = TRUE]
    BY DEF Opening!DeleteFromSkeleton, Opening!Arrived
  <1>2. front' \notin Opens
    BY <1>1 DEF Opens, Opening!Target
  <1>3. ASSUME native.launch = Opening!None PROVE OncePart' /\ opened' \subseteq Opens
    <2>1. OpeningTypes /\ ToBeAsked /\ Covered
      BY <1>3 DEF OpensInv, OncePart
    <2>2. native.retained = Opening!None
      BY <1>1, <2>1 DEF ToBeAsked
    <2>3. cover' \in [of : {Opening!None}, frames : BOOLEAN, paint : BOOLEAN]
      <3>1. Opening!NoCover(cover) \in [of : {Opening!None}, frames : BOOLEAN, paint : BOOLEAN]
        BY <2>1, CoverFields DEF OpeningTypes
      <3> QED BY <1>1, <3>1
    <2>4. OpeningTypes' /\ ToBeAsked' /\ Covered'
      BY <1>1, <2>1, <2>2, <2>3 DEF OpeningTypes, ToBeAsked, Covered
    <2>5. TapsBetween(messages', native'.retained) /\ Spent(messages', native'.retained, front', opened')
      BY <1>1, <2>1, <2>2, NotesHaveUrls DEF TapsBetween, Spent, OpeningTypes
    <2> QED BY <1>1, <2>1, <2>4, <2>5 DEF OncePart, OpeningTypes
  <1>4. Opening!NotReopened
    BY <1>1, <1>2, <1>3 DEF Opening!NotReopened
  <1> QED BY <1>1, <1>3, <1>4 DEF OpensInv

LEMMA ConsumeAsked ==
    ASSUME NEW cs \in Seq(NativeCall)
    PROVE  /\ Append(cs, Opening!Consume(FALSE)) \in Seq(NativeCall)
           /\ \E i \in DOMAIN Append(cs, Opening!Consume(FALSE)) :
                Append(cs, Opening!Consume(FALSE))[i].what = "consume"
  <1>1. Opening!Consume(FALSE) \in NativeCall /\ Opening!Consume(FALSE).what = "consume"
    BY DEF NativeCall, Opening!Consume
  <1>2. \A c \in NativeCall :
          /\ Append(cs, c) \in Seq(NativeCall) /\ Len(cs) + 1 \in DOMAIN Append(cs, c)
          /\ Append(cs, c)[Len(cs) + 1] = c
    OBVIOUS
  <1> QED BY <1>1, <1>2

LEMMA HandleKeeps ==
    ASSUME OpensInv, Opening!Handle
    PROVE  OpensInv' /\ Opening!NotReopened
  <1> DEFINE m == Head(messages)
  <1>1. /\ messages # <<>> /\ ~native.locked /\ ~route.effect /\ messages' = Tail(messages)
        /\ \/ /\ m.what = "active" /\ asks' = Append(asks, Opening!Consume(FALSE))
              /\ UNCHANGED <<native, front, cover, route, opened>>
           \/ m.what # "active" /\ m.url = Opening!None /\ UNCHANGED asks /\ Opening!Nothing(m.release)
           \/ m.what # "active" /\ m.url # Opening!None /\ UNCHANGED asks /\ Opening!OpenDeepLink(m.url)
    BY DEF Opening!Handle
  <1>2. native' = native \/ native' = [native EXCEPT !.loader = FALSE]
    BY <1>1 DEF Opening!Nothing, Opening!OpenDeepLink, Opening!Duplicate
  <1>3. /\ native \in NativeType /\ native' \in NativeType /\ native'.launch = native.launch
        /\ native'.retained = native.retained /\ native'.locked = native.locked
    BY <1>2, NativeFields DEF OpensInv
  <1>4. SUFFICES ASSUME native.launch = Opening!None PROVE OncePart' /\ Opening!NotReopened
    BY <1>3, <1>4 DEF OpensInv, Opening!NotReopened
  <1>5. /\ OpeningTypes /\ ToBeAsked /\ Covered /\ TapsBetween(messages, native.retained)
        /\ Spent(messages, native.retained, front, opened)
    BY <1>4 DEF OpensInv, OncePart
  <1>6. /\ messages \in Seq(Note) /\ asks \in Seq(NativeCall) /\ opened \subseteq Opens
        /\ cover \in [of : Opens \cup {Opening!None}, frames : BOOLEAN, paint : BOOLEAN]
        /\ route \in [settings : BOOLEAN, effect : BOOLEAN]
        /\ native.retained \in Opens \cup {Opening!None}
    BY <1>5 DEF OpeningTypes
  <1>7. /\ messages' \in Seq(Note) /\ m = messages[1] /\ m \in Note
        /\ \A i \in DOMAIN messages' : /\ i \in Nat \ {0} /\ i + 1 \in DOMAIN messages
                                       /\ messages'[i] = messages[i + 1]
        /\ \A i \in DOMAIN messages : i \in Nat \ {0} /\ (i = 1 \/ i - 1 \in DOMAIN messages')
    BY <1>1, <1>6, FirstGone
  <1>8. TapsBetween(messages', native'.retained) /\ Spent(messages', native'.retained, front, opened)
    BY <1>1, <1>3, <1>5, <1>6, FirstHandled
  <1>9. asks' \in Seq(NativeCall)
    BY <1>1, <1>6, ConsumeAsked
  <1>10. ToBeAsked'
    <2>1. CASE m.what = "active"
      BY <1>1, <1>6, <2>1, ConsumeAsked DEF ToBeAsked
    <2>2. CASE m.what # "active"
      <3> HIDE DEF m
      <3>1. \A i \in DOMAIN messages : messages[i].what = "active" =>
              i - 1 \in DOMAIN messages' /\ messages'[i - 1].what = "active"
        BY <1>7, <2>2
      <3> QED BY <1>1, <1>3, <1>5, <2>2, <3>1 DEF ToBeAsked
    <2> QED BY <2>1, <2>2
  <1>11. CASE UNCHANGED <<front, cover, route, opened>>
    <2>1. OpeningTypes' /\ Covered'
      BY <1>3, <1>5, <1>6, <1>7, <1>9, <1>11 DEF OpeningTypes, Covered
    <2>2. Opening!NotReopened
      BY <1>11 DEF Opening!NotReopened
    <2> QED BY <1>8, <1>10, <1>11, <2>1, <2>2 DEF OncePart
  <1>12. CASE m.url # Opening!None /\ front # m.url /\ Opening!Accept(m.url)
    <2>1. /\ front' = m.url /\ cover' = [of |-> m.url, frames |-> cover.of # m.url \/ cover.frames,
                                         paint |-> TRUE]
          /\ route' = [settings |-> FALSE, effect |-> route.effect \/ route.settings]
          /\ opened' = IF Opening!TappedSince(m.url) THEN opened ELSE opened \cup {m.url}
      BY <1>12 DEF Opening!Accept
    <2>2. m.url \in Opens
      BY <1>7, <1>12, NotesHaveUrls
    <2>3. opened' = opened \/ /\ opened' = opened \cup {Head(messages).url}
                              /\ \A i \in 2..Len(messages) : ~TapOf(messages[i], Head(messages).url)
      BY <2>1 DEF Opening!TappedSince, TapOf
    <2>4. Spent(messages', native'.retained, front', opened') /\ m.url \notin opened
      BY <1>1, <1>3, <1>5, <1>6, <1>12, <2>1, <2>2, <2>3, FirstAccepted
    <2> HIDE DEF m
    <2>5. OpeningTypes'
      BY <1>3, <1>6, <1>7, <1>9, <2>1, <2>2, <2>3 DEF OpeningTypes, m
    <2>6. Covered'
      BY <1>1, <1>3 DEF Covered
    <2>7. Opening!NotReopened
      BY <2>1, <2>4 DEF Opening!NotReopened
    <2> QED BY <1>8, <1>10, <2>4, <2>5, <2>6, <2>7 DEF OncePart
  <1> QED BY <1>1, <1>11, <1>12 DEF Opening!Nothing, Opening!OpenDeepLink

LEMMA OpensStep ==
    ASSUME OpensInv, [Opening!Next]_(Opening!vars)
    PROVE  OpensInv' /\ Opening!NotReopened
  <1>1. CASE Opening!LoaderTimeout \/ Opening!Paint \/ Opening!SafetyTimeout
          \/ Opening!EnrichmentTimeout \/ Opening!Close \/ Opening!Select \/ Opening!BodyReady
          \/ Opening!Unavailable \/ (\E c \in Conversations : Opening!SelectOther(c))
          \/ UNCHANGED Opening!vars
    BY <1>1, CalmSteps
  <1>2. CASE Opening!Effect
    BY <1>2, EffectKeeps
  <1>3. CASE Opening!Settings
    BY <1>3, SettingsKeeps
  <1>4. CASE Opening!Unlock
    BY <1>4, UnlockKeeps
  <1>5. CASE Opening!Leave \/ Opening!Lock
    BY <1>5, LeaveKeeps
  <1>6. CASE Opening!Resume
    BY <1>6, ResumeKeeps
  <1>7. CASE \E c \in Conversations : Opening!Tap(Opening!Target(c, "open"))
    BY <1>7, TapKeeps
  <1>8. CASE Opening!Answer
    BY <1>8, TargetGiven
  <1>9. CASE Opening!DeleteFromSkeleton
    BY <1>9, DeleteKeeps
  <1>10. CASE Opening!Handle
    BY <1>10, HandleKeeps
  <1> QED BY <1>1, <1>2, <1>3, <1>4, <1>5, <1>6, <1>7, <1>8, <1>9, <1>10, Zenon DEF Opening!Next

(* A target a notification named is opened once until it is tapped again or  *)
(* the app is left, whichever of the ways to NativeDeepLinks brings it, and *)
(* however often (NativeDeepLinks.tsx, MainActivity.kt).                   *)
THEOREM NotificationOpensOnce == MCSpec => OpensOnce
  <1> DEFINE Inv == part = "opening" => OpensInv
  <1>1. MCInit => Inv
    BY PartsStart, OpensStart
  <1>2. Inv /\ [MCNext]_allVars => Inv'
    BY PartStays, PartsStep, OpensStep
  <1>3. Inv /\ [MCNext]_allVars => (part = "opening" => Opening!NotReopened)
    BY PartsStep, OpensStep
  <1> QED BY <1>1, <1>2, <1>3, PTL DEF MCSpec, OpensOnce
=============================================================================
