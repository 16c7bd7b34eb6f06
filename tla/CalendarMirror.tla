--------------------------- MODULE CalendarMirror ---------------------------
(***************************************************************************)
(* The copies of the selected calendars kept in Android's calendar storage *)
(* (frontend/src/features/calendar/store/AndroidCalendarProvider.tsx, the  *)
(* event hooks and the cache it reads, and CalendarMirror.kt).  A run of a *)
(* hook shows its cache and then reads the sources; every change of what   *)
(* is selected or loaded is published to the device, one publication after *)
(* the other, in batches.                                                  *)
(***************************************************************************)
EXTENDS Naturals, Sequences, FiniteSets

CONSTANTS Cals,        \* calendars
          Kept,        \* events every source always has
          Passing,     \* events a source may have
          Batch,       \* rows written or removed by one transaction
          MaxRuns,     \* runs of the hook
          MaxRestarts  \* restarts of the app

VARIABLES source,   \* the events of each source
          cache,    \* what the event cache holds of each: <<>>, or a set
          selected, \* the calendars to copy
          loaded,   \* snapshots: <<>>, or a set, for each
          errors,   \* calendars whose last read failed
          runs,     \* runs under way
          last,     \* the payload last sent
          again,    \* a refresh ended: it is to be sent again
          queue,    \* publications waiting
          job,      \* the one under way: <<>>, or what is left of it
          device,   \* the rows of each calendar of the device: <<>>, or a set
          started, restarts

app == <<source, cache, selected>>
memory == <<loaded, errors, runs, again>>
counts == <<started, restarts>>
vars == <<app, memory, last, queue, job, device, counts>>

Never == [c \in Cals |-> <<>>]
Init == /\ source \in [Cals -> {Kept \cup P : P \in SUBSET Passing}] /\ cache = Never
        /\ selected = {} /\ loaded = Never /\ errors = {} /\ runs = {} /\ again = FALSE
        /\ last = Never /\ queue = <<>> /\ job = <<>> /\ device = Never
        /\ started = 0 /\ restarts = 0
-----------------------------------------------------------------------------
SourceChanges(c, e) == /\ source' = [source EXCEPT ![c] = IF e \in @ THEN @ \ {e} ELSE @ \cup {e}]
                       /\ UNCHANGED <<cache, selected, memory, last, queue, job, device, counts>>

\* A run of the hook, on start, on a refresh, every half hour and when the
\* app comes back: the cache is loaded, then the sources are read.
Run(chosen) ==
  /\ started < MaxRuns /\ started' = started + 1
  /\ loaded' = [c \in Cals |-> IF cache[c] # <<>> THEN cache[c] ELSE loaded[c]]
  /\ runs' = IF chosen = {} THEN runs
             ELSE runs \cup {[n |-> started + 1, todo |-> chosen, read |-> Never, failed |-> {}]}
  /\ UNCHANGED <<app, errors, again, last, queue, job, device, restarts>>

\* A source answers; its events are cached and loaded; or it fails.
Answer(r, c) == /\ c \in r.todo /\ r.read[c] = <<>>
                /\ runs' = (runs \ {r}) \cup {[r EXCEPT !.read[c] = <<source[c]>>]}
                /\ UNCHANGED <<app, loaded, errors, again, last, queue, job, device, counts>>
Load(r, c) == /\ c \in r.todo /\ r.read[c] # <<>>
              /\ cache' = [cache EXCEPT ![c] = r.read[c]] /\ loaded' = [loaded EXCEPT ![c] = r.read[c]]
              /\ runs' = (runs \ {r}) \cup {[r EXCEPT !.todo = @ \ {c}]}
              /\ UNCHANGED <<source, selected, errors, again, last, queue, job, device, counts>>
Fail(r, c) == /\ c \in r.todo
              /\ runs' = (runs \ {r}) \cup {[r EXCEPT !.todo = @ \ {c}, !.failed = @ \cup {c}]}
              /\ UNCHANGED <<app, loaded, errors, again, last, queue, job, device, counts>>
EndRun(r) == /\ r.todo = {} /\ runs' = runs \ {r} /\ errors' = r.failed /\ again' = TRUE
             /\ UNCHANGED <<app, loaded, last, queue, job, device, counts>>

\* saveSelection, when the permission is granted.
SaveSelection(S) == /\ selected' = S /\ selected # S
                    /\ UNCHANGED <<source, cache, memory, last, queue, job, device, counts>>
-----------------------------------------------------------------------------
\* calendarSnapshots: a calendar that could not be read has no events.
None == <<>>

\* A slip: a calendar that has not been read, or could not be, is taken to be empty.
EmptySnapshot(c) == IF c \in errors \/ loaded[c] = None THEN <<{}>> ELSE loaded[c]

Snapshot(c) == IF c \in errors THEN None ELSE loaded[c]
Payload == [c \in selected |-> Snapshot(c)]

\* The payload is published when it changes and after each refresh.
Publish == /\ Len(queue) < 2 /\ (again \/ Payload # last)
           /\ queue' = Append(queue, Payload) /\ last' = Payload /\ again' = FALSE
           /\ UNCHANGED <<app, loaded, errors, runs, job, device, counts>>

\* CalendarMirror.publish: calendars that are not wanted go, the others are
\* made, and then their events are written.
Begin == /\ job = <<>> /\ queue # <<>>
         /\ LET want == Head(queue)
            IN /\ job' = <<[want |-> want, made |-> {}, left |-> None]>>
               /\ device' = [c \in Cals |-> IF c \in DOMAIN want THEN device[c] ELSE <<>>]
         /\ queue' = Tail(queue) /\ UNCHANGED <<app, memory, last, counts>>
Upsert(c) ==
  /\ job # <<>> /\ job[1].left = None /\ c \in DOMAIN job[1].want \ job[1].made
  /\ device' = [device EXCEPT ![c] = IF @ = <<>> THEN <<{}>> ELSE @]
  /\ job' = LET want == job[1].want[c]
                rows == device'[c][1]
            IN <<[job[1] EXCEPT !.made = @ \cup {c},
                                !.left = IF want = None THEN None
                                         ELSE <<[cal |-> c, write |-> want[1], prune |-> rows \ want[1]]>>]>>
  /\ UNCHANGED <<app, memory, last, queue, counts>>

\* publishEvents: all the events of the snapshot, a batch at a time, and only
\* then the rows that are not part of it.
Batches(rows) == {B \in SUBSET rows : B # {} /\ Cardinality(B) <= Batch}
Write(B) ==
  LET step == job[1].left[1]
  IN /\ device' = [device EXCEPT ![step.cal] = <<@[1] \cup B>>]
     /\ job' = <<[job[1] EXCEPT !.left = <<[step EXCEPT !.write = @ \ B]>>]>>
     /\ UNCHANGED <<app, memory, last, queue, counts>>
Prune(B) ==
  LET step == job[1].left[1]
  IN /\ step.write = {}
     /\ device' = [device EXCEPT ![step.cal] = <<@[1] \ B>>]
     /\ job' = <<[job[1] EXCEPT !.left = <<[step EXCEPT !.prune = @ \ B]>>]>>
     /\ UNCHANGED <<app, memory, last, queue, counts>>
Steps == IF job = <<>> THEN {} ELSE {job[1].left[i] : i \in DOMAIN job[1].left}
NextCalendar == /\ \E s \in Steps : s.write = {} /\ s.prune = {}
                /\ job' = <<[job[1] EXCEPT !.left = None]>>
                /\ UNCHANGED <<app, memory, last, queue, device, counts>>
Done == /\ job # <<>> /\ job[1].left = None /\ job[1].made = DOMAIN job[1].want /\ job' = <<>>
        /\ UNCHANGED <<app, memory, last, queue, device, counts>>

\* The calendar storage fails: the publication ends where it is.
StorageFails == /\ job # <<>> /\ job' = <<>>
                /\ UNCHANGED <<app, memory, last, queue, device, counts>>

\* The app ends and starts again: what was in memory is gone, and a first
\* payload is published.
Restart == /\ restarts < MaxRestarts /\ restarts' = restarts + 1
           /\ loaded' = Never /\ errors' = {} /\ runs' = {} /\ again' = FALSE /\ job' = <<>>
           /\ last' = [c \in selected |-> Snapshot(c)'] /\ queue' = <<last'>>
           /\ UNCHANGED <<app, device, started>>

Next == \/ \E c \in Cals, e \in Passing : SourceChanges(c, e)
        \/ \E chosen \in SUBSET Cals : Run(chosen)
        \/ \E r \in runs : EndRun(r) \/ \E c \in Cals : Answer(r, c) \/ Load(r, c) \/ Fail(r, c)
        \/ \E S \in SUBSET Cals : SaveSelection(S)
        \/ Publish \/ Begin \/ NextCalendar \/ Done \/ StorageFails \/ Restart
        \/ \E c \in Cals : Upsert(c)
        \/ \E s \in Steps : \/ \E B \in Batches(s.write) : Write(B)
                            \/ \E B \in Batches(s.prune) : Prune(B)

Spec == Init /\ [][Next]_vars
-----------------------------------------------------------------------------
TypeOK == /\ \A c \in Cals : device[c] # <<>> => device[c][1] \subseteq Kept \cup Passing
          /\ selected \subseteq Cals /\ errors \subseteq Cals /\ started \in 0..MaxRuns

\* An event its source has all along, once copied, stays on the device for as
\* long as its calendar is wanted, whatever source or storage fails, whatever
\* is published over what and wherever the app ends (README.md:14, "If a
\* source cannot be read, its last copy is retained").
Retains(c) == \/ device'[c] # <<>> /\ device[c][1] \cap Kept \subseteq device'[c][1]
              \/ queue # <<>> /\ c \notin DOMAIN Head(queue)
RetainsKept == \A c \in Cals : device[c] # <<>> /\ device[c][1] \cap Kept # {} => Retains(c)
KeptStays == [][RetainsKept]_vars
=============================================================================
