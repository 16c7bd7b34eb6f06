--------------------------- MODULE QuerySnapshots ---------------------------
(***************************************************************************)
(* The snapshot of the query cache in IndexedDB (queryClient.ts): writes   *)
(* batched by a timer, one writer that keeps only the newest snapshot      *)
(* waiting, and a removal that must outlive both.  A snapshot is numbered  *)
(* in the order they are asked for; IndexedDB executes in order.           *)
(***************************************************************************)
EXTENDS Integers, Sequences

CONSTANTS MaxSnapshots, \* bound: snapshots asked for
          MaxRemovals,  \* bound: removals of the cache
          MaxMounts     \* bound: times the provider subscribes

VARIABLES phase,     \* the provider: restoring, or on
          timer,     \* subscribeToQueryPersistence: its timer runs
          saving,    \* it waits for a snapshot to be stored
          dirty,     \* the cache changed since
          pending,   \* pendingClient, 0 for none
          queue,     \* IndexedDB's requests: what each does, for whom
          removals,  \* removals that wait for the writer: the snapshots asked for before each
          store,     \* the snapshot stored, None for none
          asked,     \* snapshots asked for so far
          removed,   \* how many removals have begun, and the last snapshot one that ended covers
          mounts     \* how many times the provider has subscribed

vars == <<phase, timer, saving, dirty, pending, queue, removals, store, asked, removed, mounts>>
subscription == <<timer, saving, dirty>>
persister == <<pending, queue, removals, asked>>

None == -1
Request == [op : {"set", "drop", "del"}, n : 0..MaxSnapshots]
Set(n) == [op |-> "set", n |-> n]   \* the writer stores a snapshot
Drop(n) == [op |-> "drop", n |-> n] \* the writer deletes: a snapshot that cannot be cloned
Del(n) == [op |-> "del", n |-> n]   \* a removal deletes

TypeOK == /\ phase \in {"restoring", "on"} /\ {timer, saving, dirty} \subseteq BOOLEAN
          /\ pending \in 0..MaxSnapshots /\ queue \in Seq(Request)
          /\ removals \in Seq(0..MaxSnapshots) /\ store \in 0..MaxSnapshots \cup {None}

Init == /\ phase = "restoring" /\ timer = FALSE /\ saving = FALSE /\ dirty = FALSE
        /\ pending = 0 /\ queue = <<>> /\ removals = <<>>
        /\ store \in {None, 0} /\ asked = 0 /\ removed = [begun |-> 0, upto |-> None] /\ mounts = 0
-----------------------------------------------------------------------------
\* persistenceTask is there while one of its requests is.
Writing == \E i \in DOMAIN queue : queue[i].op # "del"

\* persistClient: the snapshot replaces the one that waits; a writer starts if there is none.
PersistClient == /\ asked' = asked + 1
                 /\ IF Writing THEN pending' = asked' /\ UNCHANGED queue
                    ELSE queue' = Append(queue, Set(asked')) /\ UNCHANGED pending

\* A slip in RemoveClient: it deletes at once and leaves the snapshot that waits.
RemoveAtOnce == /\ queue' = Append(queue, Del(asked))
                /\ UNCHANGED <<pending, removals>>

\* removeClient: nothing waits any more, and the removal follows the writer.
RemoveClient == /\ pending' = 0
                /\ IF Writing THEN removals' = Append(removals, asked) /\ UNCHANGED queue
                   ELSE queue' = Append(queue, Del(asked)) /\ UNCHANGED removals

Remove == /\ removed.begun < MaxRemovals
          /\ RemoveClient
          /\ removed' = [removed EXCEPT !.begun = @ + 1]
          /\ UNCHANGED <<phase, subscription, store, asked, mounts>>

\* The writer goes on with the snapshot that waits, or ends and lets the removals delete.
Continue(rest) == /\ pending' = 0
                  /\ IF pending # 0 THEN queue' = Append(rest, Set(pending)) /\ UNCHANGED <<removals, saving>>
                     ELSE /\ queue' = rest \o [i \in DOMAIN removals |-> Del(removals[i])]
                          /\ removals' = <<>> /\ saving' = FALSE
End(rest) == /\ pending' = 0
             /\ queue' = rest \o [i \in DOMAIN removals |-> Del(removals[i])]
             /\ removals' = <<>> /\ saving' = FALSE

\* schedule: the timer starts unless it runs or a snapshot is being stored.
Schedules == dirty /\ ~timer
Rest == Tail(queue)
Stored == /\ queue # <<>> /\ Head(queue).op = "set"
          /\ store' = Head(queue).n
          /\ Continue(Rest)
          /\ timer' = (timer \/ (saving /\ ~saving' /\ Schedules))
          /\ UNCHANGED <<phase, dirty, asked, removed, mounts>>
\* The snapshot cannot be cloned: the stored one is deleted in its place.
NotCloned == /\ queue # <<>> /\ Head(queue).op = "set"
             /\ queue' = Append(Rest, Drop(Head(queue).n))
             /\ UNCHANGED <<phase, subscription, pending, removals, store, asked, removed, mounts>>
Dropped == /\ queue # <<>> /\ Head(queue).op = "drop"
           /\ store' = None
           /\ Continue(Rest)
           /\ timer' = (timer \/ (saving /\ ~saving' /\ Schedules))
           /\ UNCHANGED <<phase, dirty, asked, removed, mounts>>
\* The write fails: the writer ends, and the snapshot that waited is given up.
WriteFails == /\ queue # <<>> /\ Head(queue).op # "del"
              /\ End(Rest)
              /\ timer' = (timer \/ (saving /\ Schedules))
              /\ UNCHANGED <<phase, dirty, store, asked, removed, mounts>>
Deleted == /\ queue # <<>> /\ Head(queue).op = "del"
           /\ store' = None /\ queue' = Rest
           /\ removed' = [removed EXCEPT !.upto = IF Head(queue).n > @ THEN Head(queue).n ELSE @]
           /\ UNCHANGED <<phase, subscription, pending, removals, asked, mounts>>
-----------------------------------------------------------------------------
\* The cache is restored, or was too old and is being removed, and the provider subscribes.
Subscribe == /\ phase' = "on" /\ mounts' = mounts + 1
             /\ timer' = FALSE /\ saving' = FALSE /\ dirty' = FALSE
Restored == /\ phase = "restoring" /\ queue = <<>>
            /\ Subscribe
            /\ UNCHANGED <<persister, store, removed>>
\* The provider unmounts and mounts again: a timer is cleared, a save under way goes on unheard.
Remount == /\ phase = "on" /\ mounts < MaxMounts
           /\ Subscribe
           /\ UNCHANGED <<persister, store, removed>>

\* A query or a mutation is added, updated or removed.
Change == /\ phase = "on" /\ ~dirty
          /\ dirty' = TRUE /\ timer' = (timer \/ ~saving)
          /\ UNCHANGED <<phase, saving, persister, store, removed, mounts>>

TimerFires == /\ timer /\ asked < MaxSnapshots
              /\ timer' = FALSE /\ dirty' = FALSE /\ saving' = TRUE
              /\ PersistClient
              /\ UNCHANGED <<phase, removals, store, removed, mounts>>

Next == \/ Remove \/ Stored \/ NotCloned \/ Dropped \/ WriteFails \/ Deleted
        \/ Restored \/ Remount \/ Change \/ TimerFires

Spec == Init /\ [][Next]_vars
-----------------------------------------------------------------------------
\* Once a removal has ended, no snapshot that had been asked for before it is
\* stored again: neither the one being written nor the one that waited.
RemovedStays == store > removed.upto \/ store = None
=============================================================================
