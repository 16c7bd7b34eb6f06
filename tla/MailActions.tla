----------------------------- MODULE MailActions -----------------------------
(***************************************************************************)
(* Deleting, moving and snoozing conversations in the mail window          *)
(* (useMailPageLogic.ts, useMailMutations.ts): the row disappears at once, *)
(* the action waits five seconds for an undo, then a mutation asks the     *)
(* server and repairs the screen.  The list is polled all the while.       *)
(*                                                                         *)
(* A mutation is one call of a useMutation hook.  Its own handlers always  *)
(* run; the callbacks its caller passes to mutate() run only while it is   *)
(* the latest call of its hook (the contract of TanStack Query's           *)
(* observer), so a later call of the same hook drops them ("observed").    *)
(***************************************************************************)
EXTENDS Naturals, FiniteSets

CONSTANTS Conversations,
          Accounts,
          AccountOf,    \* the account of a conversation (the unified view)
          Size,         \* messages of a conversation
          MaxGestures   \* bound on the gestures of the user

ASSUME SizeAssumption == Size \in Nat \ {0}
ASSUME GestureAssumption == MaxGestures \in Nat
ASSUME AccountAssumption == AccountOf \in [Conversations -> Accounts]

VARIABLES left,       \* server: messages of a conversation still in the folder
          cache,      \* rows of the list query
          fetch,      \* answers of the server under way to the list query
          hidden,     \* pendingRemovalIds: rows not to show whatever the query holds
          pending,    \* pendingActionRef: the action that can be undone, at most one
          timers,     \* actions whose five second timer is armed
          jobs,       \* mutations under way
          snoozed,    \* snoozedMap, kept in localStorage
          gestures,   \* gestures so far; also numbers the mutations
          removed,    \* history: removed by a mutation that succeeded
          stranded,   \* history: their action was cut short or its callbacks dropped
          revived     \* history: removed rows put back by an older snapshot

vars == <<left, cache, fetch, hidden, pending, timers, jobs, snoozed, gestures,
          removed, stranded, revived>>
history == <<removed, stranded, revived>>

Kinds == {"trash", "move", "snooze"}
BulkKinds == {"bulkDelete", "bulkMove"}
Actions == [conv : Conversations, kind : Kinds]

Listing == {c \in Conversations : left[c] > 0}
Shown == cache \ hidden
Busy(c) == (\E a \in pending : a.conv = c) \/ (\E j \in jobs : c \in j.convs)

Init == /\ left = [c \in Conversations |-> Size]
        /\ cache = Conversations
        /\ fetch = {}
        /\ hidden = {}
        /\ pending = {}
        /\ timers = {}
        /\ jobs = {}
        /\ snoozed = {}
        /\ gestures = 0
        /\ removed = {}
        /\ stranded = {}
        /\ revived = {}

-----------------------------------------------------------------------------
(* Calling a mutation: it becomes the observed call of its hook, cancels   *)
(* the list requests under way and filters its rows out of the query.      *)

\* cancelQueries on the list: its answers under way are not applied.
LeftUnderWay == fetch
Cancelled == {}

Calls(js, kind, called) ==
  {[j EXCEPT !.observed = @ /\ j.kind # kind] : j \in js} \cup called

Call(n, kind, convs, hides, observed) ==
  [n |-> n, kind |-> kind, convs |-> convs, hides |-> hides, observed |-> observed,
   phase |-> "running", before |-> cache]

\* execute() of moveToTrash, handleMove and handleSnooze, for a set of at most one action.
Execute(as) ==
  LET Started == {Call(gestures, a.kind, {a.conv}, TRUE, TRUE) : a \in as}
  IN  /\ jobs' = IF as = {} THEN jobs
                 ELSE Calls(jobs, (CHOOSE a \in as : TRUE).kind, Started)
      /\ cache' = cache \ {a.conv : a \in as}
      /\ fetch' = IF as = {} THEN fetch ELSE Cancelled

\* Only the snooze hides its row again when it is carried out.
Rehidden(as) == {a.conv : a \in {b \in as : b.kind = "snooze"}}

\* A new action carries out the one that was waiting (flushPendingAction).
TimerKept(ts) == ts
Flushed(ts) == ts \ pending

Offer(c, kind) ==
  /\ gestures < MaxGestures
  /\ c \in Shown
  /\ LET a == [conv |-> c, kind |-> kind]
     IN  /\ Execute(pending)
         /\ timers' = Flushed(timers) \cup {a}
         /\ pending' = {a}
         /\ hidden' = hidden \cup Rehidden(pending) \cup {c}
  /\ gestures' = gestures + 1
  /\ UNCHANGED <<left, history>>

\* The trash and the move, then the snooze, which leaves its mark in localStorage.
MoveToTrash(c) == Offer(c, "trash") /\ UNCHANGED snoozed
HandleMove(c) == Offer(c, "move") /\ UNCHANGED snoozed
HandleSnooze(c) == Offer(c, "snooze") /\ snoozed' = snoozed \cup {c}

DueIfHidden(a) == a \in timers /\ a.conv \in hidden
Due(a) == a \in timers

Expire(a) ==
  /\ Due(a)
  /\ timers' = timers \ {a}
  /\ pending' = {}
  /\ Execute({a})
  /\ hidden' = hidden \cup Rehidden({a})
  /\ UNCHANGED <<left, snoozed, gestures, history>>

\* What cancelDeletion puts back: the row, and the mark of a snooze.
MarkRolledBack(as) == /\ UNCHANGED hidden
                      /\ snoozed' = snoozed \ Rehidden(as)
RolledBack(as) == /\ hidden' = hidden \ {a.conv : a \in as}
                  /\ snoozed' = snoozed \ Rehidden(as)

Undo ==
  /\ pending # {}
  /\ timers' = timers \ pending
  /\ RolledBack(pending)
  /\ pending' = {}
  /\ UNCHANGED <<left, cache, fetch, jobs, gestures, history>>

\* One mutation per account, in one go: only the last of them stays observed.
Bulk(kind, convs) ==
  LET owners == {AccountOf[c] : c \in convs}
      Of(a) == {c \in convs : AccountOf[c] = a}
  IN  /\ gestures < MaxGestures
      /\ convs \subseteq Shown
      /\ convs # {}
      /\ \E last \in owners :
            jobs' = Calls(jobs, kind,
                          {Call(gestures + 1, kind, Of(a), TRUE, a = last) : a \in owners})
      /\ hidden' = hidden \cup convs
      /\ cache' = cache \ convs
      /\ fetch' = Cancelled
      /\ gestures' = gestures + 1
      /\ UNCHANGED <<left, pending, timers, snoozed, history>>

HandleBulkDelete(convs) == Bulk("bulkDelete", convs)
HandleBulkMove(convs) == Bulk("bulkMove", convs)

\* Marks every conversation and hides none; one mutation per conversation.
HandleBulkSnooze(convs) ==
  /\ gestures < MaxGestures
  /\ convs \subseteq Shown
  /\ convs # {}
  /\ \E last \in convs :
        jobs' = Calls(jobs, "snooze",
                      {Call(gestures + 1, "snooze", {c}, FALSE, c = last) : c \in convs})
  /\ snoozed' = snoozed \cup convs
  /\ cache' = cache \ convs
  /\ fetch' = Cancelled
  /\ gestures' = gestures + 1
  /\ UNCHANGED <<left, hidden, pending, timers, history>>

-----------------------------------------------------------------------------
(* A mutation under way.  Deleting and snoozing go message by message, the *)
(* others conversation by conversation.                                    *)

Request(j, rest) ==
  /\ j \in jobs
  /\ j.phase = "running"
  /\ \E c \in j.convs : /\ left[c] > 0
                       /\ left' = [left EXCEPT ![c] = rest[@]]
  /\ UNCHANGED <<cache, fetch, hidden, pending, timers, jobs, snoozed, gestures, history>>

OneLess == [n \in 0..Size |-> n - 1]
NoneLeft == [n \in 0..Size |-> 0]

MoveToTrashFn(j) == j.kind = "trash" /\ Request(j, OneLess)
SnoozeThreadFn(j) == j.kind = "snooze" /\ Request(j, OneLess)
MoveThreadFn(j) == j.kind = "move" /\ Request(j, NoneLeft)
BulkFn(j) == j.kind \in BulkKinds /\ Request(j, NoneLeft)
Work(j) == MoveToTrashFn(j) \/ SnoozeThreadFn(j) \/ MoveThreadFn(j) \/ BulkFn(j)

\* The hook's onSuccess: list requests sent before the end are cancelled and
\* rows they brought back are dropped.
Clean(j) ==
  /\ j \in jobs
  /\ j.phase = "running"
  /\ \A c \in j.convs : left[c] = 0
  /\ jobs' = (jobs \ {j}) \cup {[j EXCEPT !.phase = "cleaned"]}
  /\ fetch' = Cancelled
  /\ cache' = cache \ j.convs
  /\ removed' = removed \cup j.convs
  /\ revived' = revived \ j.convs
  /\ UNCHANGED <<left, hidden, pending, timers, snoozed, gestures, stranded>>

StillHidden(j) == hidden
Unhidden(j) == IF j.observed /\ j.hides THEN hidden \ j.convs ELSE hidden
StillMarked(j) == snoozed
Unmarked(j) == IF j.observed /\ j.kind = "snooze" THEN snoozed \ j.convs ELSE snoozed
StrandedBy(j) == IF j.observed THEN {} ELSE j.convs

\* The caller's onSuccess and onSettled.
Settle(j) ==
  /\ j \in jobs
  /\ j.phase = "cleaned"
  /\ jobs' = jobs \ {j}
  /\ hidden' = Unhidden(j)
  /\ stranded' = stranded \cup StrandedBy(j)
  /\ UNCHANGED <<left, cache, fetch, pending, timers, snoozed, gestures, removed, revived>>

\* The bulk hooks put the rows of their account back as they were at the call;
\* the others save and restore a key no list query has, so nothing comes back.
Restored(j) ==
  IF j.kind \in BulkKinds
  THEN LET mine == {c \in Conversations : \E d \in j.convs : AccountOf[c] = AccountOf[d]}
       IN  (cache \ mine) \cup (j.before \cap mine)
  ELSE cache

Fail(j) ==
  /\ j \in jobs
  /\ j.phase = "running"
  /\ jobs' = jobs \ {j}
  /\ cache' = Restored(j)
  /\ revived' = revived \cup ((Restored(j) \ cache) \cap removed)
  /\ hidden' = Unhidden(j)
  /\ snoozed' = Unmarked(j)
  /\ stranded' = stranded \cup StrandedBy(j)
  /\ UNCHANGED <<left, fetch, pending, timers, gestures, removed>>

-----------------------------------------------------------------------------
(* The list query, polled every minute and on focus.                       *)

Ask == /\ fetch = {}
       /\ fetch' = {Listing}
       /\ UNCHANGED <<left, cache, hidden, pending, timers, jobs, snoozed, gestures, history>>

Answer == /\ fetch # {}
          /\ cache' = UNION fetch
          /\ fetch' = {}
          /\ revived' = revived \cap UNION fetch
          /\ UNCHANGED <<left, hidden, pending, timers, jobs, snoozed, gestures, removed, stranded>>

\* Another account and back: the hidden rows are forgotten, the action is not.
SelectAccount == /\ hidden # {}
                 /\ hidden' = {}
                 /\ fetch' = {}
                 /\ UNCHANGED <<left, cache, pending, timers, jobs, snoozed, gestures, history>>

\* The page goes away with its timers and requests; localStorage stays.
Close == /\ pending # {} \/ jobs # {}
         /\ stranded' = stranded \cup {c \in Conversations : Busy(c)}
         /\ pending' = {}
         /\ timers' = {}
         /\ jobs' = {}
         /\ hidden' = {}
         /\ fetch' = {}
         /\ UNCHANGED <<left, cache, snoozed, gestures, removed, revived>>

Next == \/ \E c \in Conversations : MoveToTrash(c) \/ HandleMove(c) \/ HandleSnooze(c)
        \/ \E a \in timers : Expire(a)
        \/ Undo
        \/ \E convs \in SUBSET Conversations :
              HandleBulkDelete(convs) \/ HandleBulkMove(convs) \/ HandleBulkSnooze(convs)
        \/ \E j \in jobs : Work(j) \/ Clean(j) \/ Settle(j) \/ Fail(j)
        \/ Ask \/ Answer \/ SelectAccount \/ Close

Spec == Init /\ [][Next]_vars

\* Timers fire, requests end and the list is polled; the user owes nothing.
Fairness == /\ WF_vars(\E a \in timers : Expire(a))
            /\ WF_vars(\E j \in jobs : Work(j) \/ Clean(j) \/ Settle(j))
            /\ WF_vars(Ask)
            /\ WF_vars(Answer)

FairSpec == Spec /\ Fairness
-----------------------------------------------------------------------------
Jobs == [n : 1..MaxGestures, kind : Kinds \cup BulkKinds, convs : SUBSET Conversations,
         hides : BOOLEAN, observed : BOOLEAN, phase : {"running", "cleaned"},
         before : SUBSET Conversations]

\* The variables have their types, one action at most waits for an undo, and the
\* armed timers are exactly those of the waiting action.
TypeOK == /\ left \in [Conversations -> 0..Size]
          /\ {cache, hidden, snoozed, removed, stranded, revived} \subseteq SUBSET Conversations
          /\ fetch \subseteq SUBSET Conversations /\ Cardinality(fetch) <= 1
          /\ pending \subseteq Actions /\ Cardinality(pending) <= 1
          /\ timers = pending
          /\ jobs \subseteq Jobs
          /\ gestures \in 0..MaxGestures

\* A row is hidden only while its action waits or is carried out; otherwise it
\* would stay away until the account is changed (useMailPageLogic.ts 183-190).
\* A conversation marked as snoozed has left the folder or is about to.  Both
\* except for what a dropped callback or a closed page left behind.
MarksHaveReason == /\ \A c \in hidden : Busy(c) \/ c \in stranded
                   /\ \A c \in snoozed : left[c] = 0 \/ Busy(c) \/ c \in stranded

\* A conversation removed by a mutation is not shown again, whatever answers the
\* list query had under way, except by a snapshot a failed bulk action put back.
RemovedNotShown == removed \cap Shown \subseteq revived

\* The undo toast keeps its promise: see UndoContract.
Contract == INSTANCE UndoContract
              WITH offered <- {a.conv : a \in pending},
                   running <- UNION {j.convs : j \in jobs}
KeepsUndoContract == Contract!Spec

\* No offer to undo lasts for ever.
OfferEnds == \A c \in Conversations :
  (\E a \in pending : a.conv = c) ~> ~\E a \in pending : a.conv = c
=============================================================================
