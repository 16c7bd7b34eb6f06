-------------------------- MODULE OfflineMailCache --------------------------
(***************************************************************************)
(* The copy of the inbox kept for offline use: offlineMailCache.ts, the    *)
(* synchronisation that fills it (useOfflineMailSync.ts) and the mutations *)
(* that change it once the server has accepted them (useMailMutations.ts,  *)
(* useMailPageLogic.ts), for one account.                                  *)
(*                                                                         *)
(* Each operation of the copy is one IndexedDB transaction, an action; a   *)
(* synchronisation is several steps, and mail changes between them.  The   *)
(* background synchronisations exclude each other, the one that follows a  *)
(* move into the inbox asks nobody.                                        *)
(*                                                                         *)
(* The mail of a conversation is a function from its messages, numbered in *)
(* order of delivery, to whether they are read.  A message set {} stands   *)
(* for messageIds = undefined: the whole conversation.                     *)
(***************************************************************************)
EXTENDS FiniteSetsExt

CONSTANTS
    Conversations,  \* conversations recent enough to be listed
    Syncs,          \* the synchronisations that may run at the same time
    MaxMessages,    \* bound: deliveries in a conversation
    MaxChanges,     \* bound: changes of the mailbox and of the settings
    MaxToggles      \* bound: times the copy is switched off or on

ASSUME SyncsAssumption == Syncs \subseteq {"background", "afterMove"}
ASSUME BoundsAssumption ==
    MaxMessages \in Nat \ {0} /\ MaxChanges \in Nat /\ MaxToggles \in Nat

Messages == 1..MaxMessages
Partial(S, T) == UNION {[D -> T] : D \in SUBSET S}
Mails == Partial(Messages, BOOLEAN)
Latest == {Max(D) : D \in (SUBSET Messages) \ {{}}}
Threads == [last : Latest, count : Messages, unread : 0..MaxMessages]
Overlays == [read : BOOLEAN, ids : SUBSET Messages]
Empty == [c \in {} |-> {}]
Put(f, x, y) == [z \in DOMAIN f \union {x} |-> IF z = x THEN y ELSE f[z]]
Drop(f, x) == Restrict(f, DOMAIN f \ {x})

(* A change the server has accepted and the copy has not yet: its kind, its *)
(* messages, the flag they get, and those nobody has changed since.         *)
Kinds == {"none", "remove", "moveIn", "mark", "delete"}
Mutations == [kind : Kinds, read : BOOLEAN, ids : SUBSET Messages,
              ours : SUBSET Messages]
NoMutation == [kind |-> "none", read |-> FALSE, ids |-> {}, ours |-> {}]

SyncStates == [step : {"none", "list", "compare", "fetch"},
               list : Partial(Conversations, Threads),
               todo : SUBSET Conversations,
               fetched : Partial(Conversations, Mails)]
NoSync == [step |-> "none", list |-> Empty, todo |-> {}, fetched |-> Empty]

VARIABLES
    mail,      \* the server: the messages of each conversation
    inbox,     \* the server: the conversations of the inbox
    delivered, \* the server: messages ever delivered
    enabled,   \* the offline copy is switched on
    threads,   \* the copy: store "threads"
    cached,    \* the copy: store "messages"
    removals,  \* the copy: store "removals", the tombstones
    overlays,  \* the copy: store "read-states"
    syncs,     \* the synchronisations under way
    pending,   \* the mutation of each conversation that is not in the copy
    changes, toggles,  \* used up of MaxChanges and MaxToggles
    gone,      \* history: removed from the copy, not back in the inbox since
    marks,     \* history: what was last marked here and not changed elsewhere
    failed     \* history: messages could not be fetched, nor stored since

server == <<mail, inbox, delivered>>
copy == <<threads, cached, removals, overlays>>
bounds == <<changes, toggles>>
history == <<gone, marks, failed>>
vars == <<server, enabled, copy, syncs, pending, bounds, history>>

Marked(m, ids, read) ==
    [n \in DOMAIN m |-> IF ids = {} \/ n \in ids THEN read ELSE m[n]]

(* What listThreads says of a conversation, and its version.                *)
ThreadOf(m) ==
    [last |-> Max(DOMAIN m), count |-> Cardinality(DOMAIN m),
     unread |-> Cardinality({n \in DOMAIN m : ~m[n]})]

Init ==
    /\ delivered = [c \in Conversations |-> 1]
    /\ mail \in [Conversations -> [{1} -> BOOLEAN]]
    /\ inbox \in SUBSET Conversations
    /\ enabled = TRUE
    /\ threads = Empty /\ cached = Empty
    /\ removals = {} /\ overlays = Empty
    /\ syncs = [s \in Syncs |-> NoSync]
    /\ pending = [c \in Conversations |-> NoMutation]
    /\ changes = 0 /\ toggles = 0
    /\ gone = {} /\ marks = Empty /\ failed = {}

Change ==
    /\ changes < MaxChanges
    /\ changes' = changes + 1
    /\ UNCHANGED toggles

----------------------------------------------------------------------------
(* Other clients and new mail.                                              *)

Deliver(c) ==
    /\ delivered[c] < MaxMessages
    /\ delivered' = [delivered EXCEPT ![c] = @ + 1]
    /\ mail' = [mail EXCEPT ![c] = Put(@, delivered'[c], FALSE)]
    /\ inbox' = inbox \union {c}
    /\ gone' = gone \ {c}
    /\ Change /\ UNCHANGED <<enabled, copy, syncs, pending, marks, failed>>

(* Out of the inbox or back into it.                                        *)
MoveElsewhere(c) ==
    /\ DOMAIN mail[c] # {}
    /\ inbox' = IF c \in inbox THEN inbox \ {c} ELSE inbox \union {c}
    /\ gone' = gone \ {c}
    /\ Change /\ UNCHANGED <<mail, delivered, enabled, copy, syncs, pending,
                             marks, failed>>

DeleteElsewhere(c, n) ==
    /\ n \in DOMAIN mail[c]
    /\ mail' = [mail EXCEPT ![c] = Drop(@, n)]
    /\ inbox' = IF DOMAIN mail'[c] = {} THEN inbox \ {c} ELSE inbox
    /\ Change /\ UNCHANGED <<delivered, enabled, copy, syncs, pending, history>>

MarkElsewhere(c, n) ==
    /\ n \in DOMAIN mail[c]
    /\ mail' = [mail EXCEPT ![c][n] = ~@]
    /\ marks' = Drop(marks, c)
    /\ pending' = [pending EXCEPT ![c].ours = @ \ {n}]
    /\ Change /\ UNCHANGED <<inbox, delivered, enabled, copy, syncs, gone,
                             failed>>

----------------------------------------------------------------------------
(* The user's own changes, as the server has just accepted them.            *)

Begin(c, mutation) ==
    /\ pending[c] = NoMutation
    /\ pending' = [pending EXCEPT ![c] = mutation]
    /\ Change

Remove(c) ==
    /\ c \in inbox
    /\ inbox' = inbox \ {c}
    /\ Begin(c, [NoMutation EXCEPT !.kind = "remove"])
    /\ UNCHANGED <<mail, delivered, enabled, copy, syncs, history>>

MoveIn(c) ==
    /\ "afterMove" \in Syncs /\ syncs["afterMove"] = NoSync
    /\ c \notin inbox /\ DOMAIN mail[c] # {}
    /\ inbox' = inbox \union {c}
    /\ gone' = gone \ {c}
    /\ Begin(c, [NoMutation EXCEPT !.kind = "moveIn"])
    /\ UNCHANGED <<mail, delivered, enabled, copy, syncs, marks, failed>>

Mark(c, ids, read) ==
    /\ c \in inbox /\ ids \subseteq DOMAIN mail[c]
    /\ mail' = [mail EXCEPT ![c] = Marked(@, ids, read)]
    /\ marks' = Drop(marks, c)
    /\ Begin(c, [kind |-> "mark", read |-> read, ids |-> ids,
                 ours |-> IF ids = {} THEN DOMAIN mail[c] ELSE ids])
    /\ UNCHANGED <<inbox, delivered, enabled, copy, syncs, gone, failed>>

Delete(c, n) ==
    /\ c \in inbox /\ n \in DOMAIN mail[c]
    /\ mail' = [mail EXCEPT ![c] = Drop(@, n)]
    /\ inbox' = IF DOMAIN mail'[c] = {} THEN inbox \ {c} ELSE inbox
    /\ Begin(c, [NoMutation EXCEPT !.kind = "delete", !.ids = {n}])
    /\ UNCHANGED <<delivered, enabled, copy, syncs, history>>

----------------------------------------------------------------------------
(* The same changes reach the copy, if it is still switched on.             *)

Commit(c, kind) ==
    /\ enabled /\ pending[c].kind = kind
    /\ pending' = [pending EXCEPT ![c] = NoMutation]
    /\ UNCHANGED <<server, enabled, bounds, failed>>

(* removeOfflineInboxConversations                                          *)
Forget(c) ==
    /\ threads' = Drop(threads, c) /\ cached' = Drop(cached, c)
    /\ removals' = removals \union {c}
    /\ overlays' = Drop(overlays, c)
    /\ gone' = IF c \in inbox THEN gone ELSE gone \union {c}
    /\ marks' = Drop(marks, c)

CommitRemove(c) == Commit(c, "remove") /\ Forget(c) /\ UNCHANGED syncs

(* clearOfflineInboxRemovals, then a synchronisation of its own             *)
CommitMoveIn(c) ==
    /\ Commit(c, "moveIn")
    /\ syncs["afterMove"] = NoSync
    /\ syncs' = [syncs EXCEPT !["afterMove"] = [NoSync EXCEPT !.step = "list"]]
    /\ removals' = removals \ {c}
    /\ UNCHANGED <<threads, cached, overlays, gone, marks>>

HasMessages(c) == c \in DOMAIN cached /\ DOMAIN cached[c] # {}
Updated(thread, m) == IF DOMAIN m = {} THEN thread ELSE ThreadOf(m)
WithFlag(thread, read) ==
    [thread EXCEPT !.unread = IF read THEN 0 ELSE thread.count]
InThreads(c, thread) ==
    IF c \in DOMAIN threads THEN Put(threads, c, thread) ELSE threads

(* updateOfflineInboxReadState                                              *)
CommitMark(c) ==
    LET p == pending[c]
        marked == Marked(cached[c], p.ids, p.read)
    IN  /\ Commit(c, "mark")
        /\ cached' = IF HasMessages(c) THEN Put(cached, c, marked) ELSE cached
        /\ threads' = InThreads(c, IF HasMessages(c)
                                   THEN Updated(threads[c], marked)
                                   ELSE WithFlag(threads[c], p.read))
        /\ overlays' = Put(overlays, c, [read |-> p.read, ids |-> p.ids])
        /\ marks' = Put(marks, c, [read |-> p.read, of |-> p.ours])
        /\ UNCHANGED <<removals, syncs, gone>>

OneLess(thread) == [thread EXCEPT !.count = IF @ = 1 THEN 1 ELSE @ - 1]

(* removeOfflineInboxMessages                                               *)
CommitDelete(c) ==
    LET remaining == Restrict(cached[c], DOMAIN cached[c] \ pending[c].ids)
    IN  /\ Commit(c, "delete") /\ UNCHANGED syncs
        /\ IF HasMessages(c) /\ DOMAIN remaining = {} THEN Forget(c)
           ELSE /\ cached' = IF HasMessages(c) THEN Put(cached, c, remaining)
                             ELSE cached
                /\ threads' = InThreads(c, IF HasMessages(c)
                                           THEN Updated(threads[c], remaining)
                                           ELSE OneLess(threads[c]))
                /\ UNCHANGED <<removals, overlays, gone, marks>>

(* Nothing is written while the copy is off.                                *)
Skip(c) ==
    /\ ~enabled /\ pending[c] # NoMutation
    /\ pending' = [pending EXCEPT ![c] = NoMutation]
    /\ UNCHANGED <<server, enabled, copy, syncs, bounds, history>>

(* clearOfflineMailCache; a synchronisation under way goes on.              *)
Toggle ==
    /\ toggles < MaxToggles
    /\ toggles' = toggles + 1 /\ UNCHANGED changes
    /\ enabled' = ~enabled
    /\ threads' = IF enabled THEN Empty ELSE threads
    /\ cached' = IF enabled THEN Empty ELSE cached
    /\ removals' = IF enabled THEN {} ELSE removals
    /\ overlays' = IF enabled THEN Empty ELSE overlays
    /\ gone' = IF enabled THEN {} ELSE gone
    /\ marks' = IF enabled THEN Empty ELSE marks
    /\ UNCHANGED <<server, syncs, pending, failed>>

(* The window is closed: what had not reached the copy never does.          *)
Close ==
    /\ syncs' = [s \in Syncs |-> NoSync]
    /\ pending' = [c \in Conversations |-> NoMutation]
    /\ Change /\ UNCHANGED <<server, enabled, copy, history>>

----------------------------------------------------------------------------
(* synchronizeOfflineInboxAccount.                                          *)

(* listThreads answers; the timer, the network or a click started the       *)
(* background one.                                                          *)
List(s) ==
    /\ syncs[s].step = IF s = "background" THEN "none" ELSE "list"
    /\ s = "background" => enabled
    /\ syncs' = [syncs EXCEPT ![s] =
            [NoSync EXCEPT !.step = "compare",
                           !.list = [c \in inbox |-> ThreadOf(mail[c])]]]
    /\ UNCHANGED <<server, enabled, copy, pending, bounds, history>>

FailList(s) ==
    /\ syncs[s].step = "list"
    /\ syncs' = [syncs EXCEPT ![s] = NoSync]
    /\ UNCHANGED <<server, enabled, copy, pending, bounds, history>>

ChangedByCount(list) ==                  \* faulty: only the counters
    {c \in DOMAIN list : c \in DOMAIN threads =>
        \/ threads[c].count # list[c].count
        \/ threads[c].unread # list[c].unread}
(* The conversations whose version is not the one of the copy.              *)
Changed(list) ==
    {c \in DOMAIN list : c \in DOMAIN threads => threads[c] # list[c]}

Compare(s) ==
    /\ syncs[s].step = "compare"
    /\ syncs' = [syncs EXCEPT ![s].step = "fetch",
                              ![s].todo = Changed(syncs[s].list)]
    /\ UNCHANGED <<server, enabled, copy, pending, bounds, history>>

(* getThread, in any order: two workers share the list.                     *)
Fetch(s, c) ==
    /\ c \in syncs[s].todo
    /\ syncs' = [syncs EXCEPT ![s].todo = @ \ {c},
                              ![s].fetched = Put(@, c, mail[c])]
    /\ UNCHANGED <<server, enabled, copy, pending, bounds, history>>

FailFetch(s, c) ==
    /\ c \in syncs[s].todo
    /\ syncs' = [syncs EXCEPT ![s].todo = @ \ {c}]
    /\ failed' = failed \union {c}
    /\ UNCHANGED <<server, enabled, copy, pending, bounds, gone, marks>>

(* storeOfflineInbox: tombstones are kept while the list has their          *)
(* conversation, and hide it.                                               *)
NoRemovals(list) == {}                   \* faulty: tombstones kept for one sync
ActiveRemovals(list) == removals \intersect DOMAIN list

ConfirmedIfFetched(c, fetched) == c \in DOMAIN fetched  \* faulty: flags unread
(* The messages fetched show the flag that was set here.                    *)
Confirmed(c, fetched) ==
    /\ c \in DOMAIN fetched
    /\ LET o == overlays[c]
           targets == {n \in DOMAIN fetched[c] : o.ids = {} \/ n \in o.ids}
       IN  targets # {} /\ \A n \in targets : fetched[c][n] = o.read

OrphansToo(safe) == DOMAIN cached        \* faulty: nothing is deleted
(* The conversations whose messages are left: not those that were listed    *)
(* and are no longer.                                                       *)
Remaining(safe) == DOMAIN cached \ (DOMAIN threads \ safe)

Store(s) ==
    LET list == syncs[s].list
        fetched == syncs[s].fetched
        safe == DOMAIN list \ ActiveRemovals(list)
        retained == {c \in safe \intersect DOMAIN overlays :
                        ~Confirmed(c, fetched)}
        Effective(c) == IF c \in retained
                        THEN Marked(fetched[c], overlays[c].ids, overlays[c].read)
                        ELSE fetched[c]
        Row(c) == IF c \notin retained THEN list[c]
                  ELSE IF c \in DOMAIN fetched
                  THEN Updated(list[c], Effective(c))
                  ELSE IF overlays[c].ids = {}
                  THEN WithFlag(list[c], overlays[c].read) ELSE list[c]
        stored == DOMAIN fetched \ ActiveRemovals(list)
    IN  /\ syncs[s].step = "fetch" /\ syncs[s].todo = {}
        /\ threads' = [c \in safe |-> Row(c)]
        /\ removals' = ActiveRemovals(list)
        /\ overlays' = Restrict(overlays, retained)
        /\ cached' = [c \in Remaining(safe) \union stored |->
                        IF c \in stored THEN Effective(c) ELSE cached[c]]
        /\ syncs' = [syncs EXCEPT ![s] = NoSync]
        /\ failed' = failed \ DOMAIN fetched
        /\ UNCHANGED <<server, enabled, pending, bounds, gone, marks>>

----------------------------------------------------------------------------
CommitAny(c) == CommitRemove(c) \/ CommitMoveIn(c) \/ CommitMark(c)
                \/ CommitDelete(c) \/ Skip(c)

Next ==
    \/ \E c \in Conversations :
        \/ Deliver(c) \/ MoveElsewhere(c) \/ Remove(c) \/ MoveIn(c)
        \/ CommitAny(c)
        \/ \E n \in Messages :
            DeleteElsewhere(c, n) \/ MarkElsewhere(c, n) \/ Delete(c, n)
        \/ \E ids \in SUBSET Messages, read \in BOOLEAN : Mark(c, ids, read)
    \/ \E s \in Syncs :
        \/ List(s) \/ FailList(s) \/ Compare(s) \/ Store(s)
        \/ \E c \in Conversations : Fetch(s, c) \/ FailFetch(s, c)
    \/ Toggle \/ Close

Spec == Init /\ [][Next]_vars

(* The timer starts a background synchronisation again and again; a step of *)
(* the program comes, and no conversation fails to be fetched for ever.     *)
Fairness ==
    /\ \A s \in Syncs :
        /\ WF_vars(List(s)) /\ WF_vars(Compare(s)) /\ WF_vars(Store(s))
        /\ \A c \in Conversations :
            /\ WF_vars(Fetch(s, c) \/ FailFetch(s, c))
            /\ SF_vars(Fetch(s, c))
    /\ \A c \in Conversations : WF_vars(CommitAny(c))

FairSpec == Spec /\ Fairness

----------------------------------------------------------------------------
(* Types; a row counts at least one message.                                *)
TypeOK ==
    /\ mail \in [Conversations -> Mails]
    /\ inbox \subseteq {c \in Conversations : DOMAIN mail[c] # {}}
    /\ delivered \in [Conversations -> Messages]
    /\ enabled \in BOOLEAN
    /\ threads \in Partial(Conversations, Threads)
    /\ cached \in Partial(Conversations, Mails)
    /\ removals \subseteq Conversations
    /\ overlays \in Partial(Conversations, Overlays)
    /\ syncs \in [Syncs -> SyncStates]
    /\ pending \in [Conversations -> Mutations]
    /\ changes \in 0..MaxChanges /\ toggles \in 0..MaxToggles

(* The stores agree, although deletions, markings and overlapping           *)
(* synchronisations write them in any order: messages are kept only for a   *)
(* listed conversation, and none is both listed and removed.                *)
CopyConsistent ==
    /\ DOMAIN cached \subseteq DOMAIN threads
    /\ removals \intersect DOMAIN threads = {}

(* A conversation removed here does not come back into the copy, whatever   *)
(* list was fetched before, until it is in the inbox again                  *)
(* (offlineMailCache.ts:83).                                                *)
RemovedStaysHidden == gone \intersect DOMAIN threads = {}

(* What the user marked last stays marked in the copy, whatever messages    *)
(* were fetched before, until it is changed elsewhere                       *)
(* (offlineMailCache.ts:137-179, 270-293).                                  *)
OwnMarkShows ==
    \A c \in DOMAIN marks \intersect DOMAIN cached :
        \A n \in marks[c].of \intersect DOMAIN cached[c] :
            cached[c][n] = marks[c].read

Settled(c, present) == enabled /\ c \in inbox /\ DOMAIN mail[c] = present
HasAll(c, present) == c \in DOMAIN cached /\ present \subseteq DOMAIN cached[c]

(* The copy gets the messages of a conversation of the inbox, unless its    *)
(* tombstone hides it or they could not be fetched when they changed; one   *)
(* deleted since may stay with them.                                        *)
FetchedMailArrives ==
    \A c \in Conversations, present \in SUBSET Messages :
        Settled(c, present)
            ~> \/ HasAll(c, present) \/ ~Settled(c, present)
               \/ c \in removals \/ c \in failed

=============================================================================
