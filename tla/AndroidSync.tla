---------------------------- MODULE AndroidSync ----------------------------
(***************************************************************************)
(* Background detection of new mail on Android and the notifications it    *)
(* posts: SyncEngine.kt, NativeNotifier.kt, the disabling half of          *)
(* SyncScheduler.kt and the notification receiver, for one account (every  *)
(* stored value and the mutex are per account).                            *)
(*                                                                         *)
(* A pass runs under the account's mutex, so there is one at a time; the   *)
(* notification receiver takes no lock and can run between its steps.  A   *)
(* message is a conversation and the number of its latest delivery, the    *)
(* "conversation:last_delivery_time" id of sync.rs, so a snapshot of the   *)
(* unread inbox is a function from conversations to numbers, 0 for none.   *)
(* Gmail, whose ids are single messages, is left out.                      *)
(***************************************************************************)
EXTENDS Naturals, FiniteSets

CONSTANTS
    Conversations,  \* conversations of the account's inbox
    MaxNumber,      \* bound: deliveries in a conversation
    MaxSeen         \* ids remembered; 500 in the code

ASSUME BoundsAssumption == MaxNumber \in Nat \ {0} /\ MaxSeen \in Nat

Numbers == 0..MaxNumber
Snapshots == [Conversations -> Numbers]
Nothing == [c \in Conversations |-> 0]
Messages == Conversations \X Numbers
MessagesOf(snapshot) ==
    {m \in Messages : m[2] # 0 /\ m[2] = snapshot[m[1]]}

Steps == {"none", "detect", "reconcile", "saveReconciled", "commit",
          "credentials", "notify", "saveNotified"}
Passes == [step : Steps, first : BOOLEAN, base : Snapshots, inbox : Snapshots,
           found : Snapshots, fresh : Snapshots, active : Snapshots]
NoPass == [step |-> "none", first |-> FALSE, base |-> Nothing,
           inbox |-> Nothing, found |-> Nothing, fresh |-> Nothing,
           active |-> Nothing]

Clicks == [conversation : Conversations, active : Snapshots]

VARIABLES
    latest,      \* the server: last delivery of each conversation
    unread,      \* the server: conversations with unread mail
    account,     \* SyncVault holds the account
    initialized, \* native_sync_state contains the account
    cursor,      \* the snapshot of the last committed pass
    seen,        \* ids already detected, bounded by MaxSeen
    muted,       \* notifications are disabled in the preferences
    entries,     \* notificationConversations: what the app thinks it shows
    cards,       \* the notifications Android shows
    pass,        \* the pass that holds the mutex
    click,       \* the receiver between its read and its write of entries
    posted,      \* history: messages a card was posted for
    baseline,    \* history: messages a first pass found
    dropped,     \* history: fresh messages whose pass ended before notify
    removed      \* history: the account has been removed at least once

vars == <<latest, unread, account, initialized, cursor, seen, muted, entries,
          cards, pass, click, posted, baseline, dropped, removed>>
server == <<latest, unread>>
state == <<initialized, cursor, seen>>
shade == <<entries, cards>>
history == <<posted, baseline, dropped, removed>>

Inbox == [c \in Conversations |-> IF c \in unread THEN latest[c] ELSE 0]

Init ==
    /\ latest \in [Conversations -> {0, 1}]
    /\ unread \in SUBSET {c \in Conversations : latest[c] # 0}
    /\ account = FALSE
    /\ initialized = FALSE /\ cursor = Nothing /\ seen = {}
    /\ muted = FALSE
    /\ entries = Nothing /\ cards = Nothing
    /\ pass = NoPass
    /\ click = {}
    /\ posted = {} /\ baseline = {} /\ dropped = {} /\ removed = FALSE

----------------------------------------------------------------------------
(* The mailbox and the user.                                                *)

Deliver(c) ==
    /\ latest[c] < MaxNumber
    /\ latest' = [latest EXCEPT ![c] = @ + 1]
    /\ unread' = unread \union {c}
    /\ UNCHANGED <<account, state, muted, shade, pass, click, history>>

(* Read, archived or deleted, here or on another client; the work of a      *)
(* notification's action button ends so, or leaves the mailbox as it was.   *)
MarkRead(c) ==
    /\ c \in unread
    /\ unread' = unread \ {c}
    /\ UNCHANGED <<latest, account, state, muted, shade, pass, click, history>>

MarkUnread(c) ==
    /\ c \notin unread /\ latest[c] # 0
    /\ unread' = unread \union {c}
    /\ UNCHANGED <<latest, account, state, muted, shade, pass, click, history>>

Mute ==
    /\ muted' = ~muted
    /\ UNCHANGED <<server, account, state, shade, pass, click, history>>

Enable ==
    /\ ~account
    /\ account' = TRUE
    /\ UNCHANGED <<server, state, muted, shade, pass, click, history>>

(* cancelWork, SyncVault.delete, the sync state, cancelAccount.  A pass     *)
(* that is past its last suspension point goes on.                          *)
Disable ==
    /\ account
    /\ account' = FALSE
    /\ initialized' = FALSE /\ cursor' = Nothing /\ seen' = {}
    /\ entries' = Nothing
    /\ cards' = [c \in Conversations |-> IF entries[c] # 0 THEN 0 ELSE cards[c]]
    /\ removed' = TRUE
    /\ UNCHANGED <<server, muted, pass, click, posted, baseline, dropped>>

----------------------------------------------------------------------------
(* cancelConversation: the card swiped away or one of its buttons pressed,  *)
(* or a conversation opened in the application.  It reads the saved map     *)
(* and writes it back without the lock of the sync pass.                    *)

Dismiss(c) ==
    /\ click = {}
    /\ entries[c] # 0 \/ cards[c] # 0
    /\ click' = {[conversation |-> c, active |-> entries]}
    /\ cards' = [cards EXCEPT ![c] = 0]
    /\ UNCHANGED <<server, account, state, muted, entries, pass, history>>

SaveDismissed ==
    /\ \E k \in click : entries' = [k.active EXCEPT ![k.conversation] = 0]
    /\ click' = {}
    /\ UNCHANGED <<server, account, state, muted, cards, pass, history>>

----------------------------------------------------------------------------
(* syncAndReconcile.                                                        *)

(* Without the account the pass ends at once, with a permanent failure.     *)
Begin(forceSnapshot) ==
    /\ pass.step = "none" /\ account
    /\ pass' = [NoPass EXCEPT
                    !.step = "detect",
                    !.first = ~initialized,
                    !.base = IF forceSnapshot THEN Nothing ELSE cursor]
    /\ UNCHANGED <<server, account, state, muted, shade, click, history>>

(* provider-core's detect: the unread inbox, without what the cursor lists. *)
Detect ==
    /\ pass.step = "detect"
    /\ pass' = [pass EXCEPT
                    !.step = "reconcile",
                    !.base = Nothing,
                    !.inbox = Inbox,
                    !.found = [c \in Conversations |->
                        IF Inbox[c] = pass.base[c] THEN 0 ELSE Inbox[c]]]
    /\ UNCHANGED <<server, account, state, muted, shade, click, history>>

(* Cards of the conversations that were not found are cancelled.            *)
StaleReversed(found) ==                  \* faulty: filter for filterNot
    {c \in Conversations : entries[c] # 0 /\ found[c] # 0}
Stale(found) == {c \in Conversations : entries[c] # 0 /\ found[c] = 0}

Reconcile ==
    /\ pass.step = "reconcile"
    /\ LET stale == Stale(pass.found)
           Without(f) == [c \in Conversations |->
                            IF c \in stale THEN 0 ELSE f[c]]
       IN  /\ cards' = Without(cards)
           /\ pass' = [pass EXCEPT
                !.step = IF stale = {} THEN "commit" ELSE "saveReconciled",
                !.active = IF stale = {} THEN Nothing ELSE Without(entries)]
    /\ UNCHANGED <<server, account, state, muted, entries, click, history>>

SaveReconciled ==
    /\ pass.step = "saveReconciled"
    /\ entries' = pass.active
    /\ pass' = [pass EXCEPT !.step = "commit", !.active = Nothing]
    /\ UNCHANGED <<server, account, state, muted, cards, click, history>>

FreshAtFirst(found, first) ==            \* faulty: a first pass reports too
    [c \in Conversations |-> IF <<c, found[c]>> \in seen THEN 0 ELSE found[c]]
FreshAfterMarking(found, first) ==       \* faulty: the ids are added first
    [c \in Conversations |->
        IF first \/ <<c, found[c]>> \in seen \union MessagesOf(found)
        THEN 0 ELSE found[c]]
(* A first pass reports nothing; later ones what was never seen.            *)
Fresh(found, first) ==
    [c \in Conversations |->
        IF first \/ <<c, found[c]>> \in seen THEN 0 ELSE found[c]]

(* The ids kept: seen.first() goes until MaxSeen are left.  The set read    *)
(* back has no order, so among the old ones anything may go; the new ones   *)
(* were appended and go last.                                               *)
Remembered(old, new) ==
    IF Cardinality(old \union new) <= MaxSeen THEN {old \union new}
    ELSE {kept \in SUBSET (old \union new) :
            /\ Cardinality(kept) = MaxSeen
            /\ kept \subseteq new \ old \/ new \ old \subseteq kept}

Commit ==
    /\ pass.step = "commit"
    /\ initialized' = TRUE
    /\ cursor' = pass.inbox
    /\ seen' \in Remembered(seen, MessagesOf(pass.found))
    /\ pass' = [NoPass EXCEPT !.step = "credentials",
                              !.fresh = Fresh(pass.found, pass.first)]
    /\ baseline' = IF pass.first
                   THEN baseline \union MessagesOf(pass.found) ELSE baseline
    /\ UNCHANGED <<server, account, muted, shade, click, posted, dropped,
                   removed>>

(* Refreshed credentials, if any, are stored.                               *)
StoreCredentials ==
    /\ pass.step = "credentials"
    /\ pass' = IF pass.fresh = Nothing THEN NoPass
               ELSE [pass EXCEPT !.step = "notify"]
    /\ UNCHANGED <<server, account, state, muted, shade, click, history>>

ChangedOnlyIfNew(fresh) ==               \* faulty: one card per conversation, ever
    {c \in Conversations : fresh[c] # 0 /\ entries[c] = 0}
(* One card per conversation whose entry is not this very message.          *)
Changed(fresh) == {c \in Conversations : fresh[c] # 0 /\ entries[c] # fresh[c]}

Notify ==
    /\ pass.step = "notify" /\ ~muted
    /\ LET changed == Changed(pass.fresh)
           With(f) == [c \in Conversations |->
                        IF c \in changed THEN pass.fresh[c] ELSE f[c]]
       IN  /\ cards' = With(cards)
           /\ pass' = IF changed = {} THEN NoPass
                      ELSE [NoPass EXCEPT !.step = "saveNotified",
                                          !.active = With(entries)]
           /\ posted' = posted \union {<<c, pass.fresh[c]>> : c \in changed}
    /\ UNCHANGED <<server, account, state, muted, entries, click, baseline,
                   dropped, removed>>

NotifyMuted ==
    /\ pass.step = "notify" /\ muted
    /\ pass' = NoPass
    /\ dropped' = dropped \union MessagesOf(pass.fresh)
    /\ UNCHANGED <<server, account, state, muted, shade, click, posted,
                   baseline, removed>>

SaveNotified ==
    /\ pass.step = "saveNotified"
    /\ entries' = pass.active
    /\ pass' = NoPass
    /\ UNCHANGED <<server, account, state, muted, cards, click, history>>

(* What a pass that ends now has recorded as seen and never posts.          *)
Undelivered ==
    IF pass.step \in {"credentials", "notify"} THEN MessagesOf(pass.fresh)
    ELSE {}

(* The provider fails or the worker is cancelled between two attempts, or   *)
(* the refreshed credentials cannot be stored.                              *)
FailPass ==
    /\ pass.step \in {"detect", "credentials"}
    /\ pass' = NoPass
    /\ dropped' = dropped \union Undelivered
    /\ UNCHANGED <<server, account, state, muted, shade, click, posted,
                   baseline, removed>>

(* The process dies; its saved values and the cards survive.                *)
Crash ==
    /\ pass # NoPass \/ click # {}
    /\ pass' = NoPass
    /\ click' = {}
    /\ dropped' = dropped \union Undelivered
    /\ UNCHANGED <<server, account, state, muted, shade, posted, baseline,
                   removed>>

----------------------------------------------------------------------------
PassStep ==
    \/ Detect \/ Reconcile \/ SaveReconciled \/ Commit
    \/ StoreCredentials \/ Notify \/ NotifyMuted \/ SaveNotified

Next ==
    \/ \E c \in Conversations :
        Deliver(c) \/ MarkRead(c) \/ MarkUnread(c) \/ Dismiss(c)
    \/ Mute \/ Enable \/ Disable \/ SaveDismissed
    \/ \E forceSnapshot \in BOOLEAN : Begin(forceSnapshot)
    \/ PassStep \/ FailPass \/ Crash

Spec == Init /\ [][Next]_vars

(* WorkManager runs the periodic work again and again, whatever happened to *)
(* the last run; a run is not for ever the one that fails or dies before it *)
(* has committed, and what follows needs no second chance.                  *)
Fairness ==
    /\ WF_vars(Begin(FALSE))
    /\ SF_vars(Detect) /\ SF_vars(Reconcile)
    /\ SF_vars(SaveReconciled) /\ SF_vars(Commit)
    /\ WF_vars(StoreCredentials \/ Notify \/ NotifyMuted \/ SaveNotified)

FairSpec == Spec /\ Fairness

----------------------------------------------------------------------------
(* Types, and what the saved state of an account that was never synced is.  *)
TypeOK ==
    /\ latest \in Snapshots
    /\ unread \subseteq {c \in Conversations : latest[c] # 0}
    /\ account \in BOOLEAN /\ initialized \in BOOLEAN /\ muted \in BOOLEAN
    /\ cursor \in Snapshots /\ seen \subseteq Messages
    /\ ~initialized => cursor = Nothing /\ seen = {}
    /\ entries \in Snapshots /\ cards \in Snapshots
    /\ pass \in Passes /\ click \subseteq Clicks
    /\ posted \subseteq Messages /\ baseline \subseteq Messages
    /\ dropped \subseteq Messages /\ removed \in BOOLEAN

(* No message disappears between the detection that records it as seen and  *)
(* the card it should have: whatever the account remembers was there before *)
(* the first pass, had its card, is about to get one, or belonged to a pass *)
(* that died or was muted (SyncEngine.kt:33-37).                            *)
NothingLost ==
    seen \subseteq baseline \union posted \union dropped \union Undelivered

(* A message gets at most one card, and none if a first pass found it, over *)
(* read and unread, retries, crashes, dismissals and re-enabling; until the *)
(* account is removed and its memory with it (SyncEngine.kt:31-35).         *)
NotifiedOnce ==
    [][ \A c \in Conversations :
          cards'[c] \notin {0, cards[c]} /\ ~removed
            => <<c, cards'[c]>> \notin posted \union baseline ]_vars

(* When a pass saves what it detected, no card it knows of is left for a    *)
(* conversation that was not unread in its snapshot (NativeNotifier.kt:77). *)
ReadMailHasNoCard ==
    pass.step = "commit" =>
        \A c \in Conversations :
            entries[c] # 0 /\ cards[c] # 0 => pass.inbox[c] # 0

(* New mail of a configured account ends up on a card, unless it is read    *)
(* first, was there before the first pass or belonged to a pass that died.  *)
NewMailIsNotified ==
    \A c \in Conversations :
        account /\ initialized /\ c \in unread
            ~> \/ <<c, latest[c]>> \in posted \union baseline \union dropped
               \/ ~account \/ c \notin unread

=============================================================================
