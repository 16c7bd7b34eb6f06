-------------------------- MODULE AndroidSyncProofs --------------------------
(* Theorems about AndroidSync, for every set of conversations and bounds.   *)
EXTENDS AndroidSync, FiniteSetTheorems, TLAPS

LEMMA MessageOfSnapshot ==
    ASSUME NEW f \in Snapshots, NEW m
    PROVE  m \in MessagesOf(f) <=>
             \E c \in Conversations : f[c] # 0 /\ m = <<c, f[c]>>
  BY DEF MessagesOf, Messages, Snapshots

LEMMA NothingIsEmpty == Nothing \in Snapshots /\ MessagesOf(Nothing) = {}
  BY BoundsAssumption DEF Nothing, Snapshots, Numbers, MessagesOf, Messages

LEMMA NoPassTyped == NoPass \in Passes /\ NoPass.step = "none"
  BY NothingIsEmpty DEF NoPass, Passes, Steps

LEMMA InboxTyped == ASSUME TypeOK PROVE Inbox \in Snapshots
  BY BoundsAssumption DEF Inbox, TypeOK, Snapshots, Numbers

LEMMA RememberedIsKnown ==
    ASSUME NEW old, NEW new, NEW kept \in Remembered(old, new)
    PROVE  kept \subseteq old \union new
  BY DEF Remembered

(* Every variable keeps its type and an account that was never synced has   *)
(* no cursor and no ids.                                                    *)
LEMMA TypeInit == Init => TypeOK
  <1> SUFFICES ASSUME Init PROVE TypeOK
    OBVIOUS
  <1> USE BoundsAssumption
  <1>1. latest \in Snapshots
    BY DEF Init, Snapshots, Numbers
  <1> QED
    BY <1>1, NothingIsEmpty, NoPassTyped DEF Init, TypeOK


(* The map of cards with some conversations taken from another snapshot.    *)
LEMMA ChoiceTyped ==
    ASSUME NEW f \in Snapshots, NEW g \in Snapshots, NEW S
    PROVE  [c \in Conversations |-> IF c \in S THEN f[c] ELSE g[c]] \in Snapshots
  BY DEF Snapshots

LEMMA WithoutTyped ==
    ASSUME NEW g \in Snapshots, NEW S
    PROVE  [c \in Conversations |-> IF c \in S THEN 0 ELSE g[c]] \in Snapshots
  BY BoundsAssumption DEF Snapshots, Numbers

LEMMA UndeliveredTyped == Undelivered \subseteq Messages
  BY DEF Undelivered, MessagesOf

LEMMA TypeStep == TypeOK /\ [Next]_vars => TypeOK'
  <1> SUFFICES ASSUME TypeOK, [Next]_vars PROVE TypeOK'
    OBVIOUS
  <1> USE NothingIsEmpty, NoPassTyped DEF TypeOK, server, state, shade, history
  <1>1. ASSUME NEW c \in Conversations, Deliver(c) PROVE TypeOK'
    <2>1. latest' \in Snapshots /\ latest'[c] # 0
      BY <1>1, BoundsAssumption DEF Deliver, Snapshots, Numbers
    <2>2. \A d \in Conversations : d # c => latest'[d] = latest[d]
      BY <1>1 DEF Deliver, Snapshots
    <2> QED BY <1>1, <2>1, <2>2 DEF Deliver
  <1>2. ASSUME NEW c \in Conversations, MarkRead(c) \/ MarkUnread(c)
        PROVE TypeOK'
    BY <1>2 DEF MarkRead, MarkUnread
  <1>3. ASSUME NEW c \in Conversations, Dismiss(c) PROVE TypeOK'
    <2>1. cards' \in Snapshots
      BY <1>3, BoundsAssumption DEF Dismiss, Snapshots, Numbers
    <2>2. click' \subseteq Clicks
      BY <1>3 DEF Dismiss, Clicks
    <2> QED BY <1>3, <2>1, <2>2 DEF Dismiss
  <1>4. CASE Mute \/ Enable
    BY <1>4 DEF Mute, Enable
  <1>5. CASE Disable
    <2>1. cards' \in Snapshots
      BY <1>5, BoundsAssumption DEF Disable, Snapshots, Numbers
    <2> QED BY <1>5, <2>1 DEF Disable
  <1>6. CASE SaveDismissed
    <2>1. entries' \in Snapshots
      BY <1>6, BoundsAssumption DEF SaveDismissed, Clicks, Snapshots, Numbers
    <2> QED BY <1>6, <2>1 DEF SaveDismissed
  <1>7. ASSUME NEW forceSnapshot \in BOOLEAN, Begin(forceSnapshot)
        PROVE TypeOK'
    <2>1. pass' \in Passes
      BY <1>7 DEF Begin, NoPass, Passes, Steps
    <2> QED BY <1>7, <2>1 DEF Begin
  <1>8. CASE Detect
    <2>1. Inbox \in Snapshots
      BY InboxTyped
    <2>2. [c \in Conversations |->
             IF Inbox[c] = pass.base[c] THEN 0 ELSE Inbox[c]] \in Snapshots
      BY <2>1, BoundsAssumption DEF Snapshots, Numbers
    <2>3. pass' \in Passes
      BY <1>8, <2>1, <2>2 DEF Detect, Passes, Steps
    <2> QED BY <1>8, <2>3 DEF Detect
  <1>9. CASE Reconcile
    <2>1. PICK stale : stale = Stale(pass.found)
      OBVIOUS
    <2>2. /\ [c \in Conversations |-> IF c \in stale THEN 0 ELSE cards[c]]
               \in Snapshots
          /\ [c \in Conversations |-> IF c \in stale THEN 0 ELSE entries[c]]
               \in Snapshots
      BY WithoutTyped
    <2>3. cards' \in Snapshots /\ pass' \in Passes
      BY <1>9, <2>1, <2>2 DEF Reconcile, Passes, Steps
    <2> QED BY <1>9, <2>3 DEF Reconcile
  <1>10. CASE SaveReconciled
    <2>1. pass' \in Passes /\ entries' \in Snapshots
      BY <1>10 DEF SaveReconciled, Passes, Steps
    <2> QED BY <1>10, <2>1 DEF SaveReconciled
  <1>11. CASE Commit
    <2>1. Fresh(pass.found, pass.first) \in Snapshots
      BY BoundsAssumption DEF Fresh, Passes, Snapshots, Numbers
    <2>2. pass' \in Passes /\ cursor' \in Snapshots
      BY <1>11, <2>1 DEF Commit, NoPass, Passes, Steps
    <2>3. seen' \subseteq seen \union MessagesOf(pass.found)
      BY <1>11, RememberedIsKnown DEF Commit
    <2>4. MessagesOf(pass.found) \subseteq Messages
      BY DEF MessagesOf
    <2> QED BY <1>11, <2>2, <2>3, <2>4 DEF Commit
  <1>12. CASE StoreCredentials
    <2>1. pass' \in Passes
      BY <1>12 DEF StoreCredentials, Passes, Steps
    <2> QED BY <1>12, <2>1 DEF StoreCredentials
  <1>13. CASE Notify
    <2>1. PICK changed : changed = Changed(pass.fresh)
      OBVIOUS
    <2>2. pass.fresh \in Snapshots
      BY DEF Passes
    <2>3. /\ [c \in Conversations |->
               IF c \in changed THEN pass.fresh[c] ELSE cards[c]] \in Snapshots
          /\ [c \in Conversations |->
               IF c \in changed THEN pass.fresh[c] ELSE entries[c]] \in Snapshots
      BY <2>2, ChoiceTyped
    <2>4. cards' \in Snapshots /\ pass' \in Passes
      BY <1>13, <2>1, <2>3 DEF Notify, NoPass, Passes, Steps
    <2>5. {<<c, pass.fresh[c]>> : c \in changed} \subseteq Messages
      BY <2>1, <2>2 DEF Changed, Messages, Snapshots
    <2> QED BY <1>13, <2>1, <2>4, <2>5 DEF Notify
  <1>14. CASE NotifyMuted
    <2>1. MessagesOf(pass.fresh) \subseteq Messages
      BY DEF MessagesOf
    <2> QED BY <1>14, <2>1 DEF NotifyMuted
  <1>15. CASE SaveNotified
    <2>1. entries' \in Snapshots
      BY <1>15 DEF SaveNotified, Passes
    <2> QED BY <1>15, <2>1 DEF SaveNotified
  <1>16. CASE FailPass \/ Crash
    BY <1>16, UndeliveredTyped DEF FailPass, Crash
  <1>17. CASE UNCHANGED vars
    BY <1>17 DEF vars
  <1> QED
    BY <1>1, <1>2, <1>3, <1>4, <1>5, <1>6, <1>7, <1>8, <1>9, <1>10, <1>11,
       <1>12, <1>13, <1>14, <1>15, <1>16, <1>17 DEF Next, PassStep

(* The type invariant holds for every inbox and every bound.                *)
THEOREM TypeCorrect == Spec => []TypeOK
  BY TypeInit, TypeStep, PTL DEF Spec

----------------------------------------------------------------------------
(* What the application thinks it shows was posted once: without this, the  *)
(* message notify leaves out because its entry is already there could be    *)
(* one that never had a card.                                               *)
EntriesPosted ==
    /\ MessagesOf(entries) \subseteq posted
    /\ MessagesOf(pass.active) \subseteq posted
    /\ \A k \in click : MessagesOf(k.active) \subseteq posted

Inv == NothingLost /\ EntriesPosted

LEMMA InvInit == Init => Inv
  BY NothingIsEmpty DEF Init, Inv, NothingLost, EntriesPosted, Undelivered, NoPass

LEMMA SmallerMessages ==
    ASSUME NEW f \in Snapshots, NEW g \in Snapshots,
           \A c \in Conversations : g[c] \in {0, f[c]}
    PROVE  MessagesOf(g) \subseteq MessagesOf(f)
  BY DEF MessagesOf, Messages, Snapshots

(* Steps that leave the pass, what it remembers and the histories alone.    *)
LEMMA InvKept ==
    ASSUME Inv, seen' \subseteq seen, UNCHANGED <<pass, posted, baseline, dropped>>,
           MessagesOf(entries') \subseteq posted,
           \A k \in click' : MessagesOf(k.active) \subseteq posted
    PROVE  Inv'
  BY DEF Inv, NothingLost, EntriesPosted, Undelivered

LEMMA InvStep == TypeOK /\ Inv /\ [Next]_vars => Inv'
  <1> SUFFICES ASSUME TypeOK, Inv, [Next]_vars PROVE Inv'
    OBVIOUS
  <1> USE DEF server, state, shade, history
  <1>0. /\ entries \in Snapshots /\ pass \in Passes /\ click \subseteq Clicks
        /\ seen \subseteq baseline \union posted \union dropped \union Undelivered
        /\ MessagesOf(entries) \subseteq posted
        /\ MessagesOf(pass.active) \subseteq posted
        /\ \A k \in click : MessagesOf(k.active) \subseteq posted
    BY DEF TypeOK, Inv, NothingLost, EntriesPosted
  <1>1. ASSUME NEW c \in Conversations,
               Deliver(c) \/ MarkRead(c) \/ MarkUnread(c)
        PROVE Inv'
    BY <1>0, <1>1, InvKept DEF Deliver, MarkRead, MarkUnread
  <1>2. ASSUME NEW c \in Conversations, Dismiss(c) PROVE Inv'
    BY <1>0, <1>2, InvKept DEF Dismiss
  <1>3. CASE Mute \/ Enable
    BY <1>0, <1>3, InvKept DEF Mute, Enable
  <1>4. CASE Disable
    <2>1. MessagesOf(entries') = {}
      BY <1>4, NothingIsEmpty DEF Disable
    <2> QED BY <1>0, <1>4, <2>1, InvKept DEF Disable
  <1>5. CASE SaveDismissed
    <2>1. PICK k \in click : entries' = [k.active EXCEPT ![k.conversation] = 0]
      BY <1>5 DEF SaveDismissed
    <2>2. k.active \in Snapshots
      BY <1>0 DEF Clicks
    <2>3. entries' \in Snapshots /\ \A c \in Conversations : entries'[c] \in {0, k.active[c]}
      <3>1. ASSUME NEW f \in Snapshots, NEW d, NEW g, g = [f EXCEPT ![d] = 0]
            PROVE  g \in Snapshots /\ \A c \in Conversations : g[c] \in {0, f[c]}
        <4>1. g = [c \in Conversations |-> IF c = d THEN 0 ELSE f[c]]
          BY <3>1 DEF Snapshots
        <4> QED BY <4>1, BoundsAssumption DEF Snapshots, Numbers
      <3> QED BY <2>1, <2>2, <3>1
    <2>4. MessagesOf(entries') \subseteq posted
      BY <1>0, <2>2, <2>3, SmallerMessages
    <2> QED BY <1>0, <1>5, <2>4, InvKept DEF SaveDismissed
  <1>6. ASSUME NEW forceSnapshot \in BOOLEAN, Begin(forceSnapshot) PROVE Inv'
    <2>1. pass'.step = "detect" /\ pass'.active = Nothing
      BY <1>6 DEF Begin, NoPass
    <2>2. Undelivered = {}
      BY <1>6 DEF Begin, Undelivered
    <2> QED BY <1>0, <1>6, <2>1, <2>2, NothingIsEmpty
            DEF Begin, Inv, NothingLost, EntriesPosted, Undelivered
  <1>7. CASE Detect
    <2>1. pass'.step = "reconcile" /\ pass'.active = pass.active
      BY <1>0, <1>7 DEF Detect, Passes
    <2>2. Undelivered = {}
      BY <1>7 DEF Detect, Undelivered
    <2> QED BY <1>0, <1>7, <2>1, <2>2
            DEF Detect, Inv, NothingLost, EntriesPosted, Undelivered
  <1>8. CASE Reconcile
    <2> DEFINE kept == [c \in Conversations |->
                          IF c \in Stale(pass.found) THEN 0 ELSE entries[c]]
    <2>1. kept \in Snapshots /\ \A c \in Conversations : kept[c] \in {0, entries[c]}
      BY <1>0, BoundsAssumption DEF Snapshots, Numbers
    <2>2. MessagesOf(kept) \subseteq posted
      BY <1>0, <2>1, SmallerMessages
    <2>3. /\ pass'.step \in {"commit", "saveReconciled"}
          /\ pass'.active \in {Nothing, kept}
      BY <1>0, <1>8 DEF Reconcile, Passes
    <2>4. MessagesOf(pass'.active) \subseteq posted
      BY <2>2, <2>3, NothingIsEmpty
    <2>5. Undelivered = {}
      BY <1>8 DEF Reconcile, Undelivered
    <2> QED BY <1>0, <1>8, <2>3, <2>4, <2>5
            DEF Reconcile, Inv, NothingLost, EntriesPosted, Undelivered
  <1>9. CASE SaveReconciled
    <2>1. pass'.step = "commit" /\ pass'.active = Nothing /\ entries' = pass.active
      BY <1>0, <1>9 DEF SaveReconciled, Passes
    <2>2. Undelivered = {}
      BY <1>9 DEF SaveReconciled, Undelivered
    <2> QED BY <1>0, <1>9, <2>1, <2>2, NothingIsEmpty
            DEF SaveReconciled, Inv, NothingLost, EntriesPosted, Undelivered
  <1>10. CASE Commit
    <2>1. pass.found \in Snapshots
      BY <1>0 DEF Passes
    <2>2. pass'.step = "credentials" /\ pass'.active = Nothing
          /\ pass'.fresh = Fresh(pass.found, pass.first)
      BY <1>10 DEF Commit, NoPass
    <2>3. pass'.fresh \in Snapshots
      BY <2>1, <2>2, BoundsAssumption DEF Fresh, Snapshots, Numbers
    <2>4. Undelivered = {}
      BY <1>10 DEF Commit, Undelivered
    <2>5. Undelivered' = MessagesOf(pass'.fresh)
      BY <2>2 DEF Undelivered, MessagesOf
    <2>6. ASSUME NEW m \in MessagesOf(pass.found)
          PROVE  m \in seen \union baseline' \union MessagesOf(pass'.fresh)
      <3>1. PICK c \in Conversations :
                pass.found[c] # 0 /\ m = <<c, pass.found[c]>>
        BY <2>1, <2>6, MessageOfSnapshot
      <3>2. CASE pass.first
        BY <1>10, <2>6, <3>2 DEF Commit
      <3>3. CASE ~pass.first /\ m \notin seen
        <4>1. pass'.fresh[c] = pass.found[c]
          BY <2>2, <3>1, <3>3 DEF Fresh
        <4> QED BY <2>3, <3>1, <4>1, MessageOfSnapshot
      <3> QED BY <3>2, <3>3
    <2>7. seen' \subseteq seen \union MessagesOf(pass.found)
      BY <1>10, RememberedIsKnown DEF Commit
    <2>8. baseline \subseteq baseline' /\ UNCHANGED <<entries, click, posted, dropped>>
      BY <1>10 DEF Commit
    <2>9. NothingLost'
      BY <1>0, <2>4, <2>5, <2>6, <2>7, <2>8 DEF NothingLost
    <2> QED BY <1>0, <2>2, <2>8, <2>9, NothingIsEmpty DEF Inv, EntriesPosted
  <1>11. CASE StoreCredentials
    <2>1. CASE pass.fresh = Nothing
      <3>1. Undelivered = {}
        BY <1>11, <2>1, NothingIsEmpty DEF Undelivered
      <3> QED BY <1>0, <1>11, <2>1, <3>1, NothingIsEmpty
              DEF StoreCredentials, NoPass, Inv, NothingLost, EntriesPosted, Undelivered
    <2>2. CASE pass.fresh # Nothing
      <3>1. pass'.step = "notify" /\ pass'.active = pass.active
            /\ pass'.fresh = pass.fresh
        BY <1>0, <1>11, <2>2 DEF StoreCredentials, Passes
      <3>2. Undelivered' = Undelivered
        BY <1>11, <3>1 DEF StoreCredentials, Undelivered, MessagesOf
      <3> QED BY <1>0, <1>11, <3>1, <3>2
              DEF StoreCredentials, Inv, NothingLost, EntriesPosted
    <2> QED BY <2>1, <2>2
  <1>12. CASE Notify
    <2> DEFINE changed == Changed(pass.fresh)
               shown == [c \in Conversations |->
                          IF c \in changed THEN pass.fresh[c] ELSE entries[c]]
    <2>1. pass.fresh \in Snapshots
      BY <1>0 DEF Passes
    <2>2. shown \in Snapshots
      BY <1>0, <2>1, ChoiceTyped
    <2>3. /\ posted' = posted \union {<<c, pass.fresh[c]>> : c \in changed}
          /\ pass' = NoPass \/ (pass'.step = "saveNotified" /\ pass'.active = shown)
          /\ UNCHANGED <<seen, entries, click, baseline, dropped>>
      BY <1>12 DEF Notify, NoPass
    <2>4. MessagesOf(shown) \subseteq posted'
      BY <1>0, <2>2, <2>3, MessageOfSnapshot
    <2>5. MessagesOf(pass.fresh) \subseteq posted'
      BY <1>0, <2>1, <2>3, MessageOfSnapshot DEF Changed
    <2>6. Undelivered = MessagesOf(pass.fresh)
      BY <1>12 DEF Notify, Undelivered
    <2>7. MessagesOf(pass'.active) \subseteq posted'
      BY <2>3, <2>4, NothingIsEmpty DEF NoPass
    <2>8. NothingLost'
      BY <1>0, <2>3, <2>5, <2>6 DEF NothingLost
    <2> QED BY <1>0, <2>3, <2>7, <2>8 DEF Inv, EntriesPosted
  <1>13. CASE NotifyMuted
    <2>1. Undelivered = MessagesOf(pass.fresh)
      BY <1>13 DEF NotifyMuted, Undelivered
    <2> QED BY <1>0, <1>13, <2>1, NothingIsEmpty
            DEF NotifyMuted, NoPass, Inv, NothingLost, EntriesPosted
  <1>14. CASE SaveNotified
    <2>1. Undelivered = {}
      BY <1>14 DEF SaveNotified, Undelivered
    <2> QED BY <1>0, <1>14, <2>1, NothingIsEmpty
            DEF SaveNotified, NoPass, Inv, NothingLost, EntriesPosted
  <1>15. CASE FailPass \/ Crash
    <2>1. UNCHANGED <<entries, seen, posted, baseline>>
          /\ pass' = NoPass /\ click' \subseteq click
          /\ dropped' = dropped \union Undelivered
      BY <1>15 DEF FailPass, Crash
    <2> QED BY <1>0, <2>1, NothingIsEmpty
            DEF NoPass, Inv, NothingLost, EntriesPosted
  <1>16. CASE UNCHANGED vars
    BY <1>0, <1>16, InvKept DEF vars
  <1> QED
    BY <1>1, <1>2, <1>3, <1>4, <1>5, <1>6, <1>7, <1>8, <1>9, <1>10, <1>11,
       <1>12, <1>13, <1>14, <1>15, <1>16 DEF Next, PassStep

(* No message that the account remembers as seen misses its card, except    *)
(* those of a first pass and of a pass that died or was muted.              *)
THEOREM NoMessageLost == Spec => []NothingLost
  <1>1. Inv => NothingLost
    BY DEF Inv
  <1> QED
    BY <1>1, InvInit, InvStep, TypeInit, TypeStep, PTL DEF Spec

----------------------------------------------------------------------------
(* The receiver writes back an older map, so that the entry of a card may   *)
(* come back: not of a card that reconcile has cancelled.                   *)
Saving == pass.step \in {"saveReconciled", "saveNotified"}

(* What is found is in the snapshot, and so is what reconcile leaves.       *)
FoundIsUnread ==
    \A c \in Conversations :
        /\ pass.step = "reconcile" /\ pass.found[c] # 0 => pass.inbox[c] # 0
        /\ pass.step = "saveReconciled" /\ pass.active[c] # 0 => pass.inbox[c] # 0

(* A map about to be saved has every card the saved one knows.              *)
SavedKnowsCards ==
    \A c \in Conversations :
        Saving /\ cards[c] # 0 /\ entries[c] # 0 => pass.active[c] # 0

(* A card that a dismissal has read is in the saved map, or in the one      *)
(* notify is about to save.                                                 *)
ClickKnowsCards ==
    \A k \in click, c \in Conversations :
        k.active[c] # 0 /\ cards[c] # 0 =>
            entries[c] # 0 \/ (pass.step = "saveNotified" /\ pass.active[c] # 0)

CardInv == FoundIsUnread /\ SavedKnowsCards /\ ClickKnowsCards /\ ReadMailHasNoCard

LEMMA CardInit == Init => CardInv
  BY DEF Init, CardInv, FoundIsUnread, SavedKnowsCards, ClickKnowsCards,
         ReadMailHasNoCard, Saving, NoPass

(* Steps that leave pass and maps alone, but for cards that go.             *)
LEMMA CardKept ==
    ASSUME CardInv, UNCHANGED <<entries, pass>>,
           \A c \in Conversations : cards'[c] # 0 => cards[c] # 0,
           \A k \in click' : k \in click \/ k.active = entries
    PROVE  CardInv'
  BY DEF CardInv, FoundIsUnread, SavedKnowsCards, ClickKnowsCards,
         ReadMailHasNoCard, Saving

(* A pass that goes on to, or ends in, a step where it saves no map.        *)
LEMMA CardPass ==
    ASSUME CardInv, UNCHANGED <<entries, cards>>, click' \subseteq click,
           pass.step # "saveNotified" \/ click' = {},
           pass'.step \notin {"reconcile", "saveReconciled", "saveNotified", "commit"}
    PROVE  CardInv'
  BY DEF CardInv, FoundIsUnread, SavedKnowsCards, ClickKnowsCards,
         ReadMailHasNoCard, Saving

LEMMA CardStep == TypeOK /\ CardInv /\ [Next]_vars => CardInv'
  <1> SUFFICES ASSUME TypeOK, CardInv, [Next]_vars PROVE CardInv'
    OBVIOUS
  <1> USE DEF server, state, shade, history
  <1>0. /\ entries \in Snapshots /\ cards \in Snapshots
        /\ pass \in Passes /\ click \subseteq Clicks
    BY DEF TypeOK
  <1>1. ASSUME NEW c \in Conversations,
               Deliver(c) \/ MarkRead(c) \/ MarkUnread(c)
        PROVE CardInv'
    BY <1>1, CardKept DEF Deliver, MarkRead, MarkUnread
  <1>2. ASSUME NEW c \in Conversations, Dismiss(c) PROVE CardInv'
    <2>1. \A d \in Conversations : cards'[d] # 0 => cards[d] # 0
      BY <1>0, <1>2 DEF Dismiss, Snapshots
    <2> QED BY <1>2, <2>1, CardKept DEF Dismiss
  <1>3. CASE Mute \/ Enable
    BY <1>3, CardKept DEF Mute, Enable
  <1>4. CASE Disable
    <2>1. /\ \A c \in Conversations : /\ entries'[c] = 0
                                      /\ cards'[c] # 0 => cards[c] # 0 /\ entries[c] = 0
          /\ UNCHANGED <<pass, click>>
      BY <1>4 DEF Disable, Nothing
    <2> QED BY <2>1 DEF CardInv, FoundIsUnread, SavedKnowsCards, ClickKnowsCards,
                        ReadMailHasNoCard, Saving
  <1>5. CASE SaveDismissed
    <2>1. PICK k \in click : entries' = [k.active EXCEPT ![k.conversation] = 0]
      BY <1>5 DEF SaveDismissed
    <2>2. \A c \in Conversations : entries'[c] # 0 => k.active[c] # 0
      BY <1>0, <2>1 DEF Clicks, Snapshots
    <2>3. click' = {} /\ UNCHANGED <<cards, pass>>
      BY <1>5 DEF SaveDismissed
    <2> QED BY <2>2, <2>3 DEF CardInv, FoundIsUnread, SavedKnowsCards, ClickKnowsCards,
                              ReadMailHasNoCard, Saving
  <1>6. ASSUME NEW forceSnapshot \in BOOLEAN, Begin(forceSnapshot) PROVE CardInv'
    <2>1. pass'.step = "detect"
      BY <1>6 DEF Begin, NoPass
    <2> QED BY <1>6, <2>1, CardPass DEF Begin
  <1>7. CASE Detect
    <2>1. /\ pass'.step = "reconcile"
          /\ \A c \in Conversations : pass'.found[c] # 0 => pass'.inbox[c] # 0
      BY <1>0, <1>7 DEF Detect, Passes
    <2>2. pass.step = "detect" /\ UNCHANGED <<entries, cards, click>>
      BY <1>7 DEF Detect
    <2> QED BY <2>1, <2>2 DEF CardInv, FoundIsUnread, SavedKnowsCards, ClickKnowsCards,
                              ReadMailHasNoCard, Saving
  <1>8. CASE Reconcile
    <2> DEFINE kept == [c \in Conversations |->
                          IF c \in Stale(pass.found) THEN 0 ELSE entries[c]]
    <2>1. /\ \A c \in Conversations :
               cards'[c] # 0 => cards[c] # 0 /\ c \notin Stale(pass.found)
          /\ pass.step = "reconcile" /\ UNCHANGED <<entries, click>>
      BY <1>8 DEF Reconcile
    <2>2. pass'.inbox = pass.inbox /\ pass'.found = pass.found
      BY <1>0, <1>8 DEF Reconcile, Passes
    <2>3. \/ pass'.step = "commit"
          \/ pass'.step = "saveReconciled" /\ pass'.active = kept
      BY <1>0, <1>8 DEF Reconcile, Passes
    <2>4. \A c \in Conversations :
            entries[c] # 0 /\ c \notin Stale(pass.found) => pass.inbox[c] # 0
      BY <2>1 DEF Stale, CardInv, FoundIsUnread
    <2>5. \A c \in Conversations :
            kept[c] # 0 <=> entries[c] # 0 /\ c \notin Stale(pass.found)
      OBVIOUS
    <2>6. \A c \in Conversations : cards'[c] # 0 => cards[c] # 0
      BY <2>1
    <2>7. FoundIsUnread'
      BY <2>2, <2>3, <2>4, <2>5 DEF FoundIsUnread
    <2>8. SavedKnowsCards'
      BY <2>1, <2>3, <2>5 DEF SavedKnowsCards, Saving
    <2>9. ClickKnowsCards'
      BY <2>1, <2>6 DEF CardInv, ClickKnowsCards
    <2>10. ReadMailHasNoCard'
      BY <2>1, <2>2, <2>4 DEF ReadMailHasNoCard
    <2> QED BY <2>7, <2>8, <2>9, <2>10 DEF CardInv
  <1>9. CASE SaveReconciled
    <2>1. /\ pass.step = "saveReconciled" /\ entries' = pass.active
          /\ pass'.step = "commit" /\ pass'.inbox = pass.inbox
          /\ UNCHANGED <<cards, click>>
      BY <1>0, <1>9 DEF SaveReconciled, Passes
    <2> QED BY <2>1 DEF CardInv, FoundIsUnread, SavedKnowsCards, ClickKnowsCards,
                        ReadMailHasNoCard, Saving
  <1>10. CASE Commit
    <2>1. pass'.step = "credentials" /\ pass.step = "commit"
      BY <1>10 DEF Commit, NoPass
    <2> QED BY <1>10, <2>1, CardPass DEF Commit
  <1>11. CASE StoreCredentials
    <2>1. pass'.step \in {"none", "notify"} /\ pass.step = "credentials"
      BY <1>0, <1>11, NoPassTyped DEF StoreCredentials, Passes
    <2> QED BY <1>11, <2>1, CardPass DEF StoreCredentials
  <1>12. CASE Notify
    <2> DEFINE changed == Changed(pass.fresh)
               shown == [c \in Conversations |->
                          IF c \in changed THEN pass.fresh[c] ELSE entries[c]]
    <2>1. /\ pass.step = "notify" /\ UNCHANGED <<entries, click>>
          /\ cards' = [c \in Conversations |->
                         IF c \in changed THEN pass.fresh[c] ELSE cards[c]]
      BY <1>12 DEF Notify
    <2>2. \/ pass'.step = "none" /\ changed = {}
          \/ pass'.step = "saveNotified" /\ pass'.active = shown
      BY <1>12 DEF Notify, NoPass
    <2>3. \A c \in changed : c \in Conversations /\ pass.fresh[c] # 0
      BY DEF Changed
    <2>4. \A c \in Conversations : shown[c] # 0 <=> (c \in changed \/ entries[c] # 0)
      BY <2>3
    <2>5. \A c \in Conversations : cards'[c] # 0 <=> (c \in changed \/ cards[c] # 0)
      BY <2>1, <2>3
    <2>6. ClickKnowsCards'
      BY <2>1, <2>2, <2>4, <2>5 DEF CardInv, ClickKnowsCards
    <2>7. SavedKnowsCards'
      BY <2>1, <2>2, <2>4 DEF SavedKnowsCards, Saving
    <2>8. FoundIsUnread' /\ ReadMailHasNoCard'
      BY <2>2 DEF FoundIsUnread, ReadMailHasNoCard
    <2> QED BY <2>6, <2>7, <2>8 DEF CardInv
  <1>13. CASE NotifyMuted
    <2>1. pass'.step = "none" /\ pass.step = "notify"
      BY <1>13, NoPassTyped DEF NotifyMuted
    <2> QED BY <1>13, <2>1, CardPass DEF NotifyMuted
  <1>14. CASE SaveNotified
    <2>1. /\ pass.step = "saveNotified" /\ entries' = pass.active
          /\ pass'.step = "none" /\ UNCHANGED <<cards, click>>
      BY <1>14, NoPassTyped DEF SaveNotified
    <2> QED BY <2>1 DEF CardInv, FoundIsUnread, SavedKnowsCards, ClickKnowsCards,
                        ReadMailHasNoCard, Saving
  <1>15. CASE FailPass \/ Crash
    <2>1. /\ pass'.step = "none" /\ UNCHANGED <<entries, cards>>
          /\ click' \subseteq click
          /\ pass.step # "saveNotified" \/ click' = {}
      BY <1>15, NoPassTyped DEF FailPass, Crash
    <2> QED BY <2>1, CardPass
  <1>16. CASE UNCHANGED vars
    BY <1>16, CardKept DEF vars
  <1> QED
    BY <1>1, <1>2, <1>3, <1>4, <1>5, <1>6, <1>7, <1>8, <1>9, <1>10, <1>11,
       <1>12, <1>13, <1>14, <1>15, <1>16 DEF Next, PassStep

(* When a pass saves what it detected, no card the saved map knows is left  *)
(* for mail that was not unread, whatever dismissals wrote back meanwhile.  *)
THEOREM ReadMailLosesCard == Spec => []ReadMailHasNoCard
  <1>1. CardInv => ReadMailHasNoCard
    BY DEF CardInv
  <1> QED
    BY <1>1, CardInit, CardStep, TypeInit, TypeStep, PTL DEF Spec

----------------------------------------------------------------------------
(* What a delivery can be, and the mailbox that fits in the ids remembered: *)
(* beyond MaxSeen the oldest id goes, and its message is new once more when *)
(* it is marked unread.                                                     *)
Deliveries == Conversations \X (Numbers \ {0})
AllFit == IsFiniteSet(Deliveries) /\ Cardinality(Deliveries) <= MaxSeen

LEMMA MessagesAreDeliveries ==
    ASSUME NEW f PROVE MessagesOf(f) \subseteq Deliveries
  BY DEF MessagesOf, Messages, Deliveries

LEMMA NothingIsForgotten ==
    ASSUME AllFit, NEW old, NEW new, NEW kept \in Remembered(old, new),
           old \subseteq Deliveries, new \subseteq Deliveries
    PROVE  kept = old \union new
  <1>1. Cardinality(old \union new) <= Cardinality(Deliveries)
        /\ Cardinality(old \union new) \in Nat /\ Cardinality(Deliveries) \in Nat
    BY FS_Subset, FS_CardinalityType DEF AllFit
  <1>2. Cardinality(old \union new) <= MaxSeen
    BY <1>1, BoundsAssumption DEF AllFit
  <1> QED
    BY <1>2 DEF Remembered

(* Until the account is removed, what had a card or was there at first is   *)
(* remembered, and what a committed pass will report is neither: it is      *)
(* remembered too, so that no later pass reports it again.                  *)
Reporting == pass.step \in {"credentials", "notify"}
Known == ~removed => posted \union baseline \subseteq seen
Unposted ==
    ~removed /\ Reporting =>
        /\ MessagesOf(pass.fresh) \subseteq seen
        /\ MessagesOf(pass.fresh) \intersect (posted \union baseline) = {}
OnceInv == seen \subseteq Deliveries /\ Known /\ Unposted

NewCardIsFirst ==
    \A c \in Conversations :
        cards'[c] \notin {0, cards[c]} /\ ~removed
            => <<c, cards'[c]>> \notin posted \union baseline

LEMMA OnceInit == Init => OnceInv
  BY DEF Init, OnceInv, Known, Unposted, Reporting, NoPass

(* Steps that record nothing: cards may go, a pass may end.                 *)
LEMMA OnceKept ==
    ASSUME OnceInv, UNCHANGED <<seen, posted, baseline, removed>>,
           Reporting' => Reporting /\ pass'.fresh = pass.fresh,
           \A c \in Conversations : cards'[c] \in {0, cards[c]}
    PROVE  OnceInv' /\ NewCardIsFirst
  <1>1. OnceInv'
    BY DEF OnceInv, Known, Unposted, MessagesOf
  <1> QED
    BY <1>1 DEF NewCardIsFirst

LEMMA OnceStep ==
    ASSUME AllFit, TypeOK, OnceInv, [Next]_vars
    PROVE  OnceInv' /\ [NewCardIsFirst]_vars
  <1> USE DEF server, state, shade, history
  <1>0. /\ cards \in Snapshots /\ entries \in Snapshots
        /\ pass \in Passes /\ removed \in BOOLEAN
        /\ seen \subseteq Deliveries
    BY DEF TypeOK, OnceInv
  <1>1. ASSUME NEW c \in Conversations,
               Deliver(c) \/ MarkRead(c) \/ MarkUnread(c)
        PROVE  OnceInv' /\ NewCardIsFirst
    BY <1>1, OnceKept DEF Deliver, MarkRead, MarkUnread, Reporting
  <1>2. ASSUME NEW c \in Conversations, Dismiss(c)
        PROVE  OnceInv' /\ NewCardIsFirst
    <2>1. \A d \in Conversations : cards'[d] \in {0, cards[d]}
      BY <1>0, <1>2 DEF Dismiss, Snapshots
    <2> QED BY <1>2, <2>1, OnceKept DEF Dismiss, Reporting
  <1>3. CASE Mute \/ Enable \/ SaveDismissed
    BY <1>3, OnceKept DEF Mute, Enable, SaveDismissed, Reporting
  <1>4. CASE Disable
    <2>1. removed' = TRUE /\ seen' = {}
          /\ \A c \in Conversations : cards'[c] \in {0, cards[c]}
      BY <1>0, <1>4 DEF Disable, Snapshots
    <2> QED BY <2>1 DEF OnceInv, Known, Unposted, NewCardIsFirst
  <1>5. ASSUME NEW forceSnapshot \in BOOLEAN, Begin(forceSnapshot)
        PROVE  OnceInv' /\ NewCardIsFirst
    <2>1. pass'.step = "detect"
      BY <1>5 DEF Begin, NoPass
    <2> QED BY <1>5, <2>1, OnceKept DEF Begin, Reporting
  <1>6. CASE Detect \/ SaveReconciled
    <2>1. pass'.step \in {"reconcile", "commit"}
      BY <1>0, <1>6 DEF Detect, SaveReconciled, Passes
    <2> QED BY <1>6, <2>1, OnceKept DEF Detect, SaveReconciled, Reporting
  <1>7. CASE Reconcile
    <2>1. pass'.step \in {"commit", "saveReconciled"}
      BY <1>0, <1>7 DEF Reconcile, Passes
    <2>2. \A c \in Conversations : cards'[c] \in {0, cards[c]}
      BY <1>7 DEF Reconcile
    <2> QED BY <1>7, <2>1, <2>2, OnceKept DEF Reconcile, Reporting
  <1>8. CASE Commit
    <2> DEFINE found == MessagesOf(pass.found)
    <2>1. /\ pass'.fresh = Fresh(pass.found, pass.first)
          /\ baseline' = IF pass.first THEN baseline \union found ELSE baseline
          /\ UNCHANGED <<cards, posted, removed>>
      BY <1>8 DEF Commit, NoPass
    <2>2. seen' = seen \union found
      BY <1>0, <1>8, NothingIsForgotten, MessagesAreDeliveries DEF Commit
    <2>3. seen' \subseteq Deliveries
      BY <1>0, <2>2, MessagesAreDeliveries
    <2>4. Known'
      BY <2>1, <2>2 DEF OnceInv, Known
    <2>5. pass.found \in Snapshots /\ pass'.fresh \in Snapshots
      BY <1>0, <2>1, BoundsAssumption DEF Passes, Fresh, Snapshots, Numbers
    <2>6. ASSUME NEW m \in MessagesOf(pass'.fresh)
          PROVE  m \in found /\ ~pass.first /\ m \notin seen
      <3>1. PICK c \in Conversations :
                pass'.fresh[c] # 0 /\ m = <<c, pass'.fresh[c]>>
        BY <2>5, <2>6, MessageOfSnapshot
      <3>2. /\ pass'.fresh[c] = pass.found[c] /\ ~pass.first
            /\ <<c, pass.found[c]>> \notin seen
        BY <2>1, <3>1 DEF Fresh
      <3> QED BY <2>5, <3>1, <3>2, MessageOfSnapshot
    <2>7. Unposted'
      BY <2>1, <2>2, <2>6 DEF OnceInv, Known, Unposted
    <2> QED BY <2>1, <2>3, <2>4, <2>7 DEF OnceInv, NewCardIsFirst
  <1>9. CASE StoreCredentials
    <2>1. Reporting' => Reporting /\ pass'.fresh = pass.fresh
      BY <1>0, <1>9 DEF StoreCredentials, Reporting, NoPass, Passes
    <2> QED BY <1>9, <2>1, OnceKept DEF StoreCredentials
  <1>10. CASE Notify
    <2> DEFINE changed == Changed(pass.fresh)
               new == {<<c, pass.fresh[c]>> : c \in changed}
    <2>1. /\ Reporting /\ ~Reporting'
          /\ posted' = posted \union new
          /\ cards' = [c \in Conversations |->
                         IF c \in changed THEN pass.fresh[c] ELSE cards[c]]
          /\ UNCHANGED <<seen, baseline, removed>>
      BY <1>10 DEF Notify, NoPass, Reporting
    <2>2. pass.fresh \in Snapshots
      BY <1>0 DEF Passes
    <2>3. \A c \in changed : c \in Conversations /\ pass.fresh[c] # 0
      BY DEF Changed
    <2>4. new \subseteq MessagesOf(pass.fresh)
      BY <2>2, <2>3, MessageOfSnapshot
    <2>5. OnceInv'
      BY <2>1, <2>4 DEF OnceInv, Known, Unposted
    <2>6. ASSUME NEW c \in Conversations, cards'[c] \notin {0, cards[c]}, ~removed
          PROVE  <<c, cards'[c]>> \notin posted \union baseline
      <3>1. c \in changed /\ cards'[c] = pass.fresh[c]
        BY <2>1, <2>6
      <3> QED BY <2>1, <2>4, <2>6, <3>1 DEF OnceInv, Unposted
    <2> QED BY <2>5, <2>6 DEF NewCardIsFirst
  <1>11. CASE NotifyMuted \/ SaveNotified \/ FailPass \/ Crash
    <2>1. pass'.step = "none"
      BY <1>11, NoPassTyped DEF NotifyMuted, SaveNotified, FailPass, Crash
    <2> QED BY <1>11, <2>1, OnceKept
            DEF NotifyMuted, SaveNotified, FailPass, Crash, Reporting
  <1>12. CASE UNCHANGED vars
    <2>1. OnceInv'
      BY <1>12, OnceKept DEF vars, Reporting
    <2> QED BY <1>12, <2>1
  <1> QED
    BY <1>1, <1>2, <1>3, <1>4, <1>5, <1>6, <1>7, <1>8, <1>9, <1>10, <1>11,
       <1>12 DEF Next, PassStep

(* As long as the ids of the mailbox fit in what is remembered, no message  *)
(* gets a second card, and none of those a first pass found gets one, over  *)
(* read and unread, failures, crashes and dismissals, until the account is  *)
(* removed.                                                                 *)
THEOREM OneCardPerMessage ==
    ASSUME AllFit PROVE Spec => NotifiedOnce
  <1>1. TypeOK /\ OnceInv /\ [Next]_vars => OnceInv' /\ [NewCardIsFirst]_vars
    BY OnceStep
  <1> QED
    BY <1>1, OnceInit, TypeInit, TypeStep, PTL
       DEF Spec, NotifiedOnce, NewCardIsFirst

=============================================================================
