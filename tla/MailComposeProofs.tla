-------------------------- MODULE MailComposeProofs --------------------------
(***************************************************************************)
(* What is written is sent once, or kept: for any texts, number of sends   *)
(* and server copies of a draft.                                           *)
(***************************************************************************)
EXTENDS MailCompose, FiniteSetTheorems, TLAPS

AtMostOne(S) == \A x, y \in S : x = y
Composers == [text : Texts, from : Origins]
Deliveries == [n : 1..MaxSends, text : Texts]

Types == /\ fresh \subseteq Texts /\ queue \subseteq SharedTexts
         /\ shared \subseteq SharedTexts /\ AtMostOne(shared)
         /\ active \in BOOLEAN
         /\ composer \subseteq Composers /\ AtMostOne(composer)
         /\ replyMap \subseteq ReplyTexts
         /\ saving \subseteq Texts /\ drafts \in [Texts -> 0..MaxDrafts]
         /\ hiddenDrafts \subseteq Texts /\ dropped \subseteq Texts /\ wiped \subseteq Texts
         /\ sends \subseteq Sends /\ count \in 0..MaxSends /\ toast \in 0..MaxSends
         /\ delivered \subseteq Deliveries
         /\ cancelled \subseteq 1..MaxSends

LEMMA OneIsFew ==
    ASSUME NEW S, AtMostOne(S) PROVE Cardinality(S) <= 1
  <1>1. CASE S = {}
    BY <1>1, FS_EmptySet
  <1>2. CASE S # {}
    <2>1. PICK x : x \in S
      BY <1>2
    <2>2. S = {x}
      BY <2>1 DEF AtMostOne
    <2>3. Cardinality(S) = 1
      BY <2>2, FS_Singleton
    <2> QED BY <2>3
  <1> QED BY <1>1, <1>2

LEMMA TypesAreTyped == Types => TypeOK
  BY OneIsFew DEF Types, TypeOK, Composers, Deliveries

LEMMA TypesInit == Init => Types
  <1> SUFFICES ASSUME Init PROVE Types
    OBVIOUS
  <1>1. drafts \in [Texts -> 0..MaxDrafts] /\ 0 \in 0..MaxSends
    BY BoundsAssumption DEF Init
  <1> QED BY <1>1 DEF Init, Types, AtMostOne

LEMMA OpenedTyped ==
    ASSUME NEW t \in Texts, NEW origin \in Origins, Opened(t, origin)
    PROVE  composer' \subseteq Composers /\ AtMostOne(composer')
  BY DEF Opened, AtMostOne, Composers

LEMMA TypesStep == Types /\ [Next]_vars => Types'
  <1> SUFFICES ASSUME Types, [Next]_vars PROVE Types'
    OBVIOUS
  <1> USE BoundsAssumption DEF stores, sending
  <1>1. CASE StartNewMessage
    <2>1. /\ fresh' \subseteq fresh /\ composer' \subseteq Composers /\ AtMostOne(composer')
          /\ active' \in BOOLEAN
      <3>1. ASSUME NEW t \in shared, Opened(t, "share"), UNCHANGED fresh
            PROVE  composer' \subseteq Composers /\ AtMostOne(composer') /\ fresh' \subseteq fresh
        BY <3>1, OpenedTyped DEF Types, Texts, Origins
      <3>2. ASSUME NEW t \in NewTexts, Opened(t, "blank"), Written(t)
            PROVE  composer' \subseteq Composers /\ AtMostOne(composer') /\ fresh' \subseteq fresh
        BY <3>2, OpenedTyped DEF Texts, Origins, Written
      <3> QED BY <1>1, <3>1, <3>2 DEF StartNewMessage
    <2> QED BY <1>1, <2>1 DEF StartNewMessage, Types
  <1>2. ASSUME NEW t \in Texts, EventDraft(t) \/ Reply(t) \/ RestoreReply(t) \/ OpenDraft(t)
        PROVE  Types'
    <2>1. composer' \subseteq Composers /\ AtMostOne(composer')
      BY <1>2, OpenedTyped DEF EventDraft, Reply, RestoreReply, OpenDraft, Origins
    <2>2. fresh' \subseteq fresh /\ active' \in BOOLEAN
      BY <1>2 DEF EventDraft, Reply, RestoreReply, OpenDraft, Written, Types
    <2> QED BY <1>2, <2>1, <2>2 DEF EventDraft, Reply, RestoreReply, OpenDraft, Types
  <1>3. ASSUME NEW t \in Texts, RetainShare(t) PROVE Types'
    BY <1>3 DEF RetainShare, Written, Types
  <1>4. ASSUME NEW t \in Texts, ReceiveShare(t) PROVE Types'
    <2>1. composer' \subseteq Composers /\ AtMostOne(composer')
      BY <1>4, OpenedTyped DEF ReceiveShare, Origins
    <2>2. shared' \subseteq SharedTexts /\ AtMostOne(shared') /\ queue' \subseteq SharedTexts
      BY <1>4 DEF ReceiveShare, Types, AtMostOne
    <2> QED BY <1>4, <2>1, <2>2 DEF ReceiveShare, Types
  <1>5. ASSUME NEW t \in Texts, SaveDone(t) \/ SaveFails(t) PROVE Types'
    <2>1. drafts' \in [Texts -> 0..MaxDrafts]
      BY <1>5 DEF SaveDone, SaveFails, Types
    <2> QED BY <1>5, <2>1 DEF SaveDone, SaveFails, Types
  <1>6. ASSUME NEW x \in composer, Close(x) \/ SelectThread(x) PROVE Types'
    <2>1. x.text \in Texts /\ x.from \in Origins
      BY DEF Types, Composers
    <2>2. CASE Close(x)
      <3>1. replyMap' \subseteq ReplyTexts
        BY <2>2 DEF Close, Types
      <3> QED BY <2>1, <2>2, <3>1 DEF Close, Types, AtMostOne
    <2>3. CASE SelectThread(x)
      BY <2>1, <2>3 DEF SelectThread, HandleSaveDraft, Types, AtMostOne
    <2> QED BY <1>6, <2>2, <2>3
  <1>7. ASSUME NEW x \in composer, Discard(x) PROVE Types'
    <2>1. x.text \in Texts
      BY DEF Types, Composers
    <2>2. drafts' \in [Texts -> 0..MaxDrafts]
      BY <1>7, <2>1 DEF Discard, Types
    <2> QED BY <1>7, <2>1, <2>2 DEF Discard, Types, AtMostOne
  <1>8. ASSUME NEW x \in composer, ScheduleSend(x) PROVE Types'
    <2>1. x.text \in Texts
      BY DEF Types, Composers
    <2>2. count' \in 1..MaxSends
      BY <1>8 DEF ScheduleSend, Types
    <2>3. sends' \subseteq Sends
      <3> DEFINE s == [n |-> count + 1, text |-> x.text, draft |-> x.from = "draft",
                       share |-> HoldsShare(x), phase |-> "waiting"]
      <3>1. HoldsShare(x) \in BOOLEAN /\ (x.from = "draft") \in BOOLEAN
        BY DEF HoldsShare
      <3>2. count + 1 \in 1..MaxSends
        BY <1>8, <2>2 DEF ScheduleSend
      <3>3. s \in Sends
        BY <2>1, <3>1, <3>2 DEF Sends
      <3> QED BY <1>8, <3>3 DEF ScheduleSend, Types
    <2> QED BY <1>8, <2>1, <2>2, <2>3 DEF ScheduleSend, KeptUntilSent, Types, AtMostOne
  <1>9. ASSUME NEW s \in sends, Cancel(s) PROVE Types'
    <2>1. s.n \in 1..MaxSends
      BY DEF Types, Sends
    <2>2. composer' \subseteq Composers /\ AtMostOne(composer')
      <3>1. composer' = {x \in composer : x.text \in ReplyTexts} \/ composer' = composer
            \/ composer' = {[text |-> t, from |-> "share"] : t \in shared}
        BY <1>9 DEF Cancel, AfterCancel
      <3> QED BY <3>1 DEF Types, AtMostOne, Composers, Origins, Texts
    <2>3. sends' \subseteq Sends
      BY <1>9 DEF Cancel, Stopped, Types
    <2>5. cancelled' \subseteq 1..MaxSends
      BY <1>9, <2>1 DEF Cancel, Types
    <2>6. 0 \in 0..MaxSends
      OBVIOUS
    <2>4. hiddenDrafts' \subseteq hiddenDrafts /\ toast' = 0
      BY <1>9 DEF Cancel, Shown
    <2> QED BY <1>9, <2>2, <2>3, <2>4, <2>5, <2>6 DEF Cancel, Types
  <1>10. ASSUME NEW s \in sends, Fire(s) \/ Accept(s) PROVE Types'
    <2>1. s \in Sends /\ s.n \in 1..MaxSends /\ s.text \in Texts
      BY DEF Types, Sends
    <2>2. [s EXCEPT !.phase = "sending"] \in Sends /\ [s EXCEPT !.phase = "accepted"] \in Sends
      BY <2>1 DEF Sends
    <2>3. CASE Fire(s)
      BY <2>2, <2>3 DEF Fire, Types
    <2>4. CASE Accept(s)
      BY <2>1, <2>2, <2>4 DEF Accept, Types, Deliveries
    <2> QED BY <1>10, <2>3, <2>4
  <1>11. ASSUME NEW s \in sends, Sent(s) \/ Fails(s) PROVE Types'
    <2>1. s \in Sends /\ s.text \in Texts
      BY DEF Types, Sends
    <2>2. /\ shared' \subseteq SharedTexts /\ AtMostOne(shared') /\ active' \in BOOLEAN
          /\ wiped' \subseteq Texts
      BY <1>11 DEF Sent, Fails, OnSent, Types, AtMostOne, Texts
    <2>3. drafts' \in [Texts -> 0..MaxDrafts]
      BY <1>11, <2>1 DEF Sent, Fails, Deleted, KeptOnFailure, Types
    <2>4. /\ sends' \subseteq sends /\ hiddenDrafts' \subseteq hiddenDrafts
          /\ toast' = 0 /\ 0 \in 0..MaxSends
      BY <1>11 DEF Sent, Fails, Shown
    <2> QED BY <1>11, <2>2, <2>3, <2>4 DEF Sent, Fails, Types
  <1>12. CASE Notice \/ Reload
    <2>1. 0 \in 0..MaxSends
      OBVIOUS
    <2> QED BY <1>12, <2>1 DEF Notice, Reload, Types, AtMostOne
  <1>13. CASE UNCHANGED vars
    BY <1>13 DEF vars, Types
  <1> QED
    BY <1>1, <1>2, <1>3, <1>4, <1>5, <1>6, <1>7, <1>8, <1>9, <1>10, <1>11,
       <1>12, <1>13 DEF Next

(* Every variable keeps its type, and there is one composer and one shared  *)
(* draft.                                                                   *)
THEOREM TypeCorrect == Spec => []TypeOK
  BY TypesInit, TypesStep, TypesAreTyped, PTL DEF Spec

----------------------------------------------------------------------------
(* Sends are numbered apart; one that is delivered is past its undo.        *)
Numbered == /\ \A s \in sends : s.n <= count
            /\ \A s, t \in sends : s.n = t.n => s = t
            /\ \A d \in delivered : d.n <= count
            /\ \A n \in cancelled : n <= count
Decided == /\ \A s \in sends : s.n \notin cancelled
           /\ \A d \in delivered, s \in sends : d.n = s.n => s.phase = "accepted"

SendInv == Numbered /\ Decided /\ CancelledNeverSent

LEMMA SendInit == Init => SendInv
  BY DEF Init, SendInv, Numbered, Decided, CancelledNeverSent

(* Steps that only end sends.                                               *)
LEMMA SendKept ==
    ASSUME SendInv, sends' \subseteq sends, UNCHANGED <<count, delivered, cancelled>>
    PROVE  SendInv'
  BY DEF SendInv, Numbered, Decided, CancelledNeverSent

(* Steps that take a send from one phase to the next.                       *)
LEMMA SendMoves ==
    ASSUME Types, SendInv, NEW s \in sends, NEW phase,
           sends' = (sends \ {s}) \cup {[s EXCEPT !.phase = phase]},
           \/ phase = "sending" /\ s.phase = "waiting" /\ delivered' = delivered
           \/ /\ phase = "accepted"
              /\ delivered' = delivered \cup {[n |-> s.n, text |-> s.text]},
           UNCHANGED <<count, cancelled>>
    PROVE  SendInv'
  <1> DEFINE u == [s EXCEPT !.phase = phase]
  <1>1. u.n = s.n /\ u.phase = phase
    BY DEF Types, Sends
  <1> HIDE DEF u
  <1>2. Numbered'
    <2>1. \A t \in sends' : t.n <= count /\ \E r \in sends : r.n = t.n
      BY <1>1 DEF u, SendInv, Numbered
    <2>2. \A t, r \in sends' : t.n = r.n => t = r
      BY <1>1 DEF u, SendInv, Numbered
    <2>3. \A d \in delivered' : d.n <= count
      BY DEF SendInv, Numbered
    <2> QED BY <2>1, <2>2, <2>3 DEF SendInv, Numbered
  <1>3. Decided'
    <2>1. \A t \in sends' : t.n \notin cancelled'
      BY <1>1 DEF u, SendInv, Decided
    <2>2. ASSUME NEW d \in delivered', NEW t \in sends', d.n = t.n
          PROVE  t.phase = "accepted"
      <3>1. CASE t = u
        BY <1>1, <2>2, <3>1 DEF SendInv, Decided
      <3>2. CASE t \in sends /\ t # s
        BY <2>2, <3>2 DEF SendInv, Numbered, Decided
      <3> QED BY <3>1, <3>2 DEF u
    <2> QED BY <2>1, <2>2 DEF Decided
  <1>4. CancelledNeverSent'
    BY DEF SendInv, Decided, CancelledNeverSent
  <1> QED BY <1>2, <1>3, <1>4 DEF SendInv

LEMMA SendStep == Types /\ SendInv /\ [Next]_vars => SendInv'
  <1> SUFFICES ASSUME Types, SendInv, [Next]_vars PROVE SendInv'
    OBVIOUS
  <1> USE DEF stores, sending
  <1>1. CASE StartNewMessage
    BY <1>1, SendKept DEF StartNewMessage
  <1>2. ASSUME NEW t \in Texts,
               \/ EventDraft(t) \/ Reply(t) \/ RestoreReply(t) \/ OpenDraft(t)
               \/ RetainShare(t) \/ ReceiveShare(t) \/ SaveDone(t) \/ SaveFails(t)
        PROVE  SendInv'
    BY <1>2, SendKept DEF EventDraft, Reply, RestoreReply, OpenDraft, RetainShare, ReceiveShare,
                          SaveDone, SaveFails
  <1>3. ASSUME NEW x \in composer, Close(x) \/ SelectThread(x) \/ Discard(x)
        PROVE  SendInv'
    BY <1>3, SendKept DEF Close, SelectThread, Discard
  <1>4. ASSUME NEW x \in composer, ScheduleSend(x) PROVE SendInv'
    <2>1. /\ count' = count + 1 /\ UNCHANGED <<delivered, cancelled>>
          /\ \A s \in sends' : s \in sends \/ s.n = count + 1
          /\ \A s, t \in sends' : s \notin sends /\ t \notin sends => s = t
      BY <1>4 DEF ScheduleSend
    <2>2. /\ count \in Nat
          /\ \A s \in sends : s.n \in Nat
          /\ \A d \in delivered : d.n \in Nat
          /\ \A n \in cancelled : n \in Nat
      BY DEF Types, Sends, Deliveries
    <2>3. Numbered'
      BY <2>1, <2>2 DEF SendInv, Numbered
    <2>4. Decided'
      BY <2>1, <2>2 DEF SendInv, Numbered, Decided
    <2> QED BY <2>1, <2>3, <2>4 DEF SendInv, CancelledNeverSent
  <1>5. ASSUME NEW s \in sends, Cancel(s) PROVE SendInv'
    <2>1. /\ sends' = sends \ {s} /\ cancelled' = cancelled \cup {s.n}
          /\ s.phase = "waiting" /\ UNCHANGED <<count, delivered>>
      BY <1>5 DEF Cancel, Stopped
    <2>2. \A d \in delivered : d.n # s.n
      BY <2>1 DEF SendInv, Decided
    <2>3. Numbered' /\ Decided'
      BY <2>1 DEF SendInv, Numbered, Decided
    <2> QED BY <2>1, <2>2, <2>3 DEF SendInv, CancelledNeverSent
  <1>6. ASSUME NEW s \in sends, Fire(s) \/ Accept(s) PROVE SendInv'
    BY <1>6, SendMoves DEF Fire, Accept, DueSend
  <1>7. ASSUME NEW s \in sends, Sent(s) \/ Fails(s) PROVE SendInv'
    <2>1. sends' \subseteq sends /\ UNCHANGED <<count, delivered, cancelled>>
      BY <1>7 DEF Sent, Fails
    <2> QED BY <2>1, SendKept
  <1>8. CASE Notice \/ Reload \/ UNCHANGED vars
    BY <1>8, SendKept DEF Notice, Reload, vars
  <1> QED
    BY <1>1, <1>2, <1>3, <1>4, <1>5, <1>6, <1>7, <1>8 DEF Next

(* What the user took back in its ten seconds is never sent, whatever other *)
(* sends, toasts and failures there are (cancel, useMailPageLogic.ts).      *)
THEOREM CancelledStaysUnsent == Spec => []CancelledNeverSent
  <1>1. SendInv => CancelledNeverSent
    BY DEF SendInv
  <1> QED
    BY <1>1, SendInit, SendStep, TypesInit, TypesStep, PTL DEF Spec

----------------------------------------------------------------------------
(* The composer that holds the shared draft is the one that was opened on   *)
(* it, so that what it forgets when it is discarded is what it shows; and a *)
(* send whose answer is there was delivered.                                *)
Holds(x) == /\ x.from = "share" => shared \subseteq {x.text}
            /\ x.from = "blank" /\ x.text \notin ReplyTexts => ~active
            /\ x.from = "map" => x.text \in ReplyTexts

KeptInv == /\ \A x \in composer : Holds(x)
           /\ \A s \in sends : s.phase = "accepted" => Delivered(s.text)
           /\ SharedKept

(* A draft on the server goes when its text was sent or discarded.          *)
DraftMayGo == \A t \in Texts : drafts'[t] < drafts[t] => Delivered(t) \/ t \in dropped'

LEMMA KeptInit == Init => KeptInv
  BY DEF Init, KeptInv, SharedKept, Texts

(* Steps that leave the vault and the server alone, and forget nothing else *)
(* that was shared.                                                         *)
LEMMA KeptByStores ==
    ASSUME Types, KeptInv, UNCHANGED <<shared, delivered>>,
           \A t \in SharedTexts :
             t \in fresh \cup queue \cup dropped \cup wiped
               => t \in fresh' \cup queue' \cup dropped' \cup wiped',
           \A x \in composer' : Holds(x)',
           \A s \in sends' : s.phase = "accepted" => s \in sends
    PROVE  KeptInv'
  <1>1. SharedKept'
    BY DEF KeptInv, SharedKept, Delivered
  <1>2. \A s \in sends' : s.phase = "accepted" => Delivered(s.text)'
    BY DEF KeptInv, Delivered
  <1> QED BY <1>1, <1>2 DEF KeptInv

LEMMA NoDraftGoes ==
    ASSUME Types, Types', \A t \in Texts : drafts'[t] >= drafts[t] PROVE DraftMayGo
  <1>1. \A t \in Texts : drafts[t] \in Nat /\ drafts'[t] \in Nat
    BY BoundsAssumption DEF Types
  <1>2. ASSUME NEW t \in Texts, drafts'[t] < drafts[t] PROVE FALSE
    <2>1. drafts'[t] >= drafts[t]
      OBVIOUS
    <2> QED BY <1>1, <1>2, <2>1
  <1> QED BY <1>2 DEF DraftMayGo

LEMMA SameDrafts == ASSUME Types, drafts' = drafts PROVE DraftMayGo
  <1>1. \A t \in Texts : drafts[t] \in Nat
    BY BoundsAssumption DEF Types
  <1>2. \A t \in Texts : ~(drafts'[t] < drafts[t])
    BY <1>1
  <1> QED BY <1>2 DEF DraftMayGo

(* Only the composer opened on the shared draft forgets it.                 *)
LEMMA HoldsItsShare ==
    ASSUME Types, NEW x \in composer, Holds(x), HoldsShare(x)
    PROVE  x.from = "share" /\ shared \subseteq {x.text}
  BY DEF Types, Composers, Origins, Holds, HoldsShare

(* A draft on the server that is deleted once.                              *)
LEMMA OneLess ==
    ASSUME Types, NEW t \in Texts, drafts' \in {drafts, [drafts EXCEPT ![t] = @ - 1]}
    PROVE  \A u \in Texts : u # t => drafts'[u] = drafts[u]
  BY DEF Types

LEMMA KeptStep == Types /\ KeptInv /\ [Next]_vars => KeptInv' /\ [DraftMayGo]_vars
  <1> SUFFICES ASSUME Types, KeptInv, [Next]_vars PROVE KeptInv' /\ [DraftMayGo]_vars
    OBVIOUS
  <1> USE DEF stores, sending
  <1>1. CASE StartNewMessage
    <2>1. /\ \A t \in SharedTexts : t \in fresh => t \in fresh'
          /\ \A x \in composer' : Holds(x)'
      <3>1. ASSUME NEW t \in shared, Opened(t, "share"), UNCHANGED <<fresh, shared>>
            PROVE  fresh' = fresh /\ \A x \in composer' : Holds(x)'
        <4>1. shared \subseteq {t}
          BY DEF Types, AtMostOne
        <4> QED BY <3>1, <4>1 DEF Opened, Holds
      <3>2. ASSUME NEW t \in NewTexts, Opened(t, "blank"), Written(t), ~active'
            PROVE  /\ \A u \in SharedTexts : u \in fresh => u \in fresh'
                   /\ \A x \in composer' : Holds(x)'
        BY <3>2, KindsAssumption DEF Opened, Written, Holds
      <3> QED BY <1>1, <3>1, <3>2 DEF StartNewMessage
    <2>2. KeptInv'
      BY <1>1, <2>1, KeptByStores DEF StartNewMessage
    <2> QED BY <1>1, <2>2, SameDrafts DEF StartNewMessage
  <1>2. ASSUME NEW t \in Texts, EventDraft(t) \/ Reply(t) \/ RestoreReply(t) \/ OpenDraft(t)
        PROVE  KeptInv' /\ DraftMayGo
    <2>1. \A u \in SharedTexts : u \in fresh => u \in fresh'
      BY <1>2, KindsAssumption DEF EventDraft, Reply, RestoreReply, OpenDraft, Written
    <2>2. \A x \in composer' : Holds(x)'
      BY <1>2, KindsAssumption
      DEF EventDraft, Reply, RestoreReply, OpenDraft, Opened, Holds, Types
    <2>3. /\ UNCHANGED <<shared, delivered, queue, dropped, wiped, sends, drafts>>
      BY <1>2 DEF EventDraft, Reply, RestoreReply, OpenDraft
    <2> QED BY <2>1, <2>2, <2>3, KeptByStores, SameDrafts
  <1>3. ASSUME NEW t \in Texts, RetainShare(t) PROVE KeptInv' /\ DraftMayGo
    <2>1. \A x \in composer' : Holds(x)'
      BY <1>3 DEF RetainShare, KeptInv, Holds
    <2>2. \A u \in SharedTexts : u \in fresh \cup queue => u \in fresh' \cup queue'
      BY <1>3 DEF RetainShare, Written
    <2> QED BY <1>3, <2>1, <2>2, KeptByStores, SameDrafts DEF RetainShare
  <1>4. ASSUME NEW t \in Texts, ReceiveShare(t) PROVE KeptInv' /\ DraftMayGo
    <2>1. /\ shared = {} /\ shared' = {t} /\ queue \subseteq queue' \cup {t}
          /\ UNCHANGED <<fresh, dropped, wiped, delivered, sends, drafts>>
      BY <1>4 DEF ReceiveShare
    <2>2. SharedKept'
      BY <2>1 DEF KeptInv, SharedKept, Delivered
    <2>3. \A x \in composer' : Holds(x)'
      BY <1>4 DEF ReceiveShare, Opened, Holds
    <2>4. \A s \in sends' : s.phase = "accepted" => Delivered(s.text)'
      BY <2>1 DEF KeptInv, Delivered
    <2> QED BY <2>1, <2>2, <2>3, <2>4, SameDrafts DEF KeptInv
  <1>5. ASSUME NEW t \in Texts, SaveDone(t) \/ SaveFails(t)
        PROVE  KeptInv' /\ DraftMayGo
    <2>1. \A x \in composer' : Holds(x)'
      BY <1>5 DEF SaveDone, SaveFails, KeptInv, Holds
    <2>2. KeptInv'
      BY <1>5, <2>1, KeptByStores DEF SaveDone, SaveFails
    <2>3. \A u \in Texts : drafts[u] \in Nat
      BY BoundsAssumption DEF Types
    <2>4. \A u \in Texts : drafts'[u] >= drafts[u]
      BY <1>5, <2>3 DEF SaveDone, SaveFails, Types
    <2> QED BY <2>2, <2>4, NoDraftGoes, TypesStep
  <1>6. ASSUME NEW x \in composer, Close(x) \/ SelectThread(x)
        PROVE  KeptInv' /\ DraftMayGo
    <2>1. /\ composer' = {}
          /\ UNCHANGED <<fresh, queue, shared, dropped, wiped, delivered, sends, drafts>>
      BY <1>6 DEF Close, SelectThread
    <2> QED BY <2>1, KeptByStores, SameDrafts
  <1>7. ASSUME NEW x \in composer, Discard(x) PROVE KeptInv' /\ DraftMayGo
    <2>1. /\ composer' = {} /\ dropped \subseteq dropped'
          /\ UNCHANGED <<fresh, queue, wiped, delivered, sends>>
          /\ x.from \in {"draft", "share"} => x.text \in dropped'
          /\ IF HoldsShare(x) THEN shared' = {} ELSE shared' = shared
          /\ drafts' \in {drafts, [drafts EXCEPT ![x.text] = @ - 1]}
          /\ x.from # "draft" => drafts' = drafts
      BY <1>7 DEF Discard
    <2>2. \A t \in shared : t \in shared' \/ t \in dropped'
      BY <2>1, HoldsItsShare DEF KeptInv
    <2>3. SharedKept'
      BY <2>1, <2>2 DEF KeptInv, SharedKept, Delivered
    <2>4. \A s \in sends' : s.phase = "accepted" => Delivered(s.text)'
      BY <2>1 DEF KeptInv, Delivered
    <2>5. x.text \in Texts
      BY DEF Types, Composers
    <2>6. CASE x.from = "draft"
      BY <2>1, <2>3, <2>4, <2>5, <2>6, OneLess, SameDrafts DEF KeptInv, DraftMayGo, Types
    <2>7. CASE x.from # "draft"
      BY <2>1, <2>3, <2>4, <2>7, SameDrafts DEF KeptInv
    <2> QED BY <2>6, <2>7
  <1>8. ASSUME NEW x \in composer, ScheduleSend(x) PROVE KeptInv' /\ DraftMayGo
    <2>1. /\ composer' = {} /\ \A s \in sends' : s \in sends \/ s.phase = "waiting"
          /\ UNCHANGED <<fresh, queue, shared, dropped, wiped, delivered, drafts>>
      BY <1>8 DEF ScheduleSend, KeptUntilSent
    <2> QED BY <2>1, KeptByStores, SameDrafts
  <1>9. ASSUME NEW s \in sends, Cancel(s) PROVE KeptInv' /\ DraftMayGo
    <2>1. /\ sends' = sends \ {s} /\ composer' = AfterCancel(s)
          /\ UNCHANGED <<fresh, queue, shared, active, dropped, wiped, delivered, drafts>>
      BY <1>9 DEF Cancel, Stopped
    <2>2. ASSUME NEW x \in composer' PROVE Holds(x)'
      <3>1. CASE x \in composer
        BY <2>1, <3>1 DEF KeptInv, Holds
      <3>2. CASE \E t \in shared : x = [text |-> t, from |-> "share"]
        BY <2>1, <3>2 DEF Holds, Types, AtMostOne
      <3> QED BY <2>1, <2>2, <3>1, <3>2 DEF AfterCancel
    <2> QED BY <2>1, <2>2, KeptByStores, SameDrafts
  <1>10. ASSUME NEW s \in sends, Fire(s) PROVE KeptInv' /\ DraftMayGo
    <2>1. /\ sends' = (sends \ {s}) \cup {[s EXCEPT !.phase = "sending"]}
          /\ UNCHANGED <<fresh, queue, shared, active, composer, dropped, wiped, delivered, drafts>>
      BY <1>10 DEF Fire
    <2>2. [s EXCEPT !.phase = "sending"].phase = "sending"
      BY DEF Types, Sends
    <2>3. \A x \in composer' : Holds(x)'
      BY <2>1 DEF KeptInv, Holds
    <2> QED BY <2>1, <2>2, <2>3, KeptByStores, SameDrafts
  <1>11. ASSUME NEW s \in sends, Accept(s) PROVE KeptInv' /\ DraftMayGo
    <2>1. /\ sends' = (sends \ {s}) \cup {[s EXCEPT !.phase = "accepted"]}
          /\ delivered' = delivered \cup {[n |-> s.n, text |-> s.text]}
          /\ UNCHANGED <<fresh, queue, shared, active, composer, dropped, wiped, drafts>>
      BY <1>11 DEF Accept
    <2>2. [s EXCEPT !.phase = "accepted"].text = s.text
      BY DEF Types, Sends
    <2>3. \A x \in composer' : Holds(x)'
      BY <2>1 DEF KeptInv, Holds
    <2>4. \A t : Delivered(t) => Delivered(t)'
      <3>1. delivered \subseteq delivered'
        BY <2>1
      <3> QED BY <3>1 DEF Delivered
    <2>5. Delivered(s.text)'
      <3> DEFINE d == [n |-> s.n, text |-> s.text]
      <3>1. d \in delivered' /\ d.text = s.text
        BY <2>1
      <3> QED BY <3>1 DEF Delivered
    <2>6. \A r \in sends' : r.phase = "accepted" => Delivered(r.text)'
      BY <2>1, <2>2, <2>4, <2>5 DEF KeptInv
    <2>7. SharedKept'
      BY <2>1, <2>4 DEF KeptInv, SharedKept
    <2> QED BY <2>1, <2>3, <2>6, <2>7, SameDrafts DEF KeptInv
  <1>12. ASSUME NEW s \in sends, Sent(s) \/ Fails(s) PROVE KeptInv' /\ DraftMayGo
    <2>1. /\ sends' \subseteq sends
          /\ UNCHANGED <<fresh, queue, composer, dropped, delivered>>
          /\ \/ s.phase = "accepted" /\ OnSent(s)
             \/ UNCHANGED <<shared, active, wiped>>
      BY <1>12 DEF Sent, Fails
    <2>2. /\ \A t \in shared : t \in shared' \/ t \in wiped' \/ Delivered(t)
          /\ wiped \subseteq wiped' /\ shared' \subseteq shared
          /\ ~active => ~active'
      BY <2>1 DEF OnSent, KeptInv
    <2>3. \A t : Delivered(t)' <=> Delivered(t)
      BY <2>1 DEF Delivered
    <2>4. SharedKept'
      BY <2>1, <2>2, <2>3 DEF KeptInv, SharedKept
    <2>5. \A x \in composer' : Holds(x)'
      BY <2>1, <2>2 DEF KeptInv, Holds
    <2>6. KeptInv'
      BY <2>1, <2>3, <2>4, <2>5 DEF KeptInv
    <2>7. CASE drafts' = drafts
      BY <2>6, <2>7, SameDrafts
    <2>8. CASE drafts' # drafts
      <3>1. /\ s.phase = "accepted"
            /\ drafts' \in {drafts, [drafts EXCEPT ![s.text] = @ - 1]}
        BY <1>12, <2>8 DEF Sent, Fails, Deleted, KeptOnFailure
      <3>2. s.text \in Texts /\ Delivered(s.text)
        BY <3>1 DEF KeptInv, Types, Sends
      <3>3. \A t \in Texts : drafts[t] \in Nat /\ (t # s.text => drafts'[t] = drafts[t])
        BY <3>1, <3>2, OneLess, BoundsAssumption DEF Types
      <3>4. ASSUME NEW t \in Texts, drafts'[t] < drafts[t] PROVE t = s.text
        BY <3>3, <3>4
      <3> QED BY <2>6, <3>2, <3>4 DEF DraftMayGo
    <2> QED BY <2>7, <2>8
  <1>13. CASE Notice \/ Reload
    <2>1. /\ UNCHANGED <<fresh, queue, shared, dropped, wiped, delivered, drafts>>
          /\ sends' \subseteq sends
          /\ composer' = {} \/ UNCHANGED <<composer, active>>
      BY <1>13 DEF Notice, Reload
    <2>2. \A x \in composer' : Holds(x)'
      BY <2>1 DEF KeptInv, Holds
    <2> QED BY <2>1, <2>2, KeptByStores, SameDrafts
  <1>14. CASE UNCHANGED vars
    <2>1. \A x \in composer' : Holds(x)'
      BY <1>14 DEF vars, KeptInv, Holds
    <2>2. KeptInv'
      BY <1>14, <2>1, KeptByStores DEF vars
    <2> QED BY <1>14, <2>2
  <1> QED
    BY <1>1, <1>2, <1>3, <1>4, <1>5, <1>6, <1>7, <1>8, <1>9, <1>10, <1>11,
       <1>12, <1>13, <1>14 DEF Next

(* Shared content stays with Android, in the vault or delivered until the   *)
(* user discards it, but for what the answer to the send of other shared    *)
(* content takes along (MailPage.tsx).                                      *)
THEOREM SharesAreKept == Spec => []SharedKept
  <1>1. KeptInv => SharedKept
    BY DEF KeptInv
  <1> QED
    BY <1>1, KeptInit, KeptStep, TypesInit, TypesStep, PTL DEF Spec

(* Nothing deletes a draft from the server before its text was accepted by  *)
(* the server or discarded by the user: not a send that fails after it hid  *)
(* the draft (scheduleSend, useMailPageLogic.ts).                           *)
THEOREM DraftsOutliveSends == Spec => DraftOutlivesSend
  <1>1. Types /\ KeptInv /\ [Next]_vars => KeptInv' /\ [DraftMayGo]_vars
    BY KeptStep
  <1> QED
    BY <1>1, KeptInit, TypesInit, TypesStep, PTL DEF Spec, DraftOutlivesSend, DraftMayGo

=============================================================================
