----------------------------- MODULE MailCompose -----------------------------
(***************************************************************************)
(* Writing and sending mail (useMailPageLogic.ts, MailPage.tsx and the two *)
(* composers): where a text lives between the moment it is written and the *)
(* moment it is sent.  A send waits ten seconds for an undo that one toast *)
(* offers, drafts are saved on the server after the composer was closed,   *)
(* and content shared by another Android application is kept in the vault  *)
(* until it is sent.                                                       *)
(***************************************************************************)
EXTENDS Naturals, FiniteSets

CONSTANTS NewTexts, ReplyTexts, SharedTexts,   \* what the user may write
          MaxWritten,                          \* bound: texts written or shared
          MaxSends, MaxDrafts                  \* bounds: sends, server copies of a draft

ASSUME KindsAssumption == /\ NewTexts \cap ReplyTexts = {}
                          /\ SharedTexts \cap (NewTexts \cup ReplyTexts) = {}
ASSUME BoundsAssumption == MaxSends \in Nat /\ MaxDrafts \in Nat

Texts == NewTexts \cup ReplyTexts \cup SharedTexts

VARIABLES fresh,       \* texts nobody has written or shared yet
          queue,       \* Android: shared contents not acknowledged
          shared,      \* vault: the shared draft, at most one
          active,      \* sharedDraftActiveRef: the composer holds the shared draft
          composer,    \* the open text and where it came from, at most one
          replyMap,    \* draftReplyMap (localStorage): replies kept for their conversation
          saving,      \* drafts being saved on the server
          drafts,      \* server: copies of a text in the drafts folder
          hiddenDrafts,\* pendingRemovalIds: drafts hidden while they are sent
          sends,       \* sends whose timer or request is under way
          count,       \* sends so far
          toast,       \* the send whose undo the only toast offers, 0 for none
          delivered,   \* server: the sends it accepted
          cancelled,   \* history: sends the user took back
          dropped,     \* history: stored texts the user discarded
          wiped        \* history: shared contents removed by the answer to another send

vars == <<fresh, queue, shared, active, composer, replyMap, saving, drafts, hiddenDrafts,
          sends, count, toast, delivered, cancelled, dropped, wiped>>
stores == <<queue, shared, replyMap, saving, drafts>>
sending == <<sends, count, toast, delivered, cancelled, hiddenDrafts>>

Origins == {"blank", "draft", "map", "share"}
Delivered(t) == \E d \in delivered : d.text = t

Init == /\ fresh = Texts
        /\ queue = {}
        /\ shared = {}
        /\ active = FALSE
        /\ composer = {}
        /\ replyMap = {}
        /\ saving = {}
        /\ drafts = [t \in Texts |-> 0]
        /\ hiddenDrafts = {}
        /\ sends = {}
        /\ count = 0
        /\ toast = 0
        /\ delivered = {}
        /\ cancelled = {}
        /\ dropped = {}
        /\ wiped = {}

\* A text that was not there before.
Written(t) == /\ t \in fresh
              /\ Cardinality(Texts \ fresh) < MaxWritten
              /\ fresh' = fresh \ {t}

Opened(t, origin) == composer = {} /\ composer' = {[text |-> t, from |-> origin]}
-----------------------------------------------------------------------------
(* Opening a composer. *)

\* "New message": the shared draft comes first when there is one.
StartNewMessage ==
  /\ \/ \E t \in shared : Opened(t, "share") /\ UNCHANGED fresh
     \/ shared = {} /\ \E t \in NewTexts : Opened(t, "blank") /\ Written(t)
  /\ active' = (shared # {})
  /\ UNCHANGED <<stores, sending, dropped, wiped>>

\* A mail written from an event: the composer does not hold the shared draft.
EventDraft(t) == /\ t \in NewTexts
                 /\ Opened(t, "blank")
                 /\ Written(t)
                 /\ active' = FALSE
                 /\ UNCHANGED <<stores, sending, dropped, wiped>>

Reply(t) == /\ t \in ReplyTexts
            /\ Opened(t, "blank")
            /\ Written(t)
            /\ UNCHANGED <<active, stores, sending, dropped, wiped>>

\* Selecting a conversation whose reply was kept opens that reply again.
RestoreReply(t) == /\ t \in replyMap
                   /\ Opened(t, "map")
                   /\ UNCHANGED <<fresh, active, stores, sending, dropped, wiped>>

OpenDraft(t) == /\ drafts[t] > 0
                /\ t \notin hiddenDrafts
                /\ Opened(t, "draft")
                /\ UNCHANGED <<fresh, active, stores, sending, dropped, wiped>>

\* Another application shares content; Android keeps it for the page.
RetainShare(t) == /\ t \in SharedTexts
                  /\ Written(t)
                  /\ queue' = queue \cup {t}
                  /\ UNCHANGED <<shared, active, composer, replyMap, saving, drafts, sending,
                                 dropped, wiped>>

\* Shared content is put in the vault before Android is told to forget it, and
\* the acknowledgement may fail.
ReceiveShare(t) ==
  /\ t \in queue
  /\ shared = {}
  /\ Opened(t, "share")
  /\ shared' = {t}
  /\ active' = TRUE
  /\ queue' \in {queue, queue \ {t}}
  /\ UNCHANGED <<fresh, replyMap, saving, drafts, sending, dropped, wiped>>
-----------------------------------------------------------------------------
(* Leaving a composer.  Nothing waits for the draft to be saved. *)

HoldsShare(x) == active /\ x.from # "draft" /\ x.text \notin ReplyTexts

\* handleSaveDraft; a reply is kept in the map at once.
HandleSaveDraft(x) ==
  /\ saving' = saving \cup {x.text}
  /\ replyMap' = IF x.text \in ReplyTexts /\ x.from # "draft" THEN replyMap \cup {x.text} ELSE replyMap

\* A reply that was restored is saved again and then dismissed from the map.
Close(x) ==
  /\ x \in composer
  /\ composer' = {}
  /\ saving' = IF HoldsShare(x) THEN saving ELSE saving \cup {x.text}
  /\ replyMap' = CASE x.text \notin ReplyTexts \/ x.from = "draft" -> replyMap
                    [] x.from = "map"   -> replyMap \ {x.text}
                    [] OTHER            -> replyMap \cup {x.text}
  /\ UNCHANGED <<fresh, queue, shared, active, drafts, sending, dropped, wiped>>

\* Another conversation: a restored reply whose draft has an identifier is left
\* alone; a toast says at once that any other is saved, taking the toast's place.
SelectThread(x) ==
  /\ x \in composer
  /\ composer' = {}
  /\ \/ x.from = "map" /\ UNCHANGED <<saving, replyMap, toast>>
     \/ /\ IF HoldsShare(x) THEN UNCHANGED <<saving, replyMap>> ELSE HandleSaveDraft(x)
        /\ toast' = 0
  /\ UNCHANGED <<fresh, queue, shared, active, drafts, sends, count, delivered, cancelled,
                 hiddenDrafts, dropped, wiped>>

SaveDone(t) == /\ t \in saving
               /\ drafts[t] < MaxDrafts
               /\ saving' = saving \ {t}
               /\ drafts' = [drafts EXCEPT ![t] = @ + 1]
               /\ UNCHANGED <<fresh, queue, shared, active, composer, replyMap, sending, dropped, wiped>>

SaveFails(t) == /\ t \in saving
                /\ saving' = saving \ {t}
                /\ UNCHANGED <<fresh, queue, shared, active, composer, replyMap, drafts, sending, dropped, wiped>>

\* Discarding forgets the shared draft, the kept reply or the draft itself.
Discard(x) ==
  /\ x \in composer
  /\ composer' = {}
  /\ IF HoldsShare(x) THEN shared' = {} /\ active' = FALSE ELSE UNCHANGED <<shared, active>>
  /\ replyMap' = IF x.from = "map" THEN replyMap \ {x.text} ELSE replyMap
  /\ drafts' = IF x.from = "draft" /\ drafts[x.text] > 0
               THEN [drafts EXCEPT ![x.text] = @ - 1] ELSE drafts
  /\ dropped' = IF x.from \in {"draft", "share"} THEN dropped \cup {x.text} ELSE dropped
  /\ UNCHANGED <<fresh, queue, saving, sending, wiped>>
-----------------------------------------------------------------------------
(* Sending. *)

ForgottenAtOnce == {}
KeptUntilSent == shared

\* The composer closes, a draft that is being sent disappears from its folder,
\* and the toast offers the undo of this send only.
ScheduleSend(x) ==
  /\ x \in composer
  /\ count < MaxSends
  /\ composer' = {}
  /\ count' = count + 1
  /\ sends' = sends \cup {[n |-> count + 1, text |-> x.text, draft |-> x.from = "draft",
                           share |-> HoldsShare(x), phase |-> "waiting"]}
  /\ toast' = count + 1
  /\ hiddenDrafts' = IF x.from = "draft" THEN hiddenDrafts \cup {x.text} ELSE hiddenDrafts
  /\ shared' = KeptUntilSent
  /\ UNCHANGED <<fresh, queue, active, replyMap, saving, drafts, delivered, cancelled, dropped, wiped>>

OnlyTheToast(s) == sends
Stopped(s) == sends \ {s}
StillHidden(s) == hiddenDrafts
Shown(s) == IF s.draft THEN hiddenDrafts \ {s.text} ELSE hiddenDrafts

\* Taking a send back opens the new-message composer, empty unless the vault
\* has a shared draft, or closes it when the send was a reply.
AfterCancel(s) ==
  IF s.text \in ReplyTexts /\ ~s.draft
  THEN {x \in composer : x.text \in ReplyTexts}
  ELSE IF composer = {} /\ active THEN {[text |-> t, from |-> "share"] : t \in shared}
  ELSE composer

Cancel(s) ==
  /\ s \in sends
  /\ toast = s.n
  /\ s.phase = "waiting"
  /\ sends' = Stopped(s)
  /\ cancelled' = cancelled \cup {s.n}
  /\ hiddenDrafts' = Shown(s)
  /\ toast' = 0
  /\ composer' = AfterCancel(s)
  /\ UNCHANGED <<fresh, stores, active, count, delivered, dropped, wiped>>

DueIfShown(s) == s.phase = "waiting" /\ toast = s.n
DueSend(s) == s.phase = "waiting"

Fire(s) == /\ s \in sends
           /\ DueSend(s)
           /\ sends' = (sends \ {s}) \cup {[s EXCEPT !.phase = "sending"]}
           /\ toast' = 0
           /\ UNCHANGED <<fresh, stores, active, composer, count, delivered, cancelled,
                          hiddenDrafts, dropped, wiped>>

Accept(s) == /\ s \in sends
             /\ s.phase = "sending"
             /\ sends' = (sends \ {s}) \cup {[s EXCEPT !.phase = "accepted"]}
             /\ delivered' = delivered \cup {[n |-> s.n, text |-> s.text]}
             /\ UNCHANGED <<fresh, stores, active, composer, count, toast, cancelled,
                            hiddenDrafts, dropped, wiped>>

\* onSent of a shared draft empties the vault, whatever it holds by then.
OnSent(s) == IF s.share
             THEN shared' = {} /\ active' = FALSE /\ wiped' = wiped \cup (shared \ {s.text})
             ELSE UNCHANGED <<shared, active, wiped>>

Deleted(s) == IF s.draft /\ drafts[s.text] > 0
              THEN {drafts, [drafts EXCEPT ![s.text] = @ - 1]} ELSE {drafts}

\* Once the answer is there the contacts are recorded and the draft is deleted;
\* a deletion that fails is ignored.
Sent(s) ==
  /\ s \in sends
  /\ s.phase = "accepted"
  /\ OnSent(s)
  /\ sends' = sends \ {s}
  /\ toast' = 0
  /\ drafts' \in Deleted(s)
  /\ UNCHANGED <<fresh, queue, composer, replyMap, saving, count, delivered, cancelled,
                 hiddenDrafts, dropped>>

KeptOnFailure(s) == {drafts}

\* The request or its answer is lost, or recording the contacts fails after a
\* send that was accepted: the error is shown and the draft comes back.
Fails(s) ==
  /\ s \in sends
  /\ s.phase # "waiting"
  /\ (s.phase = "accepted" /\ OnSent(s)) \/ UNCHANGED <<shared, active, wiped>>
  /\ sends' = sends \ {s}
  /\ toast' = 0
  /\ hiddenDrafts' = Shown(s)
  /\ drafts' \in KeptOnFailure(s)
  /\ UNCHANGED <<fresh, queue, composer, replyMap, saving, count, delivered, cancelled, dropped>>

\* Any other notice takes the toast's place.
Notice == /\ toast # 0
          /\ toast' = 0
          /\ UNCHANGED <<fresh, stores, active, composer, sends, count, delivered, cancelled,
                         hiddenDrafts, dropped, wiped>>

\* The page is loaded again: timers and requests are gone, and so is what no
\* storage holds.
Reload == /\ composer' = {}
          /\ active' = FALSE
          /\ saving' = {}
          /\ hiddenDrafts' = {}
          /\ sends' = {}
          /\ toast' = 0
          /\ <<composer, saving, hiddenDrafts, sends>> # <<{}, {}, {}, {}>>
          /\ UNCHANGED <<fresh, queue, shared, replyMap, drafts, count, delivered, cancelled, dropped, wiped>>

Next == \/ StartNewMessage
        \/ \E t \in Texts : \/ EventDraft(t) \/ Reply(t) \/ RestoreReply(t) \/ OpenDraft(t) \/ RetainShare(t) \/ ReceiveShare(t)
                            \/ SaveDone(t) \/ SaveFails(t)
        \/ \E x \in composer : Close(x) \/ SelectThread(x) \/ Discard(x) \/ ScheduleSend(x)
        \/ \E s \in sends : Cancel(s) \/ Fire(s) \/ Accept(s) \/ Sent(s) \/ Fails(s)
        \/ Notice \/ Reload

Spec == Init /\ [][Next]_vars
Fairness == WF_vars(\E s \in sends : Fire(s)) /\ WF_vars(\E s \in sends : Sent(s) \/ Fails(s))
FairSpec == Spec /\ Fairness
-----------------------------------------------------------------------------
Sends == [n : 1..MaxSends, text : Texts, draft : BOOLEAN, share : BOOLEAN,
          phase : {"waiting", "sending", "accepted"}]

\* The variables have their types; there is one composer and one shared draft.
TypeOK == /\ fresh \subseteq Texts /\ queue \subseteq SharedTexts
          /\ shared \subseteq SharedTexts /\ Cardinality(shared) <= 1
          /\ active \in BOOLEAN
          /\ composer \subseteq [text : Texts, from : Origins] /\ Cardinality(composer) <= 1
          /\ replyMap \subseteq ReplyTexts
          /\ saving \subseteq Texts /\ drafts \in [Texts -> 0..MaxDrafts]
          /\ {hiddenDrafts, dropped, wiped} \subseteq SUBSET Texts
          /\ sends \subseteq Sends /\ count \in 0..MaxSends /\ toast \in 0..MaxSends
          /\ delivered \subseteq [n : 1..MaxSends, text : Texts]
          /\ cancelled \subseteq 1..MaxSends

\* What the user took back is never sent (useMailPageLogic.ts 1465-1467).
CancelledNeverSent == \A d \in delivered : d.n \notin cancelled

\* Content another application shared is never lost before it was sent or
\* discarded: not by a failed send, an undo, another message or a reload.  Only
\* the answer to a send of shared content takes other content with it
\* (MailPage.tsx:1157), when that was received while the send was under way.
SharedKept == \A t \in SharedTexts :
  t \in fresh \cup queue \cup shared \cup dropped \cup wiped \/ Delivered(t)

\* A draft leaves the server only after its text was sent or discarded.
DraftOutlivesSend == [][\A t \in Texts : drafts'[t] < drafts[t] =>
                          Delivered(t) \/ t \in dropped']_vars

\* Every scheduled send ends: sent, failed, taken back or gone with the page.
SendEnds == \A n \in 1..MaxSends :
  (\E s \in sends : s.n = n) ~> ~\E s \in sends : s.n = n
=============================================================================
