-------------------------- MODULE MailServersProofs --------------------------
(***************************************************************************)
(* Theorems about the parts of MCMailServers, for every value of their     *)
(* constants: the mailbox and the system labels of Gmail, the transfer of  *)
(* conversations to another account, the open conversation, sending, the   *)
(* mailbox of each of the four clients, the pages of a folder, searches and *)
(* the conversations of an IMAP folder.                                    *)
(***************************************************************************)
EXTENDS MCMailServers, FiniteSetTheorems, SequenceTheorems, TLAPS

(* The variables of MailTransfer by their own names; places is its at.      *)
kind == v1
places == v2
drafts == v3
copied == v4
transfers == v5
uncopied == v6
begun == v7
events == v8

(* And those of OpenConversation: where is its place, deletions its calls.   *)
where == v2
index == v3
copy == v4
view == v5
open == v6
data == v7
fetch == v8
deletions == v9
removed == v10
excused == v11
asks == v12
deletes == v13

USE DEF where, index, copy, view, open, data, fetch, deletions, removed, excused, asks, deletes
USE DEF kind, places, drafts, copied, transfers, uncopied, begun, events

----------------------------------------------------------------------------
(* The part chosen at first is the one that moves.                          *)
LEMMA PartStays == [MCNext]_<<part, acting, reading>> => part' = part
  BY DEF MCNext, EwsStep, JmapStep, GmailStep, ImapStep, SendingStep, ThreadsStep, PagingStep,
         ConversationStep, TransferStep, SearchStep

LEMMA PartsStart ==
    ASSUME MCInit
    PROVE  /\ part = "transfer" => Transferring!Init
           /\ part = "conversation" => Conversation!Init
           /\ part = "sending" => Sending!Init
           /\ part = "paging" => Paging!Init
           /\ part = "search" => Searching!Init
           /\ part = "threads" => Threads!Init
  BY DEF MCInit, Acts

LEMMA PartsStep ==
    ASSUME [MCNext]_<<part, acting, reading>>
    PROVE  /\ part = "transfer" => [Transferring!Next]_(Transferring!vars)
           /\ part = "conversation" => [Conversation!Next]_(Conversation!vars)
           /\ part = "sending" => [Sending!Next]_<<sends, listed, place>>
           /\ part = "paging" => [Paging!Next]_(Paging!vars)
           /\ part = "search" => [Searching!Next]_(Searching!vars)
           /\ part = "threads" => [Threads!Next]_(Threads!vars)
  <1>1. CASE MCNext
    BY <1>1 DEF MCNext, EwsStep, JmapStep, GmailStep, ImapStep, SendingStep, ThreadsStep,
                PagingStep, ConversationStep, TransferStep, SearchStep
  <1>2. CASE UNCHANGED <<part, acting, reading>>
    BY <1>2 DEF acting, common, reading, Transferring!vars, Conversation!vars, Paging!vars, Searching!vars,
                threads, Threads!vars
  <1> QED BY <1>1, <1>2

----------------------------------------------------------------------------
(* GmailMail: the labels, for every set of messages and any number of        *)
(* operations under way.                                                    *)

(* No request can put a second system label on a message: one that adds a   *)
(* system label takes the other two off.                                    *)
Exclusive(add, remove) ==
  add \cap MutableSystem = {}
  \/ \E l \in MutableSystem : /\ add \cap MutableSystem = {l}
                               /\ MutableSystem \ {l} \subseteq remove

AtMostOne(labels) == \A k, l \in labels \cap MutableSystem : k = l

Call == [n : Nat, todo : {"modify", "collect", "trash", "delete"}, ms : SUBSET Messages,
         done : Nat,
         ok : BOOLEAN, add : SUBSET Labels, remove : SUBSET Labels]
Sound(c) == c \in Call /\ Exclusive(c.add, c.remove)

LabelInv == /\ at \in [Messages -> SUBSET Labels] /\ count \in Nat
            /\ \A m \in Messages : AtMostOne(at[m])
            /\ \A c \in calls : Sound(c)

LEMMA RelabelKeeps ==
    ASSUME NEW labels, NEW add, NEW remove, AtMostOne(labels), Exclusive(add, remove)
    PROVE  AtMostOne((labels \ remove) \cup add)
  BY DEF AtMostOne, Exclusive, MutableSystem

LEMMA AtMostOneCounts ==
    ASSUME NEW labels, AtMostOne(labels)
    PROVE  Cardinality(labels \cap MutableSystem) <= 1
  <1> DEFINE S == labels \cap MutableSystem
  <1>1. CASE S = {}
    BY <1>1, FS_EmptySet
  <1>2. CASE S # {}
    <2>1. PICK l \in S : S = {l}
      BY <1>2 DEF AtMostOne
    <2> QED BY <2>1, FS_Singleton
  <1> QED BY <1>1, <1>2

LEMMA InitLabels == Init => LabelInv
  BY DEF Init, LabelInv, AtMostOne, MutableSystem, Labels

(* A started operation carries an exclusive change of labels.               *)
LEMMA StartKeeps ==
    ASSUME LabelInv, NEW todo \in {"modify", "collect", "trash", "delete"},
             NEW ms \in SUBSET Messages,
           NEW add \in SUBSET Labels, NEW remove \in SUBSET Labels,
           Exclusive(add, remove), Start(todo, ms, add, remove)
    PROVE  LabelInv'
  <1> DEFINE c == [n |-> count + 1, todo |-> todo, ms |-> ms, done |-> 0, ok |-> TRUE,
                   add |-> add, remove |-> remove]
  <1>1. calls' = calls \cup {c} /\ at' = at /\ count' = count + 1
    BY DEF Start
  <1>2. Sound(c)
    BY DEF LabelInv, Sound, Call
  <1> HIDE DEF c
  <1> QED BY <1>1, <1>2 DEF LabelInv

(* A folder's label and what is removed with it exclude one another.        *)
LEMMA FolderExclusive ==
    ASSUME NEW to \in DOMAIN FolderToLabel, FolderToLabel[to] # "null"
    PROVE  /\ Exclusive({FolderToLabel[to]}, Removed(FolderToLabel[to]))
           /\ {FolderToLabel[to]} \in SUBSET Labels
           /\ Removed(FolderToLabel[to]) \in SUBSET Labels
  BY DEF FolderToLabel, Exclusive, Removed, MutableSystem, Labels

(* The messages of an operation get its labels, all or some of them.        *)
LEMMA RelabelledKeeps ==
    ASSUME LabelInv, NEW c \in calls, NEW ms
    PROVE  /\ Relabelled(c, ms) \in [Messages -> SUBSET Labels]
           /\ \A m \in Messages : AtMostOne(Relabelled(c, ms)[m])
  <1>1. ASSUME NEW m \in Messages
        PROVE  /\ Relabelled(c, ms)[m] \in SUBSET Labels
               /\ AtMostOne(Relabelled(c, ms)[m])
    <2>1. CASE m \in ms \cap held
      <3>1. Relabelled(c, ms)[m] = (at[m] \ c.remove) \cup c.add
        BY <1>1, <2>1 DEF Relabelled
      <3>2. c.add \in SUBSET Labels /\ Exclusive(c.add, c.remove)
        BY DEF LabelInv, Sound, Call
      <3>3. AtMostOne((at[m] \ c.remove) \cup c.add)
        BY <1>1, <3>2, RelabelKeeps DEF LabelInv
      <3>4. at[m] \in SUBSET Labels
        BY <1>1 DEF LabelInv
      <3> QED BY <3>1, <3>2, <3>3, <3>4
    <2>2. CASE m \notin ms \cap held
      BY <1>1, <2>2 DEF Relabelled, LabelInv
    <2> QED BY <2>1, <2>2
  <1> QED BY <1>1 DEF Relabelled

(* A call whose labels stay as they are may go on in another form, or end.  *)
LEMMA CallsKeep ==
    ASSUME LabelInv, NEW c \in calls, NEW d, Sound(d), Ends(c) \/ Becomes(c, d)
    PROVE  \A e \in calls' : Sound(e)
  BY DEF LabelInv, Ends, Becomes

(* The same operation, with other messages or further on, stays sound.      *)
LEMMA ProgressSound ==
    ASSUME NEW c, Sound(c), NEW ms \in SUBSET Messages
    PROVE  /\ Sound([c EXCEPT !.ms = ms, !.todo = "modify"])
           /\ Sound([c EXCEPT !.ms = ms, !.done = @ + 1])
           /\ Sound([c EXCEPT !.ms = ms, !.done = @ + 1, !.ok = FALSE])
  <1>1. c \in Call /\ Exclusive(c.add, c.remove)
    BY DEF Sound
  <1> DEFINE e == [c EXCEPT !.ms = ms]
             f == [e EXCEPT !.done = c.done + 1]
  <1>2. e \in Call /\ e.add = c.add /\ e.remove = c.remove
    BY <1>1 DEF Call
  <1>3. c.done \in Nat
    BY <1>1 DEF Call
  <1> HIDE DEF e
  <1>4. [e EXCEPT !.todo = "modify"] \in Call /\ [e EXCEPT !.todo = "modify"].add = e.add
        /\ [e EXCEPT !.todo = "modify"].remove = e.remove
    BY <1>2 DEF Call
  <1>5. f \in Call /\ f.add = e.add /\ f.remove = e.remove
    BY <1>2, <1>3 DEF Call
  <1> HIDE DEF f
  <1>6. [f EXCEPT !.ok = FALSE] \in Call /\ [f EXCEPT !.ok = FALSE].add = f.add
        /\ [f EXCEPT !.ok = FALSE].remove = f.remove
    BY <1>5 DEF Call
  <1>7. Sound([e EXCEPT !.todo = "modify"]) /\ Sound(f) /\ Sound([f EXCEPT !.ok = FALSE])
    BY <1>1, <1>2, <1>4, <1>5, <1>6 DEF Sound
  <1> QED BY <1>7 DEF e, f

LEMMA StepKeepsLabels == LabelInv /\ [Next]_vars => LabelInv'
  <1> SUFFICES ASSUME LabelInv, [Next]_vars PROVE LabelInv'
    OBVIOUS
  <1>1. ASSUME NEW m \in Messages, MoveToTrash(m) PROVE LabelInv'
    <2>1. Exclusive({"TRASH"}, {"INBOX", "SPAM"}) /\ {"TRASH"} \in SUBSET Labels
            /\ {"INBOX", "SPAM"} \in SUBSET Labels
      BY DEF Exclusive, MutableSystem, Labels
    <2> QED BY <1>1, <2>1, StartKeeps DEF MoveToTrash
  <1>2. ASSUME NEW m \in Messages, PermanentlyDelete(m) PROVE LabelInv'
    <2>1. Exclusive({}, {}) /\ {} \in SUBSET Labels
      BY DEF Exclusive, Labels
    <2> QED BY <1>2, <2>1, StartKeeps DEF PermanentlyDelete
  <1>3. ASSUME NEW m \in Messages, Archive(m) PROVE LabelInv'
    <2>1. Exclusive({}, {"INBOX"}) /\ {} \in SUBSET Labels /\ {"INBOX"} \in SUBSET Labels
      BY DEF Exclusive, Labels
    <2> QED BY <1>3, <2>1, StartKeeps DEF Archive
  <1>4. ASSUME NEW m \in Messages, OtherClient(m) PROVE LabelInv'
    <2>1. /\ at' = [at EXCEPT ![m] = @ \cup {"INBOX"}] /\ calls' = calls
          /\ at[m] \cap MutableSystem = {}
      BY <1>4 DEF OtherClient
    <2>2. "INBOX" \in Labels
      BY DEF Labels
    <2>3. AtMostOne(at[m] \cup {"INBOX"})
      BY <2>1 DEF AtMostOne, MutableSystem
    <2>4. at' \in [Messages -> SUBSET Labels]
      BY <2>1, <2>2 DEF LabelInv
    <2>5. \A k \in Messages : AtMostOne(at'[k])
      BY <2>1, <2>3 DEF LabelInv
    <2>6. count' = count
      BY <1>4 DEF OtherClient, Own
    <2> QED BY <2>1, <2>4, <2>5, <2>6 DEF LabelInv
  <1>5. ASSUME NEW m \in Messages, NEW to \in DOMAIN FolderToLabel, MoveToFolder(m, to)
        PROVE  LabelInv'
    BY <1>5, FolderExclusive, StartKeeps DEF MoveToFolder
  <1>6. ASSUME NEW ms \in SUBSET Messages, MarkRead(ms) \/ MarkUnread(ms) PROVE LabelInv'
    <2>1. Exclusive({}, {"UNREAD"}) /\ {} \in SUBSET Labels /\ {"UNREAD"} \in SUBSET Labels
      BY DEF Exclusive, Labels
    <2>2. Exclusive({"UNREAD"}, {}) /\ {"UNREAD"} \in SUBSET Labels
      BY DEF Exclusive, MutableSystem, Labels
    <2> QED BY <1>6, <2>1, <2>2, StartKeeps DEF MarkRead, MarkUnread
  <1>7. ASSUME NEW ms \in SUBSET Messages, BulkMoveToTrash(ms) PROVE LabelInv'
    <2>1. Exclusive({"TRASH"}, {"INBOX", "SPAM"}) /\ {"TRASH"} \in SUBSET Labels
            /\ {"INBOX", "SPAM"} \in SUBSET Labels
      BY DEF Exclusive, MutableSystem, Labels
    <2> QED BY <1>7, <2>1, StartKeeps DEF BulkMoveToTrash
  <1>8. ASSUME NEW ms \in SUBSET Messages, BulkPermanentlyDelete(ms) PROVE LabelInv'
    <2>1. Exclusive({}, {}) /\ {} \in SUBSET Labels
      BY DEF Exclusive, Labels
    <2> QED BY <1>8, <2>1, StartKeeps DEF BulkPermanentlyDelete
  <1>9. ASSUME NEW ms \in SUBSET Messages, NEW to \in {"custom", "inbox"},
                 BulkMoveToFolder(ms, to)
        PROVE  LabelInv'
    <2>1. to \in DOMAIN FolderToLabel
      BY DEF FolderToLabel
    <2> QED BY <1>9, <2>1, FolderExclusive, StartKeeps DEF BulkMoveToFolder
  <1>10. ASSUME NEW c \in calls, Collect(c) PROVE LabelInv'
    <2>1. at' = at
      BY <1>10 DEF Collect
    <2>2. PICK read \in SUBSET (c.ms \cap held) :
             IF read = {} THEN Ends(c)
               ELSE Becomes(c, [c EXCEPT !.ms = read, !.todo = "modify"])
      BY <1>10 DEF Collect
    <2>3. Sound(c) /\ c.ms \in SUBSET Messages
      BY DEF LabelInv, Sound, Call
    <2> DEFINE d == [c EXCEPT !.ms = read, !.todo = "modify"]
    <2>4. Sound(d)
      BY <2>3, ProgressSound
    <2>5. Ends(c) \/ Becomes(c, d)
      BY <2>2
    <2> HIDE DEF d
    <2>6. \A e \in calls' : Sound(e)
      BY <2>4, <2>5, CallsKeep
    <2> QED BY <1>10, <2>1, <2>6 DEF LabelInv, Collect, Own
  <1>11. ASSUME NEW c \in calls, Modify(c) PROVE LabelInv'
    <2>1. at' = at \/ at' = Relabelled(c, c.ms)
      BY <1>11 DEF Modify
    <2>2. Ends(c)
      BY <1>11 DEF Modify
    <2>3. \A e \in calls' : Sound(e)
      BY <2>2, CallsKeep DEF LabelInv
    <2>4. count' = count
      BY <1>11 DEF Modify, Own
    <2> QED BY <2>1, <2>3, <2>4, RelabelledKeeps DEF LabelInv
  <1>12. ASSUME NEW c \in calls, NEW m \in Messages, Each(c, m) PROVE LabelInv'
    <2> DEFINE good == [c EXCEPT !.ms = @ \ {m}, !.done = @ + 1]
               bad == [c EXCEPT !.ms = @ \ {m}, !.done = @ + 1, !.ok = FALSE]
    <2>1. \/ Ends(c) \/ Becomes(c, good) \/ Becomes(c, bad)
      BY <1>12 DEF Each
    <2>2. Sound(good) /\ Sound(bad)
      BY ProgressSound, ZenonT(40) DEF LabelInv, Sound, Call
    <2>3. at' = at \/ at' = [at EXCEPT ![m] = {}] \/ at' = Relabelled(c, {m})
      BY <1>12 DEF Each
    <2> HIDE DEF good, bad
    <2>4. \A e \in calls' : Sound(e)
      BY <2>1, <2>2, CallsKeep
    <2>6. count' = count
      BY <1>12 DEF Each, Own
    <2>5. at' \in [Messages -> SUBSET Labels] /\ \A k \in Messages : AtMostOne(at'[k])
      BY <2>3, RelabelledKeeps DEF LabelInv, AtMostOne
    <2> QED BY <2>4, <2>5, <2>6 DEF LabelInv
  <1>13. CASE UNCHANGED vars
    BY <1>13 DEF vars, LabelInv
  <1> QED
    BY <1>1, <1>2, <1>3, <1>4, <1>5, <1>6, <1>7, <1>8, <1>9, <1>10, <1>11, <1>12, <1>13 DEF Next

(* No interleaving of operations, failed requests, lost answers and other   *)
(* clients leaves a message in two of the inbox, the trash and the spam     *)
(* folder (GmailMailProvider.ts, moveToFolder: "mutually exclusive").       *)
THEOREM LabelsExclude == Spec => []OneSystemLabel
  <1>1. LabelInv => OneSystemLabel
    BY AtMostOneCounts DEF LabelInv, OneSystemLabel
  <1> QED BY InitLabels, StepKeepsLabels, <1>1, PTL DEF Spec
-----------------------------------------------------------------------------
Labelled == INSTANCE MailboxContract WITH sent <- InSent, free <- {}

(* No operation touches Sent, and what a deletion is about to destroy was   *)
(* named by one.                                                            *)
Allowed(c) == /\ "SENT" \notin c.add \cup c.remove
              /\ c.todo = "delete" => c.ms \subseteq doomed
KeepInv == /\ LabelInv
           /\ doomed \subseteq Messages /\ held \subseteq Messages
           /\ \A c \in calls : Allowed(c)

LEMMA InitKept == Init => KeepInv /\ Labelled!Init
  BY InitLabels DEF Init, KeepInv, Labelled!Init, InSent

(* A started operation is allowed when its change of labels is.             *)
LEMMA StartAllowed ==
    ASSUME KeepInv, NEW todo, NEW ms \in SUBSET Messages, NEW add, NEW remove,
             Start(todo, ms, add, remove),
           "SENT" \notin add \cup remove,
           doomed' \in SUBSET Messages, doomed \subseteq doomed',
           todo = "delete" => ms \subseteq doomed'
    PROVE  /\ \A c \in calls' : Allowed(c)'
           /\ doomed' \subseteq Messages /\ held' \subseteq Messages
           /\ held' = held /\ InSent' = InSent
  <1> DEFINE c == [n |-> count + 1, todo |-> todo, ms |-> ms, done |-> 0, ok |-> TRUE,
                   add |-> add, remove |-> remove]
  <1>1. calls' = calls \cup {c} /\ at' = at /\ held' = held
    BY DEF Start
  <1>2. c.add = add /\ c.remove = remove /\ c.todo = todo /\ c.ms = ms
    OBVIOUS
  <1> HIDE DEF c
  <1>3. \A d \in calls' : Allowed(d)'
    BY <1>1, <1>2 DEF KeepInv, Allowed
  <1> QED BY <1>1, <1>3 DEF KeepInv, InSent

(* An operation that goes on with fewer messages stays allowed.             *)
LEMMA ProgressAllowed ==
    ASSUME KeepInv, NEW c \in calls, NEW ms \in SUBSET c.ms
    PROVE  /\ c.todo # "delete" => Allowed([c EXCEPT !.ms = ms, !.todo = "modify"])
           /\ Allowed([c EXCEPT !.ms = ms, !.done = @ + 1])
           /\ Allowed([c EXCEPT !.ms = ms, !.done = @ + 1, !.ok = FALSE])
  <1>1. c \in Call /\ Allowed(c) /\ ms \in SUBSET Messages
    BY DEF KeepInv, LabelInv, Sound, Call
  <1> DEFINE e == [c EXCEPT !.ms = ms]
             f == [e EXCEPT !.done = c.done + 1]
  <1>2. e \in Call /\ e.add = c.add /\ e.remove = c.remove /\ e.todo = c.todo /\ e.ms = ms
    BY <1>1 DEF Call
  <1>3. c.done \in Nat
    BY <1>1 DEF Call
  <1> HIDE DEF e
  <1>4. /\ [e EXCEPT !.todo = "modify"].add = e.add
        /\ [e EXCEPT !.todo = "modify"].remove = e.remove
        /\ [e EXCEPT !.todo = "modify"].todo = "modify"
    BY <1>2 DEF Call
  <1>5. f \in Call /\ f.add = e.add /\ f.remove = e.remove /\ f.todo = e.todo /\ f.ms = e.ms
    BY <1>2, <1>3 DEF Call
  <1> HIDE DEF f
  <1>6. /\ [f EXCEPT !.ok = FALSE].add = f.add
        /\ [f EXCEPT !.ok = FALSE].remove = f.remove
        /\ [f EXCEPT !.ok = FALSE].todo = f.todo
        /\ [f EXCEPT !.ok = FALSE].ms = f.ms
    BY <1>5 DEF Call
  <1>7. Allowed([e EXCEPT !.todo = "modify"]) /\ Allowed(f) /\ Allowed([f EXCEPT !.ok = FALSE])
    BY <1>1, <1>2, <1>4, <1>5, <1>6 DEF Allowed
  <1> QED BY <1>7 DEF e, f

(* Neither adding nor removing other labels changes what Sent holds.        *)
LEMMA SentStays ==
    ASSUME KeepInv, NEW c \in calls, NEW ms, at' = at \/ at' = Relabelled(c, ms), held' = held
    PROVE  InSent' = InSent
  <1>1. Allowed(c)
    BY DEF KeepInv
  <1>2. \A m \in held : "SENT" \in at'[m] <=> "SENT" \in at[m]
    BY <1>1 DEF KeepInv, LabelInv, Relabelled, Allowed
  <1> QED BY <1>2 DEF InSent

(* Every step of the client is a step of the contract, or none.             *)
LEMMA StepIsKept ==
    ASSUME KeepInv, [Next]_vars
    PROVE  KeepInv' /\ [Labelled!Next]_(Labelled!vars)
  <1>0. LabelInv'
    BY StepKeepsLabels DEF KeepInv
  <1> DEFINE Kept == /\ \A c \in calls' : Allowed(c)'
                     /\ doomed' \subseteq Messages /\ held' \subseteq Messages
             Still == doomed' = doomed /\ held' = held /\ InSent' = InSent
  <1>s. Still => UNCHANGED Labelled!vars
    BY DEF Labelled!vars
  <1>k. Kept => KeepInv'
    BY <1>0 DEF KeepInv
  <1> SUFFICES Kept /\ (Still \/ Labelled!Next)
    BY <1>s, <1>k
  <1>1. ASSUME NEW ms \in SUBSET Messages, NEW todo, NEW add, NEW remove,
               Start(todo, ms, add, remove), Keep, todo # "delete",
                 "SENT" \notin add \cup remove
        PROVE  Kept /\ Still
    <2>1. doomed' = doomed /\ doomed \in SUBSET Messages
      BY <1>1 DEF Keep, KeepInv
    <2> QED BY <1>1, <2>1, StartAllowed
  <1>2. ASSUME NEW ms \in SUBSET Messages, Start("delete", ms, {}, {}), doomed' = doomed \cup ms
        PROVE  Kept /\ Labelled!Next
    <2>1. doomed' \in SUBSET Messages /\ doomed \subseteq doomed' /\ ms \subseteq doomed'
      BY <1>2 DEF KeepInv
    <2>0. "SENT" \notin {} \cup {}
      OBVIOUS
    <2>2. Kept /\ held' = held /\ InSent' = InSent
      BY <1>2, <2>0, <2>1, StartAllowed
    <2>3. Labelled!Name(ms)
      BY <1>2, <2>2 DEF Labelled!Name
    <2> QED BY <2>2, <2>3 DEF Labelled!Next
  <1>3. \A to \in DOMAIN FolderToLabel :
          "SENT" \notin {FolderToLabel[to]} \cup Removed(FolderToLabel[to])
    BY DEF FolderToLabel, Removed, MutableSystem
  <1>4. ASSUME NEW m \in Messages, MoveToTrash(m) \/ Archive(m) PROVE Kept /\ Still
    <2>1. "SENT" \notin {"TRASH"} \cup {"INBOX", "SPAM"} /\ "SENT" \notin {} \cup {"INBOX"}
      OBVIOUS
    <2>2. {m} \in SUBSET Messages
      OBVIOUS
    <2>3. CASE MoveToTrash(m)
      BY <2>1, <2>2, <2>3, <1>1 DEF MoveToTrash
    <2>4. CASE Archive(m)
      BY <2>1, <2>2, <2>4, <1>1 DEF Archive
    <2> QED BY <1>4, <2>3, <2>4
  <1>5. ASSUME NEW m \in Messages, PermanentlyDelete(m) PROVE Kept /\ Labelled!Next
    BY <1>5, <1>2 DEF PermanentlyDelete
  <1>6. ASSUME NEW m \in Messages, NEW to \in DOMAIN FolderToLabel, MoveToFolder(m, to)
        PROVE  Kept /\ Still
    BY <1>6, <1>1, <1>3 DEF MoveToFolder
  <1>7. ASSUME NEW ms \in SUBSET Messages, MarkRead(ms) \/ MarkUnread(ms) \/ BulkMoveToTrash(ms)
        PROVE  Kept /\ Still
    <2>1. /\ "SENT" \notin {"TRASH"} \cup {"INBOX", "SPAM"}
          /\ "SENT" \notin {} \cup {"UNREAD"} /\ "SENT" \notin {"UNREAD"} \cup {}
      OBVIOUS
    <2>2. CASE MarkRead(ms)
      BY <2>1, <2>2, <1>1 DEF MarkRead
    <2>3. CASE MarkUnread(ms)
      BY <2>1, <2>3, <1>1 DEF MarkUnread
    <2>4. CASE BulkMoveToTrash(ms)
      BY <2>1, <2>4, <1>1 DEF BulkMoveToTrash
    <2> QED BY <1>7, <2>2, <2>3, <2>4
  <1>8. ASSUME NEW ms \in SUBSET Messages, BulkPermanentlyDelete(ms) PROVE Kept /\ Labelled!Next
    BY <1>8, <1>2 DEF BulkPermanentlyDelete
  <1>9. ASSUME NEW ms \in SUBSET Messages, NEW to \in {"custom", "inbox"},
                 BulkMoveToFolder(ms, to)
        PROVE  Kept /\ Still
    <2>1. to \in DOMAIN FolderToLabel
      BY DEF FolderToLabel
    <2> QED BY <1>9, <2>1, <1>1, <1>3 DEF BulkMoveToFolder
  <1>10. ASSUME NEW c \in calls, NEW d, Allowed(d), Ends(c) \/ Becomes(c, d), doomed' = doomed
         PROVE  \A e \in calls' : Allowed(e)'
    BY <1>10 DEF KeepInv, Ends, Becomes, Allowed
  <1>11. ASSUME NEW c \in calls, Collect(c) PROVE Kept /\ Still
    <2>1. PICK read \in SUBSET (c.ms \cap held) :
             IF read = {} THEN Ends(c)
               ELSE Becomes(c, [c EXCEPT !.ms = read, !.todo = "modify"])
      BY <1>11 DEF Collect
    <2>2. c.todo # "delete" /\ at' = at /\ held' = held /\ doomed' = doomed
      BY <1>11 DEF Collect, Own
    <2> DEFINE d == [c EXCEPT !.ms = read, !.todo = "modify"]
    <2>3. Allowed(d) /\ (Ends(c) \/ Becomes(c, d))
      BY <2>1, <2>2, ProgressAllowed
    <2> HIDE DEF d
    <2>4. \A e \in calls' : Allowed(e)'
      BY <2>2, <2>3, <1>10
    <2> QED BY <2>2, <2>4 DEF KeepInv, InSent
  <1>12. ASSUME NEW c \in calls, Modify(c) PROVE Kept /\ Still
    <2>1. /\ at' = at \/ at' = Relabelled(c, c.ms)
          /\ held' = held /\ doomed' = doomed /\ Ends(c)
      BY <1>12 DEF Modify, Own
    <2>2. Allowed(c)
      BY DEF KeepInv
    <2>3. \A e \in calls' : Allowed(e)'
      BY <2>1, <2>2, <1>10
    <2>4. InSent' = InSent
      BY <2>1, SentStays
    <2> QED BY <2>1, <2>3, <2>4 DEF KeepInv
  <1>13. ASSUME NEW c \in calls, NEW m \in Messages, Each(c, m)
         PROVE  Kept /\ (Still \/ Labelled!Next)
    <2> DEFINE good == [c EXCEPT !.ms = @ \ {m}, !.done = @ + 1]
               bad == [c EXCEPT !.ms = @ \ {m}, !.done = @ + 1, !.ok = FALSE]
    <2>1. Ends(c) \/ Becomes(c, good) \/ Becomes(c, bad)
      BY <1>13, SMTT(30) DEF Each
    <2>2. Allowed(good) /\ Allowed(bad)
      BY ProgressAllowed
    <2>3. doomed' = doomed /\ m \in c.ms
      BY <1>13 DEF Each, Own
    <2>4. \/ c.todo # "delete" /\ held' = held /\ (at' = at \/ at' = Relabelled(c, {m}))
          \/ held' = held /\ at' = at
          \/ c.todo = "delete" /\ held' = held \ {m} /\ at' = [at EXCEPT ![m] = {}]
      BY <1>13 DEF Each
    <2> HIDE DEF good, bad
    <2>5. \A e \in calls' : Allowed(e)'
      BY <2>1, <2>2, <2>3, <1>10
    <2>6. CASE held' = held /\ (at' = at \/ at' = Relabelled(c, {m}))
      <3>1. InSent' = InSent
        BY <2>6, SentStays
      <3> QED BY <2>3, <2>5, <2>6, <3>1 DEF KeepInv
    <2>7. CASE c.todo = "delete" /\ held' = held \ {m} /\ at' = [at EXCEPT ![m] = {}]
      <3>1. m \in doomed
        BY <2>3, <2>7 DEF KeepInv, Allowed
      <3>2. InSent' = InSent \cap held'
        BY <2>7 DEF InSent, KeepInv, LabelInv
      <3>3. Labelled!Destroy
        BY <2>3, <2>7, <3>1, <3>2 DEF Labelled!Destroy
      <3> QED BY <2>3, <2>5, <2>7, <3>3 DEF Labelled!Next, KeepInv
    <2> QED BY <2>4, <2>6, <2>7
  <1>14. ASSUME NEW m \in Messages, OtherClient(m) PROVE Kept /\ Still
    <2>1. /\ at' = [at EXCEPT ![m] = @ \cup {"INBOX"}]
          /\ held' = held /\ calls' = calls /\ doomed' = doomed
      BY <1>14 DEF OtherClient, Own
    <2>2. InSent' = InSent
      BY <2>1 DEF InSent, KeepInv, LabelInv
    <2> QED BY <2>1, <2>2 DEF KeepInv, Allowed
  <1>15. CASE UNCHANGED vars
    BY <1>15 DEF vars, KeepInv, InSent, Allowed
  <1> QED
    BY <1>4, <1>5, <1>6, <1>7, <1>8, <1>9, <1>11, <1>12, <1>13, <1>14, <1>15 DEF Next

(* The Gmail client keeps the contract of a mailbox: a message is lost only *)
(* to a permanent deletion that named it, and nothing ever leaves Sent      *)
(* (GmailMailProvider.ts, moveToFolder: "SENT and DRAFT are immutable").    *)
THEOREM GmailKeepsMailbox == Spec => Labelled!Spec
  <1>1. Spec => []KeepInv
    BY InitKept, StepIsKept, PTL DEF Spec
  <1>2. KeepInv /\ [Next]_vars => [Labelled!Next]_(Labelled!vars)
    BY StepIsKept
  <1> QED BY InitKept, <1>1, <1>2, PTL DEF Spec, Labelled!Spec
----------------------------------------------------------------------------
(* MailTransfer: what a move of conversations puts in the trash, for every   *)
(* set of conversations, limit of a listing and number of transfers.        *)

(* A transfer still has to copy what it listed and has not copied; it comes *)
(* to the trash with nothing left to copy.                                  *)
Job == [n : Nat, operation : Transferring!Operations, selected : SUBSET Conversations,
        at : {"list", "copy", "collect", "trash", "end"}, rest : SUBSET Conversations,
        listed : SUBSET Transferring!Originals, todo : SUBSET Transferring!Originals,
          ids : SUBSET Transferring!Originals]
Remaining(t) == t.listed \ drafts \subseteq copied \cup t.todo
Owes(t) == /\ t \in Job
           /\ t.at # "list" => Remaining(t)
           /\ t.at = "trash" => t.todo = {}

CopyInv == /\ uncopied = {} /\ begun \in Nat
           /\ \A t \in transfers : Owes(t)

LEMMA InitCopied == Transferring!Init => CopyInv
  BY DEF Transferring!Init, CopyInv

(* Transfers that keep their promise keep it while more is copied.          *)
LEMMA OthersOwe ==
    ASSUME CopyInv, drafts' = drafts, copied \subseteq copied', NEW u, Owes(u)',
           NEW t \in transfers, Transferring!Goes(t, u) \/ transfers' = transfers \ {t}
    PROVE  \A s \in transfers' : Owes(s)'
  BY DEF CopyInv, Owes, Remaining, Transferring!Goes

LEMMA StepCopies == CopyInv /\ [Transferring!Next]_(Transferring!vars) => CopyInv'
  <1> SUFFICES ASSUME CopyInv, [Transferring!Next]_(Transferring!vars) PROVE CopyInv'
    OBVIOUS
  <1>1. ASSUME NEW cs \in SUBSET Conversations, NEW operation \in Transferring!Operations,
                 Transferring!Transfer(cs, operation)
        PROVE  CopyInv'
    <2> DEFINE u == [n |-> begun, operation |-> operation, selected |-> cs, at |-> "list",
                     rest |-> cs, listed |-> {}, todo |-> {}, ids |-> {}]
    <2>1. transfers' = transfers \cup {u} /\ begun' = begun + 1
          /\ drafts' = drafts /\ copied' = copied /\ uncopied' = uncopied
      BY <1>1 DEF Transferring!Transfer
    <2>2. u \in Job /\ u.at = "list"
      BY DEF Job, CopyInv
    <2> HIDE DEF u
    <2> QED BY <2>1, <2>2 DEF CopyInv, Owes, Remaining
  <1>2. ASSUME NEW t \in transfers, Transferring!List(t) PROVE CopyInv'
    <2>1. t \in Job
      BY DEF CopyInv, Owes
    <2>0. PICK c \in t.rest : \E found \in Transferring!Listings(c,
                 {"inbox", "drafts", "trash"}) :
             Transferring!Goes(t,
               [t EXCEPT !.rest = @ \ {c}, !.listed = found, !.todo = found \ drafts,
                 !.at = "copy"])
      BY <1>2 DEF Transferring!List
    <2>2. PICK found \in Transferring!Listings(c, {"inbox", "drafts", "trash"}) :
             Transferring!Goes(t,
               [t EXCEPT !.rest = @ \ {c}, !.listed = found, !.todo = found \ drafts,
                 !.at = "copy"])
      BY <2>0
    <2>7. PICK todo : todo = found \ drafts
      OBVIOUS
    <2>3. found \in SUBSET Transferring!Originals
      BY <2>2 DEF Transferring!Listings, Transferring!Of
    <2> DEFINE u == [t EXCEPT !.rest = @ \ {c}, !.listed = found, !.todo = todo, !.at = "copy"]
    <2>5. Transferring!Goes(t, u)
      BY <2>2, <2>7
    <2>4. u \in Job /\ u.listed = found /\ u.todo = todo /\ u.at = "copy"
      <3> DEFINE a == [t EXCEPT !.rest = t.rest \ {c}]
                 b == [a EXCEPT !.listed = found]
                 d == [b EXCEPT !.todo = todo]
      <3>1. a \in Job
        BY <2>1 DEF Job
      <3> HIDE DEF a
      <3>2. b \in Job /\ b.listed = found
        BY <3>1, <2>3 DEF Job
      <3> HIDE DEF b
      <3>3. d \in Job /\ d.listed = found /\ d.todo = todo
        BY <3>2, <2>3, <2>7 DEF Job
      <3> HIDE DEF d
      <3>4. LET e == [d EXCEPT !.at = "copy"]
            IN  e \in Job /\ e.listed = found /\ e.todo = todo /\ e.at = "copy"
        BY <3>3 DEF Job
      <3> QED BY <3>4 DEF a, b, d
    <2> HIDE DEF u
    <2>6. Owes(u)'
      BY <1>2, <2>4, <2>7 DEF Owes, Remaining, Transferring!List
    <2> QED BY <1>2, <2>5, <2>6, OthersOwe DEF Transferring!List, CopyInv
  <1>3. ASSUME NEW t \in transfers, NEW m \in Transferring!Originals, Transferring!Copy(t, m)
                 PROVE CopyInv'
    <2> DEFINE u == [t EXCEPT !.todo = @ \ {m}]
    <2>1. t \in Job /\ t.at = "copy" /\ Remaining(t)
      BY <1>3 DEF CopyInv, Owes, Transferring!Copy
    <2>2. u \in Job /\ u.todo = t.todo \ {m} /\ u.listed = t.listed /\ u.at = "copy"
      BY <2>1 DEF Job
    <2>3. Transferring!Goes(t, u)
      BY <1>3 DEF Transferring!Copy
    <2> HIDE DEF u
    <2>4. Owes(u)'
      BY <1>3, <2>1, <2>2 DEF Owes, Remaining, Transferring!Copy
    <2> QED BY <1>3, <2>3, <2>4, OthersOwe DEF Transferring!Copy, CopyInv
  <1>4. ASSUME NEW t \in transfers, Transferring!Collect(t) PROVE CopyInv'
    <2>1. PICK c \in Transferring!Current(t) :
            \E ids \in IF kind = "ews" THEN Transferring!Listings(c, {"inbox"})
                                       ELSE {Transferring!Whole(c)} :
             Transferring!Goes(t, [t EXCEPT !.ids = ids, !.at = "trash"])
      BY <1>4 DEF Transferring!Collect
    <2>2. PICK ids \in SUBSET Transferring!Originals : Transferring!Goes(t,
                 [t EXCEPT !.ids = ids, !.at = "trash"])
      BY <2>1 DEF Transferring!Listings, Transferring!Whole, Transferring!Of
    <2> DEFINE u == [t EXCEPT !.ids = ids, !.at = "trash"]
    <2>3. t \in Job /\ t.at = "copy" /\ Remaining(t) /\ t.todo = {}
      BY <1>4 DEF CopyInv, Owes, Transferring!Collect, Transferring!MayCollect
    <2>4. u \in Job /\ u.todo = {} /\ u.listed = t.listed
      BY <2>3 DEF Job
    <2>5. Transferring!Goes(t, u)
      BY <2>2
    <2> HIDE DEF u
    <2>6. Owes(u)'
      BY <1>4, <2>3, <2>4 DEF Owes, Remaining, Transferring!Collect
    <2> QED BY <1>4, <2>5, <2>6, OthersOwe DEF Transferring!Collect, CopyInv
  <1>5. ASSUME NEW t \in transfers, Transferring!Trash(t) PROVE CopyInv'
    <2> DEFINE u == [t EXCEPT !.at = "list"]
    <2>1. t \in Job /\ Remaining(t) /\ t.todo = {}
      BY <1>5 DEF CopyInv, Owes, Transferring!Trash
    <2>2. u \in Job /\ u.at = "list"
      BY <2>1 DEF Job
    <2>3. Transferring!Goes(t, u) /\ uncopied' = {}
      BY <1>5, <2>1 DEF Transferring!Trash, CopyInv, Remaining
    <2> HIDE DEF u
    <2>4. Owes(u)'
      BY <2>2 DEF Owes
    <2> QED BY <1>5, <2>3, <2>4, OthersOwe DEF Transferring!Trash, CopyInv
  <1>6. ASSUME NEW t \in transfers, Transferring!Keep(t) PROVE CopyInv'
    <2> DEFINE u == [t EXCEPT !.at = "list"]
    <2>1. t \in Job
      BY DEF CopyInv, Owes
    <2>2. u \in Job /\ u.at = "list"
      BY <2>1 DEF Job
    <2>3. Transferring!Goes(t, u)
      BY <1>6 DEF Transferring!Keep
    <2> HIDE DEF u
    <2>4. Owes(u)'
      BY <2>2 DEF Owes
    <2> QED BY <1>6, <2>3, <2>4, OthersOwe DEF Transferring!Keep, CopyInv
  <1>7. ASSUME NEW t \in transfers, Transferring!Done(t) \/ Transferring!Fails(t)
                 \/ \E m \in Transferring!Originals : Transferring!CopyUnanswered(t, m)
        PROVE  CopyInv'
    <2>1. /\ transfers' = transfers \ {t} /\ copied \subseteq copied'
          /\ UNCHANGED <<drafts, uncopied, begun>>
      BY <1>7 DEF Transferring!Done, Transferring!Fails, Transferring!CopyUnanswered
    <2> QED BY <2>1 DEF CopyInv, Owes, Remaining
  <1>8. ASSUME NEW m \in Transferring!Originals, Transferring!Arrive(m) PROVE CopyInv'
    BY <1>8 DEF Transferring!Arrive, CopyInv, Owes, Remaining
  <1>9. CASE UNCHANGED Transferring!vars
    BY <1>9 DEF Transferring!vars, CopyInv, Owes, Remaining
  <1> QED BY <1>1, <1>2, <1>3, <1>4, <1>5, <1>6, <1>7, <1>8, <1>9 DEF Transferring!Next

(* Whatever fails, arrives or runs beside it, a message that a move listed  *)
(* is put in the trash only after its copy was imported                     *)
(* (transferConversations, MailPage.tsx).                                   *)
THEOREM MovesAreCopied == MCSpec => []MovedIsCopied
  <1> DEFINE Inv == part = "transfer" => CopyInv
  <1>1. MCInit => Inv
    BY PartsStart, InitCopied
  <1>2. Inv /\ [MCNext]_<<part, acting, reading>> => Inv'
    BY PartStays, PartsStep, StepCopies
  <1>3. Inv => MovedIsCopied
    BY DEF CopyInv, MovedIsCopied, Transferring!MovedIsCopied
  <1> QED BY <1>1, <1>2, <1>3, PTL DEF MCSpec
-----------------------------------------------------------------------------
(* OpenConversation: a deleted message stays out, for any messages, requests *)
(* and deletions.                                                           *)

(* What an answer about a folder may not list any more.                      *)
Away(v) == IF v = "inbox" THEN removed["inbox"] \cup removed["deleteditems"]
           ELSE removed["deleteditems"]

Deletion == [of : Messages, from : Conversation!Views,
             before : [Conversation!Views -> Conversation!Entry],
             at : {"sent", "done", "failed"}]

OpenTypes == /\ kind \in Conversation!Kinds /\ where \in [Messages -> Conversation!Places]
             /\ copy \in Conversation!Entry /\ view \in Conversation!Views
             /\ data \in [Conversation!Views -> Conversation!Entry]
             /\ fetch \in [Conversation!Views ->
                             [at : {"idle", "asked", "answered"}, rows : SUBSET Messages]]
             /\ removed \in [Conversation!Views -> SUBSET Messages]
             /\ excused \in BOOLEAN /\ deletions \subseteq Deletion

(* A message deleted from a folder does not come back to it.                 *)
Out(m, from) == where[m] # "inbox" /\ (from = "deleteditems" => where[m] = "gone")

(* Nothing on its way to the screen has a deleted message: not the answers   *)
(* received, nor the copy for what was deleted from the inbox.               *)
StaysOut == /\ \A v \in Conversation!Views : data[v].rows \cap Away(v) = {}
            /\ \A v \in Conversation!Views :
                  fetch[v].at = "answered" => fetch[v].rows \cap Away(v) = {}
            /\ copy.rows \cap removed["inbox"] = {}

OpenInv == /\ OpenTypes
           /\ \A c \in deletions : c.at = "done" => Out(c.of, c.from)
           /\ \A v \in Conversation!Views : \A m \in removed[v] : Out(m, v)
           /\ kind # "jmap" /\ ~excused => StaysOut

LEMMA EntriesTyped ==
    /\ Conversation!NoData \in Conversation!Entry /\ Conversation!NoData.rows = {}
    /\ \A set \in SUBSET Messages :
          Conversation!Rows(set) \in Conversation!Entry /\ Conversation!Rows(set).rows = set
    /\ Conversation!Idle.at = "idle" /\ Conversation!Asked.at = "asked"
    /\ {Conversation!Idle, Conversation!Asked} \subseteq
          [at : {"idle", "asked", "answered"}, rows : SUBSET Messages]
  BY DEF Conversation!Entry, Conversation!NoData, Conversation!Rows, Conversation!Idle,
         Conversation!Asked

LEMMA OpenStarts == Conversation!Init => OpenInv
  <1> SUFFICES ASSUME Conversation!Init PROVE OpenInv
    OBVIOUS
  <1>1. where \in [Messages -> Conversation!Places]
    BY DEF Conversation!Init, Conversation!Places
  <1>2. copy \in Conversation!Entry
    BY EntriesTyped DEF Conversation!Init
  <1>3. OpenTypes
    BY <1>1, <1>2, EntriesTyped DEF Conversation!Init, OpenTypes, Conversation!Views
  <1>4. StaysOut
    BY EntriesTyped DEF Conversation!Init, StaysOut, Away, Conversation!Views
  <1> QED BY <1>3, <1>4 DEF OpenInv, Conversation!Init

(* An answer lists no deleted message.                                      *)
LEMMA ListedIsOut ==
    ASSUME OpenInv, kind # "jmap", NEW v \in Conversation!Views
    PROVE  Conversation!Listed(v) \cap Away(v) = {}
  <1>1. Conversation!Listed(v) = Conversation!In(Conversation!Wanted(v))
    BY DEF OpenInv, OpenTypes, Conversation!Kinds, Conversation!Listed, Conversation!EwsHeaders,
           Conversation!ConversationItems, Conversation!FoundInFolders, Conversation!GmailThread
  <1> QED BY <1>1 DEF OpenInv, OpenTypes, Out, Away, Conversation!In, Conversation!Wanted,
                      Conversation!Views

(* Steps that remove nothing and receive nothing keep what is out.           *)
LEMMA OutStays ==
    ASSUME OpenInv, OpenTypes', UNCHANGED <<kind, where, removed>>,
           \A c \in deletions' : c \in deletions \/ c.at # "done",
           excused => excused',
           \A v \in Conversation!Views :
              data'[v].rows \subseteq data[v].rows /\ (fetch'[v].at = "answered"
                => fetch'[v] = fetch[v]),
           copy' = copy
    PROVE  OpenInv'
  <1>1. ASSUME kind # "jmap", ~excused' PROVE StaysOut'
    <2>1. StaysOut
      BY <1>1 DEF OpenInv
    <2> QED BY <2>1 DEF StaysOut, Away
  <1> QED BY <1>1 DEF OpenInv, Out

LEMMA ScreenKeepsOut ==
    ASSUME OpenInv, \/ Conversation!Close \/ Conversation!Refetch
                    \/ \E v \in Conversation!Views : Conversation!Open(v)
    PROVE  OpenInv'
  <1>0. OpenTypes
    BY DEF OpenInv
  <1>1. CASE Conversation!Close
    BY <1>0, <1>1, OutStays DEF Conversation!Close, Conversation!server, OpenTypes
  <1>2. ASSUME NEW v \in Conversation!Views, Conversation!Start(v)
        PROVE  /\ fetch' \in [Conversation!Views ->
                             [at : {"idle", "asked", "answered"}, rows : SUBSET Messages]]
               /\ \A w \in Conversation!Views : fetch'[w].at = "answered"
                    => fetch'[w] = fetch[w]
    BY <1>0, <1>2, EntriesTyped DEF Conversation!Start, OpenTypes
  <1>3. CASE Conversation!Refetch
    <2>1. Conversation!Start(view) /\ view \in Conversation!Views
      BY <1>0, <1>3 DEF Conversation!Refetch, OpenTypes
    <2>2. OpenTypes'
      BY <1>0, <1>2, <1>3, <2>1 DEF Conversation!Refetch, Conversation!server,
         Conversation!screen, OpenTypes
    <2> QED BY <1>2, <1>3, <2>1, <2>2, OutStays DEF Conversation!Refetch, Conversation!server
  <1>4. ASSUME NEW v \in Conversation!Views, Conversation!Open(v) PROVE OpenInv'
    <2>1. Conversation!Start(v) \/ fetch' = fetch
      BY <1>4 DEF Conversation!Open
    <2>2. OpenTypes'
      BY <1>0, <1>2, <1>4, <2>1 DEF Conversation!Open, Conversation!server, OpenTypes
    <2> QED BY <1>2, <1>4, <2>1, <2>2, OutStays DEF Conversation!Open, Conversation!server
  <1> QED BY <1>1, <1>3, <1>4

LEMMA AnswersKeepOut ==
    ASSUME OpenInv, NEW v \in Conversation!Views,
           Conversation!Serve(v) \/ Conversation!Receive(v) \/ Conversation!Fails(v)
    PROVE  OpenInv'
  <1> USE DEF Conversation!server, Conversation!screen
  <1>0. OpenTypes
    BY DEF OpenInv
  <1>n. /\ \A c \in deletions : c.at = "done" => Out(c.of, c.from)
        /\ \A w \in Conversation!Views : \A m \in removed[w] : Out(m, w)
        /\ kind # "jmap" /\ ~excused => StaysOut
    BY DEF OpenInv
  <1>1. CASE Conversation!Serve(v)
    <2> DEFINE answer == [at |-> "answered", rows |-> Conversation!Listed(v)]
    <2>1. Conversation!Listed(v) \in SUBSET Messages
      BY <1>0 DEF OpenTypes, Conversation!Kinds, Conversation!Listed, Conversation!EwsHeaders,
             Conversation!ConversationItems, Conversation!FoundInFolders,
               Conversation!GmailThread,
             Conversation!JmapThread, Conversation!In
    <2>2. OpenTypes'
      BY <1>0, <1>1, <2>1 DEF Conversation!Serve, OpenTypes
    <2>3. ASSUME kind # "jmap", ~excused' PROVE StaysOut'
      <3>1. StaysOut /\ Conversation!Listed(v) \cap Away(v) = {}
        BY <1>1, <1>n, <2>3, ListedIsOut DEF Conversation!Serve
      <3>2. fetch'[v].rows = Conversation!Listed(v)
        BY <1>0, <1>1 DEF Conversation!Serve, OpenTypes
      <3>3. \A w \in Conversation!Views \ {v} : fetch'[w] = fetch[w]
        BY <1>0, <1>1 DEF Conversation!Serve, OpenTypes
      <3> QED BY <1>1, <3>1, <3>2, <3>3 DEF Conversation!Serve, StaysOut, Away
    <2> QED BY <1>1, <1>n, <2>2, <2>3 DEF Conversation!Serve, OpenInv, Out
  <1>2. CASE Conversation!Receive(v)
    <2>1. fetch[v].rows \in SUBSET Messages
      BY <1>0 DEF OpenTypes
    <2>2. OpenTypes'
      BY <1>0, <1>2, <2>1, EntriesTyped DEF Conversation!Receive, OpenTypes
    <2>3. ASSUME kind # "jmap", ~excused' PROVE StaysOut'
      <3>1. StaysOut
        BY <1>2, <1>n, <2>3 DEF Conversation!Receive
      <3>2. data'[v].rows = fetch[v].rows /\ fetch[v].at = "answered" /\ fetch'[v].at = "idle"
        BY <1>0, <1>2, <2>1, EntriesTyped DEF Conversation!Receive, OpenTypes
      <3>3. \A w \in Conversation!Views \ {v} : fetch'[w] = fetch[w] /\ data'[w] = data[w]
        BY <1>0, <1>2 DEF Conversation!Receive, OpenTypes
      <3> QED BY <1>2, <3>1, <3>2, <3>3 DEF Conversation!Receive, StaysOut, Away
    <2> QED BY <1>2, <1>n, <2>2, <2>3 DEF Conversation!Receive, OpenInv, Out
  <1>3. CASE Conversation!Fails(v)
    <2> DEFINE stands == v = "inbox" /\ copy.there
    <2>1. copy.rows \in SUBSET Messages
      BY <1>0 DEF OpenTypes, Conversation!Entry
    <2>2. OpenTypes'
      <3>1. fetch' \in [Conversation!Views ->
                          [at : {"idle", "asked", "answered"}, rows : SUBSET Messages]]
        BY <1>0, <1>3, <2>1, EntriesTyped DEF Conversation!Fails, OpenTypes
      <3> QED BY <1>0, <1>3, <3>1 DEF Conversation!Fails, OpenTypes
    <2>3. ASSUME kind # "jmap", ~excused' PROVE StaysOut'
      <3>1. StaysOut /\ (v = "inbox" => copy.rows \cap removed["deleteditems"] = {})
        BY <1>3, <1>n, <2>3 DEF Conversation!Fails
      <3>2. fetch'[v].at = "answered" => v = "inbox" /\ fetch'[v].rows = copy.rows
        BY <1>0, <1>3, EntriesTyped DEF Conversation!Fails, OpenTypes
      <3>3. \A w \in Conversation!Views \ {v} : fetch'[w] = fetch[w]
        BY <1>0, <1>3 DEF Conversation!Fails, OpenTypes
      <3>4. \A w \in Conversation!Views : Away(w)' = Away(w)
        BY <1>3 DEF Conversation!Fails, Away
      <3>5. fetch'[v].at = "answered" => fetch'[v].rows \cap Away(v) = {}
        BY <3>1, <3>2 DEF StaysOut, Away
      <3> QED BY <1>3, <3>1, <3>3, <3>4, <3>5 DEF Conversation!Fails, StaysOut
    <2> QED BY <1>3, <1>n, <2>2, <2>3 DEF Conversation!Fails, OpenInv, Out
  <1> QED BY <1>1, <1>2, <1>3

LEMMA WithoutTyped ==
    ASSUME NEW entries \in [Conversation!Views -> Conversation!Entry], NEW m
    PROVE  /\ Conversation!Without(entries, m) \in [Conversation!Views -> Conversation!Entry]
           /\ \A v \in Conversation!Views :
                Conversation!Without(entries, m)[v].rows = entries[v].rows \ {m}
  BY DEF Conversation!Without, Conversation!Entry

LEMMA DeletionKeepsOut ==
    ASSUME OpenInv, NEW m \in Messages, Conversation!DeleteMessage(m) PROVE OpenInv'
  <1> USE DEF Conversation!server, Conversation!screen
  <1>0. OpenTypes
    BY DEF OpenInv
  <1> DEFINE c == [of |-> m, from |-> view, before |-> data, at |-> "sent"]
  <1>1. c \in Deletion /\ c.at # "done" /\ deletions' = deletions \cup {c}
    BY <1>0 DEF Conversation!DeleteMessage, OpenTypes, Deletion
  <1>2. data' = Conversation!Without(data, m)
    BY DEF Conversation!DeleteMessage
  <1>3. /\ data' \in [Conversation!Views -> Conversation!Entry]
        /\ \A v \in Conversation!Views : data'[v].rows \subseteq data[v].rows
    BY <1>0, <1>2, WithoutTyped DEF OpenTypes
  <1>4. /\ fetch' \in [Conversation!Views ->
                        [at : {"idle", "asked", "answered"}, rows : SUBSET Messages]]
        /\ \A v \in Conversation!Views : fetch'[v].at # "answered"
    BY EntriesTyped DEF Conversation!DeleteMessage
  <1> HIDE DEF c
  <1>5. OpenTypes'
    BY <1>0, <1>1, <1>3, <1>4 DEF Conversation!DeleteMessage, OpenTypes
  <1> QED BY <1>1, <1>3, <1>4, <1>5, OutStays DEF Conversation!DeleteMessage

LEMMA RequestKeepsOut ==
    ASSUME OpenInv, NEW c \in deletions, Conversation!Apply(c) \/ Conversation!Refuse(c)
    PROVE  OpenInv'
  <1> USE DEF Conversation!server, Conversation!screen
  <1>0. OpenTypes /\ c \in Deletion
    BY DEF OpenInv, OpenTypes
  <1>1. CASE Conversation!Refuse(c)
    <2>1. /\ [c EXCEPT !.at = "failed"] \in Deletion
          /\ [c EXCEPT !.at = "failed"].at # "done"
      BY <1>0 DEF Deletion
    <2>2. OpenTypes'
      BY <1>0, <1>1, <2>1 DEF Conversation!Refuse, OpenTypes
    <2> QED BY <1>1, <2>1, <2>2, OutStays DEF Conversation!Refuse
  <1>2. CASE Conversation!Apply(c)
    <2> DEFINE d == [c EXCEPT !.at = "done"]
    <2>1. d \in Deletion /\ d.of = c.of /\ d.from = c.from /\ c.of \in Messages
      BY <1>0 DEF Deletion
    <2>2. deletions' = (deletions \ {c}) \cup {d}
      BY <1>2 DEF Conversation!Apply
    <2> HIDE DEF d
    <2>3. where'[c.of] = IF c.from = "inbox" THEN "trash" ELSE "gone"
      BY <1>0, <1>2, <2>1 DEF Conversation!Apply, OpenTypes
    <2>4. /\ where' \in [Messages -> Conversation!Places] /\ where[c.of] # "gone"
          /\ \A m \in Messages \ {c.of} : where'[m] = where[m]
      BY <1>0, <1>2, <2>1 DEF Conversation!Apply, OpenTypes, Conversation!Places
    <2>5. OpenTypes'
      BY <1>0, <1>2, <2>1, <2>2, <2>4 DEF Conversation!Apply, OpenTypes
    <2>6. \A m \in Messages : \A v : Out(m, v) => Out(m, v)'
      BY <2>3, <2>4 DEF Out
    <2>7. Out(c.of, c.from)'
      BY <1>0, <2>3 DEF Out, Deletion, Conversation!Views
    <2>8. \A x \in deletions' : x.at = "done" => Out(x.of, x.from)'
      BY <1>0, <2>1, <2>2, <2>6, <2>7 DEF OpenInv, OpenTypes, Deletion
    <2>9. \A v \in Conversation!Views : \A m \in removed[v] : Out(m, v)'
      BY <1>0, <2>6 DEF OpenInv, OpenTypes
    <2>10. StaysOut => StaysOut'
      BY <1>2 DEF Conversation!Apply, StaysOut, Away
    <2> QED BY <1>2, <2>5, <2>8, <2>9, <2>10 DEF Conversation!Apply, OpenInv
  <1> QED BY <1>1, <1>2

LEMMA EndKeepsOut ==
    ASSUME OpenInv, NEW c \in deletions, Conversation!Deleted(c) \/ Conversation!RolledBack(c)
    PROVE  OpenInv'
  <1> USE DEF Conversation!server, Conversation!screen
  <1>0. OpenTypes /\ c \in Deletion /\ c.of \in Messages /\ c.from \in Conversation!Views
    BY DEF OpenInv, OpenTypes, Deletion
  <1>n. /\ \A x \in deletions : x.at = "done" => Out(x.of, x.from)
        /\ \A w \in Conversation!Views : \A m \in removed[w] : Out(m, w)
        /\ kind # "jmap" /\ ~excused => StaysOut
    BY DEF OpenInv
  <1>1. CASE Conversation!Deleted(c)
    <2>1. /\ data' \in [Conversation!Views -> Conversation!Entry]
          /\ \A v \in Conversation!Views : data'[v].rows = data[v].rows \ {c.of}
      BY <1>0, <1>1, WithoutTyped DEF Conversation!Deleted, Conversation!Kept, OpenTypes
    <2>2. /\ fetch' \in [Conversation!Views ->
                          [at : {"idle", "asked", "answered"}, rows : SUBSET Messages]]
          /\ \A v \in Conversation!Views : fetch'[v].at = "answered" => fetch'[v] = fetch[v]
          /\ Conversation!Restarts => fetch'[view].at = "asked"
      BY <1>0, <1>1, EntriesTyped DEF Conversation!Deleted, OpenTypes
    <2>3. /\ removed' \in [Conversation!Views -> SUBSET Messages]
          /\ \A v \in Conversation!Views :
                removed'[v] = IF v = c.from THEN removed[v] \cup {c.of} ELSE removed[v]
      BY <1>0, <1>1 DEF Conversation!Deleted, OpenTypes
    <2>4. /\ copy' \in Conversation!Entry
          /\ copy'.rows = IF c.from = "inbox" THEN copy.rows \ {c.of} ELSE copy.rows
      BY <1>0, <1>1 DEF Conversation!Deleted, OpenTypes, Conversation!Entry
    <2>5. excused' \in BOOLEAN
      BY <1>0, <1>1 DEF Conversation!Deleted, OpenTypes
    <2>6. OpenTypes'
      BY <1>0, <1>1, <2>1, <2>2, <2>3, <2>4, <2>5 DEF Conversation!Deleted, OpenTypes
    <2>7. \A w \in Conversation!Views : \A m \in removed'[w] : Out(m, w)'
      BY <1>1, <1>n, <2>3 DEF Conversation!Deleted, Out
    <2>8. ASSUME kind # "jmap", ~excused' PROVE StaysOut'
      <3>1. StaysOut /\ \A v \in Conversation!Views : fetch'[v].at # "answered"
        BY <1>1, <1>n, <2>2, <2>8 DEF Conversation!Deleted
      <3>2. "inbox" \in Conversation!Views /\ "deleteditems" \in Conversation!Views
        BY DEF Conversation!Views
      <3>3. \A v \in Conversation!Views : Away(v)' \subseteq Away(v) \cup {c.of}
        BY <2>3, <3>2 DEF Away
      <3> QED BY <2>1, <2>3, <2>4, <3>1, <3>2, <3>3 DEF StaysOut
    <2> QED BY <1>1, <1>n, <2>6, <2>7, <2>8 DEF Conversation!Deleted, OpenInv, Out
  <1>2. CASE Conversation!RolledBack(c)
    <2>1. \A v \in Conversation!Views :
            data'[v] = IF c.before[v].there THEN c.before[v] ELSE data[v]
      BY <1>2 DEF Conversation!RolledBack
    <2>2. data' \in [Conversation!Views -> Conversation!Entry] /\ excused' \in BOOLEAN
      BY <1>0, <1>2 DEF Conversation!RolledBack, OpenTypes, Deletion
    <2>3. OpenTypes'
      BY <1>0, <1>2, <2>2 DEF Conversation!RolledBack, OpenTypes
    <2>4. ASSUME kind # "jmap", ~excused' PROVE StaysOut'
      <3>1. /\ StaysOut
            /\ \A v, w \in Conversation!Views : c.before[v].rows \cap removed[w] = {}
        BY <1>2, <1>n, <2>4 DEF Conversation!RolledBack
      <3>2. \A v \in Conversation!Views : c.before[v].rows \cap Away(v) = {}
        BY <3>1 DEF Away, Conversation!Views
      <3>3. \A v \in Conversation!Views : data'[v].rows \cap Away(v) = {}
        BY <2>1, <3>1, <3>2 DEF StaysOut
      <3> QED BY <1>2, <3>1, <3>3 DEF Conversation!RolledBack, StaysOut, Away
    <2> QED BY <1>2, <1>n, <2>3, <2>4 DEF Conversation!RolledBack, OpenInv, Out
  <1> QED BY <1>1, <1>2

LEMMA OpenStep == OpenInv /\ [Conversation!Next]_(Conversation!vars) => OpenInv'
  <1> SUFFICES ASSUME OpenInv, [Conversation!Next]_(Conversation!vars) PROVE OpenInv'
    OBVIOUS
  <1>1. CASE UNCHANGED Conversation!vars
    BY <1>1 DEF Conversation!vars, OpenInv, OpenTypes, StaysOut, Away, Out
  <1>2. CASE Conversation!Next
    BY <1>2, ScreenKeepsOut, AnswersKeepOut, DeletionKeepsOut, RequestKeepsOut, EndKeepsOut
       DEF Conversation!Next
  <1> QED BY <1>1, <1>2

\* A message whose deletion succeeded does not come back to the conversation that
\* is open (useMailConversation, handleDeleteMessage): not with an answer given
\* before, nor with the entries another deletion puts back.
THEOREM DeletedIsOut == MCSpec => []DeletedStaysOut
  <1> DEFINE Inv == part = "conversation" => OpenInv
  <1>1. MCInit => Inv
    BY PartsStart, OpenStarts
  <1>2. Inv /\ [MCNext]_<<part, acting, reading>> => Inv'
    BY PartStays, PartsStep, OpenStep
  <1>3. Inv => DeletedStaysOut
    BY DEF OpenInv, StaysOut, Away, Conversation!Views, DeletedStaysOut,
           Conversation!DeletedStaysOut
  <1> QED BY <1>1, <1>2, <1>3, PTL DEF MCSpec

----------------------------------------------------------------------------
(* MailSending: what a send answers is true, for every number of sends and  *)
(* of attachments.                                                          *)
Steps == {"create", "save", "attach", "get", "submit", "lookup", "import", "verify"}
Sent == [by : Sending!Providers, atts : Nat, sched : BOOLEAN, todo : Seq(Steps),
         answer : {"none", "ok", "error"}, lost : BOOLEAN, item : Sending!Locations, has : Nat,
         fate : {"none", "held", "out", "cancelled"}, out : Nat, told : BOOLEAN]

(* The request that leaves d of them to make, itself among them.            *)
Closing(sched) == IF sched THEN 1 ELSE 2
Ahead(p, atts, sched, d) ==
  IF p = "ews"
  THEN IF atts = 0 THEN "create"
       ELSE IF d = Closing(sched) THEN "get"
       ELSE IF d < Closing(sched) + 1 THEN "submit"
       ELSE IF d <= Closing(sched) + atts THEN "attach" ELSE "save"
  ELSE IF p = "jmap"
  THEN LET left == IF sched THEN d - 1 ELSE d
       IN IF left = 0 THEN "verify" ELSE IF left = 1 THEN "submit" ELSE IF left = 2
         THEN "import" ELSE "lookup"
  ELSE IF d = 1 THEN "submit" ELSE "lookup"
Most(p, atts, sched) ==
  CASE p = "ews" -> IF atts = 0 THEN 1 ELSE Closing(sched) + atts + 1
    [] p = "jmap" -> IF sched THEN 4 ELSE 3
    [] p = "gmail" -> 2
    [] p = "imap" -> 1

(* What the server holds of a send under way, d requests before its end.    *)
Halfway(s, d) ==
  /\ ~s.sched => s.fate = "none"
  /\ s.by = "jmap" /\ s.sched => (s.fate = "none" <=> d # 1)
  /\ s.by = "ews" /\ s.sched /\ d < Most(s.by, s.atts, s.sched) => s.item = "outbox"
       \/ s.fate # "none"
  /\ s.by = "ews" /\ ~s.sched =>
       s.has = IF d <= 2 THEN s.atts ELSE IF d = s.atts + 3 THEN 0 ELSE s.atts + 2 - d
  /\ s.by = "jmap" /\ ~s.sched /\ d = 1 => s.has = s.atts
UnderWay(s) ==
  LET d == Len(s.todo) IN
  /\ d \in 1..Most(s.by, s.atts, s.sched)
  /\ \A i \in 1..d : s.todo[i] = Ahead(s.by, s.atts, s.sched, d - i + 1)
  /\ Halfway(s, d)

SendOK(s) ==
  /\ s \in Sent
  /\ s.sched => s.by \in {"ews", "jmap"}
  /\ s.item = "outbox" => s.by = "ews" /\ s.sched
  /\ s.fate \in {"held", "cancelled"} => s.by = "jmap" /\ s.sched
  /\ s.answer = "none" => UnderWay(s)
  /\ s.answer = "ok" => s.fate # "none" \/ s.item = "outbox"
  /\ s.answer = "error" /\ ~s.lost /\ ~s.sched => s.fate = "none"
  /\ s.fate = "out" /\ ~s.sched => s.out = s.atts
  /\ s.told => s.fate = "cancelled"

SendingInv == sends \in Seq(Sent) /\ \A n \in DOMAIN sends : SendOK(sends[n])

(* The requests of a send, counted from the end.                            *)
LEMMA RequestsAhead ==
    ASSUME NEW p \in Sending!Providers, NEW atts \in Nat, NEW sched \in BOOLEAN,
           sched => p \in {"ews", "jmap"}, NEW r, r = Sending!Requests(p, atts, sched)
    PROVE  /\ r \in Seq(Steps) /\ Len(r) = Most(p, atts, sched)
           /\ \A i \in 1..Len(r) : r[i] = Ahead(p, atts, sched, Len(r) - i + 1)
  <1>1. CASE p = "ews" /\ atts = 0
    <2>1. r = <<"create">>
      BY <1>1 DEF Sending!Requests
    <2>2. r \in Seq(Steps) /\ Len(r) = 1 /\ r[1] = "create"
      BY <2>1 DEF Steps
    <2>3. Most(p, atts, sched) = 1 /\ Ahead(p, atts, sched, 1) = "create"
      BY <1>1 DEF Most, Ahead
    <2> QED BY <2>2, <2>3
  <1>2. CASE p = "ews" /\ atts > 0
    <2> DEFINE a == [i \in 1..atts |-> "attach"]
               f == <<"save">> \o a
               g == f \o <<"get">>
    <2>1. r = IF sched THEN g ELSE g \o <<"submit">>
      <3>1. r = g \o (IF sched THEN <<>> ELSE <<"submit">>)
        <4>1. p = "ews" /\ ~(atts = 0) /\ atts > 0
          BY <1>2
        <4> QED BY <4>1, Zenon DEF Sending!Requests
      <3>2. g \in Seq(Steps)
        <4>1. a \in Seq(Steps) /\ <<"save">> \in Seq(Steps) /\ <<"get">> \in Seq(Steps)
          BY DEF Steps
        <4> HIDE DEF a
        <4> QED BY <4>1
      <3> HIDE DEF g
      <3>3. g \o <<>> = g
        BY <3>2
      <3> QED BY <3>1, <3>3
    <2>2. a \in Seq(Steps) /\ Len(a) = atts /\ \A i \in 1..atts : a[i] = "attach"
      BY DEF Steps
    <2> HIDE DEF a
    <2>3. /\ f \in Seq(Steps) /\ Len(f) = atts + 1 /\ f[1] = "save"
          /\ \A i \in 2..(atts + 1) : f[i] = "attach"
      <3>1. <<"save">> \in Seq(Steps)
        BY DEF Steps
      <3> QED BY <2>2, <3>1
    <2> HIDE DEF f
    <2>4. /\ g \in Seq(Steps) /\ Len(g) = atts + 2 /\ g[1] = "save" /\ g[atts + 2] = "get"
          /\ \A i \in 2..(atts + 1) : g[i] = "attach"
      <3>1. <<"get">> \in Seq(Steps)
        BY DEF Steps
      <3> QED BY <2>3, <3>1
    <2> HIDE DEF g
    <2>5. CASE sched
      <3>1. r = g
        BY <2>1, <2>5
      <3>2. Most(p, atts, sched) = atts + 2
        BY <1>2, <2>5 DEF Most, Closing
      <3>3. ASSUME NEW i \in 1..(atts + 2)
            PROVE  g[i] = Ahead(p, atts, sched, atts + 2 - i + 1)
        BY <1>2, <2>4, <2>5 DEF Ahead, Closing
      <3> QED BY <2>4, <3>1, <3>2, <3>3
    <2>6. CASE ~sched
      <3>1. r = g \o <<"submit">> /\ <<"submit">> \in Seq(Steps)
        BY <2>1, <2>6 DEF Steps
      <3>2. /\ r \in Seq(Steps) /\ Len(r) = atts + 3 /\ r[1] = "save" /\ r[atts + 2] = "get"
            /\ r[atts + 3] = "submit"
            /\ \A i \in 2..(atts + 1) : r[i] = "attach"
        BY <2>4, <3>1
      <3>3. Most(p, atts, sched) = atts + 3
        BY <1>2, <2>6 DEF Most, Closing
      <3>4. ASSUME NEW i \in 1..(atts + 3)
            PROVE  r[i] = Ahead(p, atts, sched, atts + 3 - i + 1)
        BY <1>2, <2>6, <3>2 DEF Ahead, Closing
      <3> QED BY <3>2, <3>3, <3>4
    <2> QED BY <2>5, <2>6
  <1>3. CASE p = "jmap" /\ sched
    <2>1. r = <<"lookup", "import", "submit">> \o <<"verify">>
      BY <1>3, Zenon DEF Sending!Requests
    <2>2. r \in Seq(Steps) /\ Len(r) = 4 /\ r[1] = "lookup" /\ r[2] = "import"
            /\ r[3] = "submit" /\ r[4] = "verify"
      <3>1. <<"lookup", "import", "submit">> \in Seq(Steps) /\ <<"verify">> \in Seq(Steps)
        BY DEF Steps
      <3> QED BY <2>1, <3>1
    <2>3. /\ Most(p, atts, sched) = 4 /\ Ahead(p, atts, sched, 4) = "lookup"
          /\ Ahead(p, atts, sched, 3) = "import"
          /\ Ahead(p, atts, sched, 2) = "submit" /\ Ahead(p, atts, sched, 1) = "verify"
      BY <1>3 DEF Most, Ahead
    <2> QED BY <2>2, <2>3
  <1>4. CASE p = "jmap" /\ ~sched
    <2>1. r = <<"lookup", "import", "submit">> \o <<>>
      BY <1>4, Zenon DEF Sending!Requests
    <2>2. r \in Seq(Steps) /\ Len(r) = 3 /\ r[1] = "lookup" /\ r[2] = "import"
            /\ r[3] = "submit"
      <3>1. <<"lookup", "import", "submit">> \in Seq(Steps)
        BY DEF Steps
      <3> QED BY <2>1, <3>1
    <2>3. /\ Most(p, atts, sched) = 3 /\ Ahead(p, atts, sched, 3) = "lookup"
          /\ Ahead(p, atts, sched, 2) = "import" /\ Ahead(p, atts, sched, 1) = "submit"
      BY <1>4 DEF Most, Ahead
    <2> QED BY <2>2, <2>3
  <1>5. CASE p = "gmail"
    <2>1. r = <<"lookup", "submit">>
      BY <1>5 DEF Sending!Requests
    <2>2. r \in Seq(Steps) /\ Len(r) = 2 /\ r[1] = "lookup" /\ r[2] = "submit"
      BY <2>1 DEF Steps
    <2>3. Most(p, atts, sched) = 2 /\ Ahead(p, atts, sched, 2) = "lookup"
            /\ Ahead(p, atts, sched, 1) = "submit"
      BY <1>5 DEF Most, Ahead
    <2> QED BY <2>2, <2>3
  <1>6. CASE p = "imap"
    <2>1. r = <<"submit">>
      BY <1>6 DEF Sending!Requests
    <2>2. r \in Seq(Steps) /\ Len(r) = 1 /\ r[1] = "submit"
      BY <2>1 DEF Steps
    <2>3. Most(p, atts, sched) = 1 /\ Ahead(p, atts, sched, 1) = "submit"
      BY <1>6 DEF Most, Ahead
    <2> QED BY <2>2, <2>3
  <1> QED BY <1>1, <1>2, <1>3, <1>4, <1>5, <1>6 DEF Sending!Providers

(* The next request of a send, and those after it.                          *)
LEMMA NextAhead ==
    ASSUME NEW s, s \in Sent, UnderWay(s)
    PROVE  /\ Len(s.todo) \in Nat /\ Len(s.todo) >= 1
           /\ Head(s.todo) = Ahead(s.by, s.atts, s.sched, Len(s.todo))
           /\ Tail(s.todo) \in Seq(Steps) /\ Len(Tail(s.todo)) = Len(s.todo) - 1
           /\ \A i \in 1..(Len(s.todo) - 1) :
                Tail(s.todo)[i] = Ahead(s.by, s.atts, s.sched, Len(s.todo) - 1 - i + 1)
  <1> DEFINE q == s.todo  d == Len(q)
  <1>1. q \in Seq(Steps) /\ d \in Nat /\ d >= 1
    BY DEF Sent, UnderWay, Most
  <1>2. \A i \in 1..d : q[i] = Ahead(s.by, s.atts, s.sched, d - i + 1)
    BY DEF UnderWay
  <1> HIDE DEF q
  <1>3. Head(q) = q[1] /\ d - 1 + 1 = d
    BY <1>1
  <1>4. /\ Tail(q) \in Seq(Steps) /\ Len(Tail(q)) = d - 1
        /\ \A i \in 1..(d - 1) : Tail(q)[i] = q[i + 1]
    BY <1>1
  <1>5. Head(q) = Ahead(s.by, s.atts, s.sched, d)
    BY <1>1, <1>2, <1>3
  <1>6. ASSUME NEW i \in 1..(d - 1)
        PROVE  Tail(q)[i] = Ahead(s.by, s.atts, s.sched, d - 1 - i + 1)
    <2>1. i + 1 \in 1..d /\ d - (i + 1) + 1 = d - 1 - i + 1
      BY <1>1
    <2> QED BY <1>2, <1>4, <2>1
  <1> QED BY <1>1, <1>4, <1>5, <1>6 DEF q

(* What an effect leaves of a send, with d - 1 requests to come.            *)
Done(s, e, d) ==
  /\ e \in Sent
  /\ e.by = s.by /\ e.atts = s.atts /\ e.sched = s.sched /\ e.todo = s.todo
  /\ e.answer = s.answer /\ e.lost = s.lost /\ e.told = s.told
  /\ e.item = "outbox" => e.by = "ews" /\ e.sched
  /\ e.fate \in {"held", "cancelled"} => e.by = "jmap" /\ e.sched
  /\ e.fate = "out" /\ ~e.sched => e.out = e.atts
  /\ e.told => e.fate = "cancelled"
  /\ d = 1 => e.fate # "none" \/ e.item = "outbox"
  /\ d > 1 => Halfway(e, d - 1)

(* Which request comes d requests before the end.                           *)
Coming(h, p, atts, sched, d) ==
  /\ h \in Steps
  /\ h = "create" => p = "ews" /\ atts = 0 /\ d = 1
  /\ h = "save" => p = "ews" /\ atts > 0 /\ d = Closing(sched) + atts + 1
  /\ h = "attach" => p = "ews" /\ atts > 0 /\ d > Closing(sched) /\ d <= Closing(sched) + atts
  /\ h = "get" => p = "ews" /\ atts > 0 /\ d = Closing(sched)
  /\ h = "submit" => \/ p = "ews" /\ ~sched /\ d = 1 /\ atts > 0
                     \/ p = "jmap" /\ d = (IF sched THEN 2 ELSE 1)
                     \/ p \in {"gmail", "imap"} /\ ~sched /\ d = 1
  /\ h = "import" => p = "jmap" /\ d = 1 + (IF sched THEN 2 ELSE 1)
  /\ h = "lookup" => \/ p = "jmap" /\ d = 2 + (IF sched THEN 2 ELSE 1)
                     \/ p = "gmail" /\ d = 2
  /\ h = "verify" => p = "jmap" /\ sched /\ d = 1
LEMMA AheadIs ==
    ASSUME NEW p \in {"ews", "jmap", "gmail", "imap"}, NEW atts \in Nat, NEW sched \in BOOLEAN,
           NEW d \in 1..Most(p, atts, sched), NEW h, h = Ahead(p, atts, sched, d),
           sched => p \in {"ews", "jmap"}
    PROVE  Coming(h, p, atts, sched, d)
  <1> DEFINE c == Closing(sched)
  <1>1. c = IF sched THEN 1 ELSE 2
    BY DEF Closing
  <1>3. CASE p = "ews" /\ atts = 0
    <2>1. d = 1 /\ h = "create"
      BY <1>3 DEF Most, Ahead
    <2> QED BY <1>3, <2>1 DEF Steps, Coming
  <1>4. CASE p = "ews" /\ atts > 0
    <2>1. d \in Nat /\ d >= 1 /\ d <= c + atts + 1
      BY <1>1, <1>4 DEF Most
    <2>2. h = IF d = c THEN "get" ELSE IF d < c + 1 THEN "submit" ELSE IF d <= c + atts
            THEN "attach" ELSE "save"
      BY <1>4 DEF Ahead
    <2> HIDE DEF c
    <2>3. d > c + atts => d = c + atts + 1
      BY <1>1, <2>1
    <2>4. d < c + 1 /\ d # c => ~sched /\ d = 1
      BY <1>1, <2>1
    <2>5. /\ h \in {"get", "submit", "attach", "save"}
          /\ h = "get" => d = c
          /\ h = "submit" => ~sched /\ d = 1
          /\ h = "attach" => d > c /\ d <= c + atts
          /\ h = "save" => d = c + atts + 1
      BY <1>1, <2>1, <2>2, <2>3, <2>4
    <2>6. c = Closing(sched)
      BY DEF c
    <2> QED BY <1>4, <2>5, <2>6 DEF Steps, Coming
  <1>5. CASE p = "jmap"
    <2>1. d \in Nat /\ d >= 1 /\ d <= (IF sched THEN 4 ELSE 3)
      BY <1>5 DEF Most
    <2>2. CASE sched
      <3>1. h = IF d = 1 THEN "verify" ELSE IF d = 2 THEN "submit" ELSE IF d = 3 THEN "import"
              ELSE "lookup"
        BY <1>5, <2>1, <2>2 DEF Ahead
      <3>2. /\ h \in {"verify", "submit", "import", "lookup"}
            /\ h = "verify" => d = 1
            /\ h = "submit" => d = 2
            /\ h = "import" => d = 3
            /\ h = "lookup" => d = 4
        <4>1. d \in {1, 2, 3, 4}
          BY <2>1, <2>2
        <4> QED BY <3>1, <4>1
      <3>3. (IF sched THEN 2 ELSE 1) = 2 /\ 2 + 2 = 4 /\ 1 + 2 = 3 /\ sched = TRUE
        BY <2>2
      <3> QED BY <1>5, <2>2, <3>2, <3>3 DEF Steps, Coming
    <2>3. CASE ~sched
      <3>1. h = IF d = 1 THEN "submit" ELSE IF d = 2 THEN "import" ELSE "lookup"
        BY <1>5, <2>1, <2>3 DEF Ahead
      <3>2. /\ h \in {"submit", "import", "lookup"}
            /\ h = "submit" => d = 1
            /\ h = "import" => d = 2
            /\ h = "lookup" => d = 3
        BY <2>1, <2>3, <3>1
      <3> QED BY <1>5, <2>3, <3>2 DEF Steps, Coming
    <2> QED BY <2>2, <2>3
  <1>6. CASE p = "gmail"
    <2>1. d \in {1, 2} /\ ~sched /\ h = IF d = 1 THEN "submit" ELSE "lookup"
      BY <1>6 DEF Most, Ahead
    <2> QED BY <1>6, <2>1 DEF Steps, Coming
  <1>7. CASE p = "imap"
    <2>1. d = 1 /\ ~sched /\ h = "submit"
      BY <1>7 DEF Most, Ahead
    <2> QED BY <1>7, <2>1 DEF Steps, Coming
  <1> QED BY <1>3, <1>4, <1>5, <1>6, <1>7


(* There is one request left, or there are more.                            *)
LEMMA NotOne == ASSUME NEW d \in Nat, d > 1 PROVE d # 1
  OBVIOUS
LEMMA OneOrMore == ASSUME NEW d \in Nat, d >= 1 PROVE d = 1 \/ d > 1
  OBVIOUS

(* A request that was made, or may have been, does what Done says.          *)
LEMMA EffectDone ==
    ASSUME NEW s, SendOK(s), s.answer = "none", Sending!Possible(s),
           NEW d \in Nat, d = Len(s.todo), NEW e, e = Sending!Effect(s)
    PROVE  Done(s, e, d)
  <1> DEFINE h == Head(s.todo)  m == Most(s.by, s.atts, s.sched)
  <1>1. s \in Sent /\ UnderWay(s)
    BY DEF SendOK
  <1>2. /\ s.by \in {"ews", "jmap", "gmail", "imap"} /\ s.atts \in Nat /\ s.sched \in BOOLEAN
        /\ s.has \in Nat /\ s.out \in Nat
    BY <1>1 DEF Sent, Sending!Providers
  <1>3. /\ d \in Nat /\ d >= 1 /\ h = Ahead(s.by, s.atts, s.sched, d)
        /\ d \in 1..Most(s.by, s.atts, s.sched) /\ d \in 1..m
        /\ Halfway(s, d)
    BY <1>1, NextAhead DEF UnderWay
  <1>9. d \in Nat /\ d >= 1
    BY <1>3
  <1>4. /\ s.sched => s.by \in {"ews", "jmap"}
        /\ s.item = "outbox" => s.by = "ews" /\ s.sched
        /\ s.fate \in {"held", "cancelled"} => s.by = "jmap" /\ s.sched
        /\ s.fate = "out" /\ ~s.sched => s.out = s.atts
        /\ s.told => s.fate = "cancelled"
    BY DEF SendOK
  <1> HIDE DEF h, m
  <1>5. /\ h \in Steps
        /\ h = "create" => s.by = "ews" /\ s.atts = 0 /\ d = 1
        /\ h = "save" => s.by = "ews" /\ s.atts > 0 /\ d = Closing(s.sched) + s.atts + 1
        /\ h = "attach" => s.by = "ews" /\ s.atts > 0 /\ d > Closing(s.sched)
             /\ d <= Closing(s.sched) + s.atts
        /\ h = "get" => s.by = "ews" /\ s.atts > 0 /\ d = Closing(s.sched)
        /\ h = "submit" => \/ s.by = "ews" /\ ~s.sched /\ d = 1 /\ s.atts > 0
                           \/ s.by = "jmap" /\ d = (IF s.sched THEN 2 ELSE 1)
                           \/ s.by \in {"gmail", "imap"} /\ ~s.sched /\ d = 1
        /\ h = "import" => s.by = "jmap" /\ d = 1 + (IF s.sched THEN 2 ELSE 1)
        /\ h = "lookup" => \/ s.by = "jmap" /\ d = 2 + (IF s.sched THEN 2 ELSE 1)
                           \/ s.by = "gmail" /\ d = 2
        /\ h = "verify" => s.by = "jmap" /\ s.sched /\ d = 1
    <2>1. s.by \in {"ews", "jmap", "gmail", "imap"} /\ s.atts \in Nat /\ s.sched \in BOOLEAN
      BY <1>2
    <2>2. d \in 1..Most(s.by, s.atts, s.sched) /\ h = Ahead(s.by, s.atts, s.sched, d)
      BY <1>3
    <2>3. s.sched => s.by \in {"ews", "jmap"}
      BY <1>4
    <2>4. Coming(h, s.by, s.atts, s.sched, d)
      BY <2>1, <2>2, <2>3, AheadIs
    <2> QED BY <2>4 DEF Coming
  <1>6. Closing(s.sched) = IF s.sched THEN 1 ELSE 2
    BY DEF Closing
  <1>7. s.by = "ews" /\ s.atts > 0 => m = Closing(s.sched) + s.atts + 1
    BY <1>2 DEF Most, m
  <1>14. CASE h = "create"
    <2>1. s.by = "ews" /\ s.atts = 0 /\ d = 1
      BY <1>5, <1>14
    <2>2. CASE s.sched
      <3>1. e = [s EXCEPT !.item = "outbox"]
        BY <1>14, <2>2 DEF Sending!Effect, h
      <3>2. /\ e \in Sent /\ e.by = s.by /\ e.atts = s.atts /\ e.sched = s.sched
            /\ e.todo = s.todo
            /\ e.answer = s.answer /\ e.lost = s.lost /\ e.told = s.told
            /\ e.item = "outbox" /\ e.fate = s.fate
        BY <1>1, <3>1 DEF Sent, Sending!Locations
      <3> QED BY <1>4, <2>1, <2>2, <3>2 DEF Done
    <2>3. CASE ~s.sched
      <3>1. e = [s EXCEPT !.fate = "out", !.out = s.has, !.item = "sent"]
        BY <1>14, <2>3 DEF Sending!Effect, Sending!GoesOut, h
      <3>2. /\ e \in Sent /\ e.by = s.by /\ e.atts = s.atts /\ e.sched = s.sched
            /\ e.todo = s.todo
            /\ e.answer = s.answer /\ e.lost = s.lost /\ e.told = s.told
            /\ e.item = "sent" /\ e.fate = "out" /\ e.out = s.has
        BY <1>1, <3>1 DEF Sent, Sending!Locations
      <3>3. s.has = s.atts /\ s.fate = "none"
        BY <1>3, <2>1, <2>3 DEF Halfway
      <3> QED BY <1>4, <2>1, <2>3, <3>2, <3>3 DEF Done
    <2> QED BY <2>2, <2>3
  <1>15. CASE h = "save"
    <2>1. s.by = "ews" /\ s.atts > 0 /\ d = Closing(s.sched) + s.atts + 1
      BY <1>5, <1>15
    <2>2. e = [s EXCEPT !.item = IF s.sched THEN "outbox" ELSE "drafts"]
      BY <1>15 DEF Sending!Effect, h
    <2>3. /\ e \in Sent /\ e.by = s.by /\ e.atts = s.atts /\ e.sched = s.sched
          /\ e.todo = s.todo
          /\ e.answer = s.answer /\ e.lost = s.lost /\ e.told = s.told
          /\ e.item = (IF s.sched THEN "outbox" ELSE "drafts")
          /\ e.fate = s.fate /\ e.has = s.has /\ e.out = s.out
      BY <1>1, <2>2 DEF Sent, Sending!Locations
    <2>4. d > 1
      BY <1>2, <1>6, <2>1
    <2>5. Halfway(e, d - 1)
      <3>1. ~s.sched => s.fate = "none"
        BY <1>3 DEF Halfway
      <3>2. ~s.sched => s.has = 0
        BY <1>2, <1>3, <1>6, <2>1 DEF Halfway
      <3> QED BY <1>2, <1>6, <2>1, <2>3, <3>1, <3>2 DEF Halfway
    <2> QED BY <1>4, <2>1, <2>3, <2>4, <2>5 DEF Done
  <1>16. CASE h = "attach"
    <2>1. s.by = "ews" /\ s.atts > 0 /\ d > Closing(s.sched) /\ d <= Closing(s.sched) + s.atts
      BY <1>5, <1>16
    <2>2. e = [s EXCEPT !.has = s.has + 1]
      BY <1>16 DEF Sending!Effect, h
    <2>3. /\ e \in Sent /\ e.by = s.by /\ e.atts = s.atts /\ e.sched = s.sched
          /\ e.todo = s.todo
          /\ e.answer = s.answer /\ e.lost = s.lost /\ e.told = s.told
          /\ e.item = s.item /\ e.fate = s.fate /\ e.has = s.has + 1 /\ e.out = s.out
      BY <1>1, <1>2, <2>2 DEF Sent
    <2>4. d > 1 /\ d < m
      BY <1>2, <1>3, <1>6, <1>7, <2>1
    <2>5. Halfway(e, d - 1)
      <3>1. /\ ~s.sched => s.fate = "none"
            /\ s.sched => s.item = "outbox" \/ s.fate # "none"
        BY <1>3, <2>1, <2>4 DEF Halfway, m
      <3>2. ~s.sched => s.has = s.atts + 2 - d
        BY <1>2, <1>3, <1>6, <2>1 DEF Halfway
      <3>3. CASE s.sched
        BY <2>1, <2>3, <3>1, <3>3 DEF Halfway
      <3>4. CASE ~s.sched
        <4>1. d >= 3 /\ d <= s.atts + 2
          BY <1>2, <1>3, <1>6, <2>1, <3>4
        <4>2. e.has = IF d - 1 <= 2 THEN e.atts ELSE e.atts + 2 - (d - 1)
          BY <1>2, <1>3, <2>3, <3>2, <3>4, <4>1
        <4>3. d - 1 # e.atts + 3
          BY <1>2, <1>3, <2>3, <4>1
        <4> QED BY <2>1, <2>3, <3>1, <3>4, <4>2, <4>3 DEF Halfway
      <3> QED BY <3>3, <3>4
    <2>6. /\ e.item = "outbox" => e.by = "ews" /\ e.sched
          /\ e.fate \in {"held", "cancelled"} => e.by = "jmap" /\ e.sched
          /\ e.fate = "out" /\ ~e.sched => e.out = e.atts
          /\ e.told => e.fate = "cancelled"
      BY <1>4, <2>3
    <2>7. d # 1
      BY <1>9, <2>4, NotOne
    <2> QED BY <2>3, <2>5, <2>6, <2>7 DEF Done
  <1>17. CASE h = "get"
    <2>1. s.by = "ews" /\ s.atts > 0 /\ d = Closing(s.sched)
      BY <1>5, <1>17
    <2>2. e = s
      BY <1>17 DEF Sending!Effect, h
    <2>3. d < m
      BY <1>2, <1>6, <1>7, <2>1
    <2>4. /\ ~s.sched => s.fate = "none" /\ s.has = s.atts
          /\ s.sched => s.item = "outbox" \/ s.fate # "none"
      BY <1>2, <1>3, <1>6, <2>1, <2>3 DEF Halfway, m
    <2>5. d > 1 => Halfway(s, d - 1)
      BY <1>2, <1>6, <2>1, <2>4 DEF Halfway
    <2> QED BY <1>1, <1>2, <1>4, <1>6, <2>1, <2>2, <2>4, <2>5 DEF Done
  <1>18. CASE h = "submit"
    <2>1. CASE s.by \in {"ews", "jmap"} /\ ~s.sched
      <3>1. d = 1 /\ s.has = s.atts
        <4>1. d = 1
          BY <1>2, <1>5, <1>18, <2>1
        <4>2. s.has = s.atts
          BY <1>2, <1>3, <2>1, <4>1 DEF Halfway
        <4> QED BY <4>1, <4>2
      <3>2. e = [s EXCEPT !.fate = "out", !.out = s.has, !.item = "sent"]
        BY <1>18, <2>1 DEF Sending!Effect, Sending!GoesOut, h
      <3>3. /\ e \in Sent /\ e.by = s.by /\ e.atts = s.atts /\ e.sched = s.sched
            /\ e.todo = s.todo
            /\ e.answer = s.answer /\ e.lost = s.lost /\ e.told = s.told
            /\ e.item = "sent" /\ e.fate = "out" /\ e.out = s.has
        BY <1>1, <3>2 DEF Sent, Sending!Locations
      <3>4. s.fate = "none"
        BY <1>3, <2>1 DEF Halfway
      <3> QED BY <1>4, <2>1, <3>1, <3>3, <3>4 DEF Done
    <2>2. CASE s.by = "jmap" /\ s.sched
      <3>1. d = 2 /\ s.fate = "none"
        <4>1. d = 2
          BY <1>5, <1>18, <2>2
        <4>2. s.fate = "none"
          BY <1>3, <2>2, <4>1 DEF Halfway
        <4> QED BY <4>1, <4>2
      <3>2. e = [s EXCEPT !.fate = "held", !.item = "scheduled"]
        BY <1>18, <2>2 DEF Sending!Effect, h
      <3>3. /\ e \in Sent /\ e.by = s.by /\ e.atts = s.atts /\ e.sched = s.sched
            /\ e.todo = s.todo
            /\ e.answer = s.answer /\ e.lost = s.lost /\ e.told = s.told
            /\ e.item = "scheduled" /\ e.fate = "held"
        BY <1>1, <3>2 DEF Sent, Sending!Locations
      <3>4. Halfway(e, d - 1)
        BY <2>2, <3>1, <3>3 DEF Halfway
      <3> QED BY <1>4, <2>2, <3>1, <3>3, <3>4 DEF Done
    <2>4. CASE s.by \in {"gmail", "imap"}
      <3>1. d = 1 /\ ~s.sched /\ s.fate = "none"
        BY <1>2, <1>3, <1>5, <1>18, <2>4 DEF Halfway
      <3>2. PICK w \in {"sent", "none"} : e = Sending!GoesOut(Sending!Whole(s), w)
        BY <1>18, <2>4 DEF Sending!Effect, h
      <3>3. e = [s EXCEPT !.has = s.atts, !.fate = "out", !.out = s.atts, !.item = w]
        BY <1>1, <3>2 DEF Sent, Sending!GoesOut, Sending!Whole
      <3>4. /\ e \in Sent /\ e.by = s.by /\ e.atts = s.atts /\ e.sched = s.sched
            /\ e.todo = s.todo
            /\ e.answer = s.answer /\ e.lost = s.lost /\ e.told = s.told
            /\ e.item = w /\ e.fate = "out" /\ e.out = s.atts
        BY <1>1, <1>2, <3>3 DEF Sent, Sending!Locations
      <3> QED BY <1>4, <2>4, <3>1, <3>4 DEF Done
    <2> QED BY <1>2, <1>5, <1>18, <2>1, <2>2, <2>4
  <1>19. CASE h = "import"
    <2>1. s.by = "jmap" /\ d = 1 + (IF s.sched THEN 2 ELSE 1)
      BY <1>5, <1>19
    <2>2. e = [Sending!Whole(s) EXCEPT !.item = IF s.sched THEN "drafts" ELSE "sent"]
      BY <1>19 DEF Sending!Effect, h
    <2>3. /\ e \in Sent /\ e.by = s.by /\ e.atts = s.atts /\ e.sched = s.sched
          /\ e.todo = s.todo
          /\ e.answer = s.answer /\ e.lost = s.lost /\ e.told = s.told
          /\ e.item = (IF s.sched THEN "drafts" ELSE "sent")
          /\ e.fate = s.fate /\ e.has = s.atts /\ e.out = s.out
      BY <1>1, <1>2, <2>2 DEF Sent, Sending!Locations, Sending!Whole
    <2>4. Halfway(e, d - 1) /\ d > 1
      BY <1>2, <1>3, <2>1, <2>3 DEF Halfway
    <2> QED BY <1>4, <2>1, <2>3, <2>4 DEF Done
  <1>20. CASE h = "lookup"
    <2>1. \/ s.by = "jmap" /\ d = 2 + (IF s.sched THEN 2 ELSE 1)
          \/ s.by = "gmail" /\ d = 2
      BY <1>5, <1>20
    <2>2. e = s
      BY <1>20 DEF Sending!Effect, h
    <2>4. Halfway(s, d - 1) /\ d > 1
      <3>1. CASE s.by = "jmap" /\ s.sched
        <4>1. d = 4
          BY <2>1, <3>1
        <4> QED BY <1>3, <3>1, <4>1 DEF Halfway
      <3>2. CASE s.by = "jmap" /\ ~s.sched
        <4>1. d = 3
          BY <2>1, <3>2
        <4> QED BY <1>3, <3>2, <4>1 DEF Halfway
      <3>3. CASE s.by = "gmail"
        <4>1. ~s.sched /\ d = 2 /\ s.fate = "none"
          BY <1>3, <1>4, <2>1, <3>3 DEF Halfway
        <4> QED BY <3>3, <4>1 DEF Halfway
      <3> QED BY <1>2, <2>1, <3>1, <3>2, <3>3
    <2>5. Done(s, s, d)
      <3>1. d # 1
        BY <1>9, <2>4, NotOne
      <3> QED BY <1>1, <1>4, <2>4, <3>1 DEF Done
    <2> QED BY <2>2, <2>5
  <1>21. CASE h = "verify"
    <2>1. s.by = "jmap" /\ s.sched /\ d = 1 /\ s.fate # "none"
      BY <1>3, <1>5, <1>21 DEF Halfway
    <2>2. e = s
      BY <1>21 DEF Sending!Effect, h
    <2>3. Done(s, s, d)
      BY <1>1, <1>4, <2>1 DEF Done
    <2> QED BY <2>2, <2>3
  <1> QED BY <1>5, <1>14, <1>15, <1>16, <1>17, <1>18, <1>19, <1>20, <1>21 DEF Steps

(* A send whose request was answered goes on, or ends well.                 *)
LEMMA AdvancedOK ==
    ASSUME NEW s, SendOK(s), s.answer = "none",
           NEW d \in Nat, d = Len(s.todo), NEW e, Done(s, e, d)
    PROVE  SendOK(Sending!Advanced(e))
  <1> DEFINE q == Tail(s.todo)
  <1>1. s \in Sent /\ UnderWay(s) /\ (s.sched => s.by \in {"ews", "jmap"})
    BY DEF SendOK
  <1>2. /\ q \in Seq(Steps) /\ Len(q) = d - 1 /\ d >= 1
        /\ \A i \in 1..(d - 1) : q[i] = Ahead(s.by, s.atts, s.sched, d - 1 - i + 1)
    BY <1>1, NextAhead
  <1>3. d \in 1..Most(s.by, s.atts, s.sched)
    BY <1>1 DEF UnderWay
  <1> HIDE DEF q
  <1>4. PICK a : a = Sending!Advanced(e)
    OBVIOUS
  <1>5. a = [e EXCEPT !.todo = q, !.answer = IF d = 1 THEN "ok" ELSE "none"]
    BY <1>4 DEF Sending!Advanced, Done, q
  <1>6. /\ a \in Sent /\ a.by = e.by /\ a.atts = e.atts /\ a.sched = e.sched /\ a.todo = q
        /\ a.answer = (IF d = 1 THEN "ok" ELSE "none") /\ a.lost = e.lost /\ a.told = e.told
        /\ a.item = e.item /\ a.fate = e.fate /\ a.has = e.has /\ a.out = e.out
    BY <1>2, <1>5 DEF Sent, Done
  <1>7. /\ a.by = s.by /\ a.atts = s.atts /\ a.sched = s.sched
        /\ e.by = s.by /\ e.atts = s.atts /\ e.sched = s.sched
    BY <1>6 DEF Done
  <1>8. /\ a.sched => a.by \in {"ews", "jmap"}
        /\ a.item = "outbox" => a.by = "ews" /\ a.sched
        /\ a.fate \in {"held", "cancelled"} => a.by = "jmap" /\ a.sched
        /\ a.fate = "out" /\ ~a.sched => a.out = a.atts
        /\ a.told => a.fate = "cancelled"
    BY <1>1, <1>6, <1>7 DEF Done
  <1>9. CASE d = 1
    <2>1. a.answer = "ok" /\ (a.fate # "none" \/ a.item = "outbox")
      BY <1>6, <1>9 DEF Done
    <2> QED BY <1>4, <1>6, <1>8, <2>1 DEF SendOK
  <1>10. CASE d > 1
    <2>1. a.answer = "none"
      BY <1>6, <1>10, NotOne
    <2>2. Halfway(a, d - 1)
      <3>1. Halfway(e, d - 1)
        BY <1>10 DEF Done
      <3> QED BY <1>6, <3>1 DEF Halfway
    <2>3. d - 1 \in 1..Most(a.by, a.atts, a.sched)
      <3>1. Most(a.by, a.atts, a.sched) = Most(s.by, s.atts, s.sched)
        BY <1>7
      <3>2. Most(s.by, s.atts, s.sched) \in Nat
        BY <1>1 DEF Sent, Most, Closing, Sending!Providers
      <3> QED BY <1>3, <1>10, <3>1, <3>2
    <2>4. \A i \in 1..(d - 1) : a.todo[i] = Ahead(a.by, a.atts, a.sched, d - 1 - i + 1)
      BY <1>2, <1>6, <1>7
    <2>5. Len(a.todo) = d - 1
      BY <1>2, <1>6
    <2>6. UnderWay(a)
      BY <2>2, <2>3, <2>4, <2>5 DEF UnderWay
    <2> QED BY <1>4, <1>6, <1>8, <2>1, <2>6 DEF SendOK
  <1>11. d >= 1
    BY <1>2
  <1>12. d = 1 \/ d > 1
    BY <1>11, OneOrMore
  <1> QED BY <1>9, <1>10, <1>12

(* One whose answer was lost ends, whatever the server did.                 *)
LEMMA LostOK ==
    ASSUME NEW s, SendOK(s), NEW d, NEW e, Done(s, e, d)
    PROVE  SendOK([e EXCEPT !.answer = "error", !.lost = TRUE])
  <1>1. PICK a : a = [e EXCEPT !.answer = "error", !.lost = TRUE]
    OBVIOUS
  <1>2. /\ a \in Sent /\ a.by = e.by /\ a.atts = e.atts /\ a.sched = e.sched
        /\ a.answer = "error" /\ a.lost = TRUE /\ a.told = e.told
        /\ a.item = e.item /\ a.fate = e.fate /\ a.out = e.out
    BY <1>1 DEF Sent, Done
  <1>3. s.sched => s.by \in {"ews", "jmap"}
    BY DEF SendOK
  <1>4. SendOK(a)
    BY <1>2, <1>3 DEF SendOK, Done
  <1> QED BY <1>1, <1>4

(* A request that was refused did nothing.                                  *)
LEMMA RefusedOK ==
    ASSUME NEW s, SendOK(s), s.answer = "none"
    PROVE  SendOK([s EXCEPT !.answer = "error"])
  <1>1. PICK a : a = [s EXCEPT !.answer = "error"]
    OBVIOUS
  <1>2. /\ a \in Sent /\ a.by = s.by /\ a.atts = s.atts /\ a.sched = s.sched
        /\ a.answer = "error" /\ a.lost = s.lost /\ a.told = s.told
        /\ a.item = s.item /\ a.fate = s.fate /\ a.out = s.out
    BY <1>1 DEF SendOK, Sent
  <1>3. ~s.sched => s.fate = "none"
    BY DEF SendOK, UnderWay, Halfway
  <1>4. SendOK(a)
    BY <1>2, <1>3 DEF SendOK
  <1> QED BY <1>1, <1>4

(* A scheduled message that waited goes out, or is taken back.              *)
LEMMA WaitedOK ==
    ASSUME NEW s, SendOK(s), NEW a, a \in Sent,
           a.by = s.by, a.atts = s.atts, a.sched = s.sched, a.todo = s.todo,
             a.answer = s.answer,
           s.item = "outbox" \/ s.fate = "held", a.item \notin {"outbox"},
           \/ a.fate = "out" /\ a.told = s.told
           \/ a.fate = "cancelled" /\ s.fate = "held"
    PROVE  SendOK(a)
  <1>1. s.sched /\ (s.item = "outbox" => s.by = "ews") /\ (s.fate = "held" => s.by = "jmap")
    BY DEF SendOK
  <1>2. a.told => a.fate = "cancelled"
    BY <1>1 DEF SendOK
  <1>3. a.fate = "cancelled" => a.by = "jmap"
    BY <1>1
  <1>4. ASSUME s.answer = "none"
        PROVE  UnderWay(a)
    <2>1. UnderWay(s)
      BY <1>4 DEF SendOK
    <2>2. Halfway(a, Len(a.todo))
      <3>1. Halfway(s, Len(s.todo))
        BY <2>1 DEF UnderWay
      <3> QED BY <1>1, <3>1 DEF Halfway
    <2> QED BY <2>1, <2>2 DEF UnderWay
  <1> QED BY <1>1, <1>2, <1>3, <1>4 DEF SendOK

(* A new send.                                                              *)
LEMMA NewOK ==
    ASSUME NEW p \in Sending!Providers, NEW atts \in Nat, NEW sched \in BOOLEAN,
           sched => p \in {"ews", "jmap"}
    PROVE  SendOK([by |-> p, atts |-> atts, sched |-> sched,
             todo |-> Sending!Requests(p, atts, sched),
                   answer |-> "none", lost |-> FALSE, item |-> "none", has |-> 0,
                   fate |-> "none", out |-> 0, told |-> FALSE])
  <1>1. PICK r : r = Sending!Requests(p, atts, sched)
    OBVIOUS
  <1>2. PICK a : a = [by |-> p, atts |-> atts, sched |-> sched, todo |-> r,
                      answer |-> "none", lost |-> FALSE, item |-> "none", has |-> 0,
                      fate |-> "none", out |-> 0, told |-> FALSE]
    OBVIOUS
  <1>3. /\ r \in Seq(Steps) /\ Len(r) = Most(p, atts, sched)
        /\ \A i \in 1..Len(r) : r[i] = Ahead(p, atts, sched, Len(r) - i + 1)
    BY <1>1, RequestsAhead
  <1>4. /\ a \in Sent /\ a.by = p /\ a.atts = atts /\ a.sched = sched /\ a.todo = r
        /\ a.answer = "none" /\ a.lost = FALSE /\ a.item = "none" /\ a.has = 0
        /\ a.fate = "none" /\ a.out = 0 /\ a.told = FALSE
    BY <1>2, <1>3 DEF Sent, Sending!Locations
  <1>5. PICK d : d = Most(p, atts, sched)
    OBVIOUS
  <1>6. /\ d \in Nat /\ d >= 1
        /\ p = "jmap" => d > 1
        /\ p = "ews" => d = IF atts = 0 THEN 1 ELSE (IF sched THEN 1 ELSE 2) + atts + 1
    BY <1>5 DEF Most, Closing, Sending!Providers
  <1>7. p = "jmap" => d # 1
    BY <1>6, NotOne
  <1>8. p = "ews" /\ ~sched =>
          0 = IF d <= 2 THEN atts ELSE IF d = atts + 3 THEN 0 ELSE atts + 2 - d
    BY <1>6
  <1>9. Halfway(a, d)
    BY <1>4, <1>5, <1>6, <1>7, <1>8 DEF Halfway
  <1>10. UnderWay(a)
    BY <1>3, <1>4, <1>5, <1>6, <1>9 DEF UnderWay
  <1>11. SendOK(a)
    BY <1>4, <1>10 DEF SendOK
  <1> QED BY <1>1, <1>2, <1>11

(* One send of the list changes.                                            *)
LEMMA OneChanges ==
    ASSUME SendingInv, NEW n \in 1..Len(sends), NEW a, SendOK(a),
             sends' = [sends EXCEPT ![n] = a]
    PROVE  SendingInv'
  <1>1. sends \in Seq(Sent) /\ n \in DOMAIN sends /\ a \in Sent
    BY DEF SendingInv, SendOK
  <1>2. /\ sends' \in Seq(Sent) /\ DOMAIN sends' = DOMAIN sends
        /\ \A k \in DOMAIN sends : sends'[k] = IF k = n THEN a ELSE sends[k]
    BY <1>1
  <1>3. ASSUME NEW k \in DOMAIN sends
        PROVE  SendOK(sends'[k])
    BY <1>2, <1>3 DEF SendingInv
  <1> QED BY <1>2, <1>3 DEF SendingInv

LEMMA SendingSteps ==
    ASSUME SendingInv, MaxAttachments \in Nat, [Sending!Next]_<<sends, listed, place>>
    PROVE  SendingInv'
  <1>1. CASE UNCHANGED <<sends, listed, place>>
    BY <1>1 DEF SendingInv
  <1>2. ASSUME NEW p \in Sending!Providers, NEW atts \in 0..MaxAttachments,
                 NEW sched \in BOOLEAN,
               Sending!Send(p, atts, sched)
        PROVE  SendingInv'
    <2>1. PICK a : a = [by |-> p, atts |-> atts, sched |-> sched,
                 todo |-> Sending!Requests(p, atts, sched),
                        answer |-> "none", lost |-> FALSE, item |-> "none", has |-> 0,
                        fate |-> "none", out |-> 0, told |-> FALSE]
      OBVIOUS
    <2>2. SendOK(a) /\ sends' = Append(sends, a)
      <3>1. atts \in Nat
        OBVIOUS
      <3>2. sched => p \in {"ews", "jmap"}
        BY <1>2 DEF Sending!Send
      <3> QED BY <1>2, <2>1, <3>1, <3>2, NewOK DEF Sending!Send
    <2>3. a \in Sent /\ sends \in Seq(Sent)
      BY <2>2 DEF SendOK, SendingInv
    <2>4. /\ sends' \in Seq(Sent) /\ DOMAIN sends' = 1..(Len(sends) + 1)
          /\ \A k \in 1..(Len(sends) + 1) : sends'[k] = IF k = Len(sends) + 1 THEN a
               ELSE sends[k]
      BY <2>2, <2>3
    <2>5. ASSUME NEW k \in DOMAIN sends'
          PROVE  SendOK(sends'[k])
      BY <2>2, <2>3, <2>4 DEF SendingInv
    <2> QED BY <2>4, <2>5 DEF SendingInv
  <1>3. ASSUME NEW n \in 1..Len(sends),
               \/ Sending!Answered(n) \/ Sending!Refused(n) \/ Sending!Unanswered(n)
               \/ Sending!Dispatch(n) \/ Sending!CancelScheduledSend(n)
        PROVE  SendingInv'
    <2> DEFINE s == sends[n]  d == Len(s.todo)
    <2>1. SendOK(s) /\ s \in Sent /\ d \in Nat
      BY DEF SendingInv, SendOK, Sent
    <2>2. ASSUME Sending!Running(s), Sending!Possible(s)
          PROVE  /\ s.answer = "none" /\ Done(s, Sending!Effect(s), d)
                 /\ SendOK(Sending!Advanced(Sending!Effect(s)))
      <3>1. s.answer = "none"
        BY <2>2 DEF Sending!Running
      <3> HIDE DEF s
      <3>2. Done(s, Sending!Effect(s), d)
        BY <2>1, <2>2, <3>1, EffectDone
      <3>3. SendOK(Sending!Advanced(Sending!Effect(s)))
        BY <2>1, <3>1, <3>2, AdvancedOK
      <3> QED BY <3>1, <3>2, <3>3
    <2>3. CASE Sending!Answered(n)
      <3>1. sends' = [sends EXCEPT ![n] = Sending!Advanced(Sending!Effect(s))]
        BY <2>3 DEF Sending!Answered
      <3>2. SendOK(Sending!Advanced(Sending!Effect(s)))
        BY <2>2, <2>3 DEF Sending!Answered
      <3> QED BY <3>1, <3>2, OneChanges
    <2>4. CASE Sending!Refused(n)
      <3>1. s.answer = "none"
        BY <2>4 DEF Sending!Refused, Sending!Running
      <3>2. CASE s.by = "gmail" /\ Head(s.todo) = "lookup"
        <4>1. sends' = [sends EXCEPT ![n] = Sending!Advanced(s)]
          BY <2>4, <3>2 DEF Sending!Refused
        <4>2. Sending!Running(s) /\ Sending!Possible(s) /\ Sending!Effect(s) = s
          BY <3>1, <3>2 DEF Sending!Running, Sending!Possible, Sending!Effect
        <4>3. SendOK(Sending!Advanced(s))
          BY <2>2, <4>2
        <4> QED BY <4>1, <4>3, OneChanges
      <3>3. CASE ~(s.by = "gmail" /\ Head(s.todo) = "lookup")
        <4>1. sends' = [sends EXCEPT ![n] = [s EXCEPT !.answer = "error"]]
          BY <2>4, <3>3 DEF Sending!Refused
        <4>2. SendOK([s EXCEPT !.answer = "error"])
          BY <2>1, <3>1, RefusedOK
        <4> QED BY <4>1, <4>2, OneChanges
      <3> QED BY <3>2, <3>3
    <2>5. CASE Sending!Unanswered(n)
      <3>1. sends' = [sends EXCEPT ![n] = [Sending!Effect(s) EXCEPT !.answer = "error",
              !.lost = TRUE]]
        BY <2>5 DEF Sending!Unanswered
      <3>2. SendOK([Sending!Effect(s) EXCEPT !.answer = "error", !.lost = TRUE])
        <4>1. Done(s, Sending!Effect(s), d)
          BY <2>2, <2>5 DEF Sending!Unanswered
        <4> HIDE DEF s, d
        <4> QED BY <2>1, <4>1, LostOK
      <3> QED BY <3>1, <3>2, OneChanges
    <2>6. CASE Sending!Dispatch(n)
      <3>1. PICK a : a = [s EXCEPT !.fate = "out", !.out = s.has, !.item = "sent"]
        OBVIOUS
      <3>2. sends' = [sends EXCEPT ![n] = a] /\ (s.item = "outbox" \/ s.fate = "held")
        BY <2>6, <3>1 DEF Sending!Dispatch, Sending!GoesOut
      <3>3. /\ a \in Sent /\ a.by = s.by /\ a.atts = s.atts /\ a.sched = s.sched
            /\ a.todo = s.todo
            /\ a.answer = s.answer /\ a.item = "sent" /\ a.fate = "out" /\ a.told = s.told
        BY <2>1, <3>1 DEF Sent, Sending!Locations
      <3>4. SendOK(a)
        BY <2>1, <3>2, <3>3, WaitedOK
      <3> QED BY <3>2, <3>4, OneChanges
    <2>7. CASE Sending!CancelScheduledSend(n)
      <3>1. PICK told \in BOOLEAN : Sending!TakenBack(n, told)
        BY <2>7 DEF Sending!CancelScheduledSend
      <3>2. PICK a : a = [s EXCEPT !.fate = "cancelled", !.item = "drafts", !.told = told]
        OBVIOUS
      <3>3. sends' = [sends EXCEPT ![n] = a] /\ s.fate = "held"
        <4>1. sends \in Seq(Sent)
          BY DEF SendingInv
        <4>2. s.fate = "held"
          BY <2>7 DEF Sending!CancelScheduledSend
        <4>3. sends' = [sends EXCEPT ![n].fate = "cancelled", ![n].item = "drafts",
                ![n].told = told]
          BY <3>1 DEF Sending!TakenBack
        <4> QED BY <2>1, <3>2, <4>1, <4>2, <4>3
      <3>4. /\ a \in Sent /\ a.by = s.by /\ a.atts = s.atts /\ a.sched = s.sched
            /\ a.todo = s.todo
            /\ a.answer = s.answer /\ a.item = "drafts" /\ a.fate = "cancelled"
        BY <2>1, <3>2 DEF Sent, Sending!Locations
      <3>5. SendOK(a)
        BY <2>1, <3>3, <3>4, WaitedOK
      <3> QED BY <3>3, <3>5, OneChanges
    <2> QED BY <1>3, <2>3, <2>4, <2>5, <2>6, <2>7
  <1>4. CASE Sending!ListScheduled
    BY <1>4 DEF Sending!ListScheduled, SendingInv
  <1>5. CASE \E n \in 1..Len(sends) : Sending!GetScheduledSend(n)
    BY <1>5 DEF Sending!GetScheduledSend, SendingInv
  <1> QED BY <1>1, <1>2, <1>3, <1>4, <1>5 DEF Sending!Next

(* What a send answers is true, and so is what is said of a cancellation.   *)
THEOREM AnswersAreTrue == ASSUME MaxAttachments \in Nat PROVE MCSpec => []AnswerIsTrue
  <1> DEFINE Sends == part = "sending" => SendingInv
  <1>1. MCInit => Sends
    BY PartsStart DEF Sending!Init, SendingInv
  <1>2. Sends /\ [MCNext]_<<part, acting, reading>> => Sends'
    BY PartStays, PartsStep, SendingSteps
  <1>3. Sends => AnswerIsTrue
    BY DEF AnswerIsTrue, Sending!AnswerIsTrue, SendingInv, SendOK
  <1> QED BY <1>1, <1>2, <1>3, PTL DEF MCSpec

----------------------------------------------------------------------------
(* EwsMail: what its operations do to the mailbox, for every set of          *)
(* messages and any number of operations under way.                         *)
Item == [m : Messages, k : Nat]
Destroying == {<<"delete">>, <<"collect all", "delete">>}
Freeing == {<<"collect", "move">>, <<"native", "date", "find", "create", "move">>,
            <<"date", "find", "create", "move">>, <<"find", "create", "move">>,
            <<"create", "move">>}
Sparing == {<<"collect", "sent id", "inspect", "move">>, <<"sent id", "inspect", "move">>,
            <<"inspect", "move">>}
Harmless == {<<"read">>, <<"unread">>, <<"find", "create">>, <<"create">>}
Moving == Freeing \cup Sparing \cup {<<"move">>}
EwsFolders == Ews!Folders \ {"sentitems"}
Targets == EwsFolders \cup {""}
Operation == [n : Nat, todo : Destroying \cup Harmless \cup Moving, ids : SUBSET Item,
              convs : SUBSET Messages, to : Targets]

(* An id that is no longer the item's never comes to be so again.           *)
Old(i) == i.k <= moved[i.m]

(* The messages of an operation are those it may delete or take out of Sent: *)
(* a move of conversations has left out those of Sent when it moves.        *)
Rightful(c) ==
  /\ c \in Operation
  /\ \A i \in c.ids : Old(i)
  /\ c.todo \in Moving => c.to \in EwsFolders
  /\ c.todo \in Destroying => Ews!Names(c.ids) \cup c.convs \subseteq named
  /\ c.todo \in Freeing => Ews!Names(c.ids) \cup c.convs \subseteq free
  /\ c.todo = <<"move">> =>
       \A i \in c.ids : i.m \in free \/ (Ews!Live(i) => place[i.m] # "sentitems")

EwsTypes == /\ place \in [Messages -> Ews!Folders \cup {"gone"}] /\ moved \in [Messages -> Nat]
            /\ named \subseteq Messages /\ free \subseteq Messages /\ number \in Nat
            /\ listed \subseteq Item /\ \A i \in listed : Old(i)
EwsInv == EwsTypes /\ \A c \in ops : Rightful(c)

EwsBox == INSTANCE MailboxContract WITH held <- Ews!Held, sent <- Ews!InSent, doomed <- named

LEMMA EwsStarts == Ews!Init => EwsInv /\ EwsBox!Init
  <1> SUFFICES ASSUME Ews!Init PROVE EwsInv /\ EwsBox!Init
    OBVIOUS
  <1>1. /\ place \in [Messages -> {"inbox", "sentitems"}] /\ moved = [m \in Messages |-> 0]
        /\ listed = {Ews!Id(m) : m \in Messages} /\ ops = {} /\ number = 0 /\ named = {}
        /\ free = {}
    BY DEF Ews!Init
  <1>2. listed \subseteq Item /\ \A i \in listed : Old(i)
    BY <1>1 DEF Ews!Id, Item, Old
  <1>3. EwsInv
    BY <1>1, <1>2 DEF EwsInv, EwsTypes, Ews!Folders
  <1>4. EwsBox!Init
    BY <1>1 DEF EwsBox!Init, Ews!Held, Ews!InSent
  <1> QED BY <1>3, <1>4

LEMMA TailOfFour == \A p, q, r, s : Tail(<<p, q, r, s>>) = <<q, r, s>>
  OBVIOUS
LEMMA TailOfFive == \A p, q, r, s, t : Tail(<<p, q, r, s, t>>) = <<q, r, s, t>>
  OBVIOUS

(* The requests that remain, by the next of them.                           *)
LEMMA Requests ==
    ASSUME NEW c \in Operation
    PROVE  /\ Ews!Is(c, "collect") => \/ /\ c.todo = <<"collect", "move">>
                                         /\ Tail(c.todo) = <<"move">>
                                      \/ /\ c.todo = <<"collect", "sent id", "inspect", "move">>
                                         /\ Tail(c.todo) = <<"sent id", "inspect", "move">>
           /\ Ews!Is(c, "collect all") =>
                c.todo = <<"collect all", "delete">> /\ Tail(c.todo) = <<"delete">>
           /\ Ews!Is(c, "sent id") => /\ c.todo = <<"sent id", "inspect", "move">>
                                      /\ Tail(c.todo) = <<"inspect", "move">>
           /\ Ews!Is(c, "inspect") => /\ c.todo = <<"inspect", "move">>
                                      /\ Tail(c.todo) = <<"move">>
           /\ Ews!Is(c, "move") => c.todo = <<"move">>
           /\ Ews!Is(c, "delete") => c.todo = <<"delete">>
           /\ Ews!Is(c, "native") => /\ c.todo = <<"native", "date", "find", "create", "move">>
                                     /\ Tail(c.todo) = <<"date", "find", "create", "move">>
           /\ Ews!Is(c, "date") => /\ c.todo = <<"date", "find", "create", "move">>
                                   /\ Tail(c.todo) = <<"find", "create", "move">>
           /\ Ews!Is(c, "find") =>
                \/ /\ c.todo = <<"find", "create", "move">>
                   /\ Tail(c.todo) = <<"create", "move">>
                   /\ Tail(Tail(c.todo)) = <<"move">>
                \/ /\ c.todo = <<"find", "create">> /\ Tail(c.todo) = <<"create">>
                   /\ Tail(Tail(c.todo)) = <<>>
           /\ Ews!Is(c, "create") => \/ /\ c.todo = <<"create", "move">>
                                        /\ Tail(c.todo) = <<"move">>
                                     \/ c.todo = <<"create">> /\ Tail(c.todo) = <<>>
  <1>1. c.todo \in Destroying \cup Harmless \cup Moving
    BY DEF Operation
  <1>2. /\ <<"read">> # <<>> /\ Head(<<"read">>) = "read"
        /\ Tail(<<"read">>) = <<>>
        /\ <<"unread">> # <<>> /\ Head(<<"unread">>) = "unread"
        /\ Tail(<<"unread">>) = <<>>
        /\ <<"create">> # <<>> /\ Head(<<"create">>) = "create"
        /\ Tail(<<"create">>) = <<>>
        /\ <<"delete">> # <<>> /\ Head(<<"delete">>) = "delete"
        /\ Tail(<<"delete">>) = <<>>
        /\ <<"move">> # <<>> /\ Head(<<"move">>) = "move"
        /\ Tail(<<"move">>) = <<>>
    OBVIOUS
  <1>3. /\ <<"find", "create">> # <<>> /\ Head(<<"find", "create">>) = "find"
        /\ Tail(<<"find", "create">>) = <<"create">>
        /\ <<"collect all", "delete">> # <<>>
        /\ Head(<<"collect all", "delete">>) = "collect all"
        /\ Tail(<<"collect all", "delete">>) = <<"delete">>
        /\ <<"collect", "move">> # <<>> /\ Head(<<"collect", "move">>) = "collect"
        /\ Tail(<<"collect", "move">>) = <<"move">>
        /\ <<"create", "move">> # <<>> /\ Head(<<"create", "move">>) = "create"
        /\ Tail(<<"create", "move">>) = <<"move">>
        /\ <<"inspect", "move">> # <<>> /\ Head(<<"inspect", "move">>) = "inspect"
        /\ Tail(<<"inspect", "move">>) = <<"move">>
    OBVIOUS
  <1>4. /\ <<"find", "create", "move">> # <<>> /\ Head(<<"find", "create", "move">>) = "find"
        /\ Tail(<<"find", "create", "move">>) = <<"create", "move">>
        /\ <<"sent id", "inspect", "move">> # <<>>
        /\ Head(<<"sent id", "inspect", "move">>) = "sent id"
        /\ Tail(<<"sent id", "inspect", "move">>) = <<"inspect", "move">>
    OBVIOUS
  <1>5. Head(<<"date", "find", "create", "move">>) = "date"
          /\ <<"date", "find", "create", "move">> # <<>>
    OBVIOUS
  <1>6. Tail(<<"date", "find", "create", "move">>) = <<"find", "create", "move">>
    BY TailOfFour, Zenon
  <1>7. Head(<<"collect", "sent id", "inspect", "move">>) = "collect"
          /\ <<"collect", "sent id", "inspect", "move">> # <<>>
    OBVIOUS
  <1>8. Tail(<<"collect", "sent id", "inspect", "move">>) = <<"sent id", "inspect", "move">>
    BY TailOfFour, Zenon
  <1>9. Head(<<"native", "date", "find", "create", "move">>) = "native"
          /\ <<"native", "date", "find", "create", "move">> # <<>>
    OBVIOUS
  <1>10. Tail(<<"native", "date", "find", "create", "move">>)
           = <<"date", "find", "create", "move">>
    BY TailOfFive
  <1> QED BY <1>1, <1>2, <1>3, <1>4, <1>5, <1>6, <1>7, <1>8, <1>9, <1>10
            DEF Destroying, Harmless, Moving, Freeing, Sparing, Ews!Is

(* An operation that is not served keeps its rights: its ids may become old, *)
(* and an item that comes to Sent has a new one.                            *)
Onward == /\ \A m \in Messages : /\ moved[m] <= moved'[m]
                                 /\ \/ place'[m] = place[m] \/ place'[m] # "sentitems"
                                    \/ moved[m] < moved'[m]
          /\ named \subseteq named' /\ free \subseteq free'
LEMMA RightsStay ==
    ASSUME EwsTypes, EwsTypes', Onward, NEW c, Rightful(c)
    PROVE  Rightful(c)'
  <1>1. c \in Operation /\ c.ids \subseteq Item
    BY DEF Rightful, Operation
  <1>2. \A i \in c.ids : Old(i)'
    BY <1>1 DEF Rightful, Onward, Old, EwsTypes, Item
  <1>3. \A i \in c.ids : (Ews!Live(i) => place[i.m] # "sentitems")
                            => (Ews!Live(i)' => place'[i.m] # "sentitems")
    BY <1>1 DEF Rightful, Onward, Old, EwsTypes, Item, Ews!Live, Ews!Folders
  <1> QED BY <1>1, <1>2, <1>3 DEF Rightful, Onward, Ews!Names
(* Which requests are to come tells what an operation is for.               *)
LEMMA Purposes ==
    /\ Harmless \cap (Destroying \cup Moving) = {}
    /\ Destroying \cap Moving = {}
    /\ Sparing \cap Freeing = {}
    /\ <<"move">> \notin Freeing \cup Sparing
  BY DEF Harmless, Destroying, Freeing, Sparing, Moving

LEMMA RightsKept ==
    ASSUME EwsInv, EwsTypes', Onward, \A d \in ops' \ ops : Rightful(d)'
    PROVE  EwsInv'
  BY RightsStay DEF EwsInv

LEMMA Begun ==
    ASSUME EwsInv, NEW todo \in Destroying \cup Harmless \cup Moving,
           NEW ids \in SUBSET listed, NEW convs \in SUBSET Messages, NEW to \in Targets,
           Ews!Start(todo, ids, convs, to),
           named \subseteq named', named' \subseteq Messages,
           free \subseteq free', free' \subseteq Messages,
           todo \in Moving => to \in EwsFolders,
           todo \in Destroying => Ews!Names(ids) \cup convs \subseteq named',
           todo \in Freeing \cup {<<"move">>} => Ews!Names(ids) \cup convs \subseteq free'
    PROVE  EwsInv' /\ UNCHANGED <<Ews!Held, Ews!InSent>>
  <1>0. PICK c : c = [n |-> number + 1, todo |-> todo, ids |-> ids, convs |-> convs, to |-> to]
    OBVIOUS
  <1>1. /\ ops' = ops \cup {c} /\ number' = number + 1
        /\ UNCHANGED <<place, moved, listed>>
    BY <1>0 DEF Ews!Start, Ews!server
  <1>2. /\ number + 1 \in Nat /\ ids \in SUBSET Item /\ \A i \in ids : Old(i)
    <2>1. number \in Nat /\ listed \subseteq Item
      BY DEF EwsInv, EwsTypes
    <2>2. \A i \in listed : Old(i)
      BY DEF EwsInv, EwsTypes
    <2>3. number + 1 \in Nat
      BY <2>1
    <2> QED BY <2>1, <2>2, <2>3
  <1>3. c \in Operation
    BY <1>0, <1>2 DEF Operation
  <1>4. c.todo = todo /\ c.ids = ids /\ c.convs = convs /\ c.to = to
    BY <1>0
  <1>5. \A i \in ids : Old(i)'
    BY <1>1, <1>2 DEF Old
  <1>6. todo = <<"move">> => \A i \in ids : i.m \in free'
    BY DEF Ews!Names
  <1>7. Rightful(c)'
    BY <1>3, <1>4, <1>5, <1>6 DEF Rightful, Ews!Names
  <1>8. \A i \in listed : Old(i)'
    BY <1>1 DEF EwsInv, EwsTypes, Old
  <1>9. EwsTypes'
    BY <1>1, <1>2, <1>8 DEF EwsInv, EwsTypes
  <1>10. Onward
    <2>1. \A m \in Messages : moved[m] \in Nat
      BY DEF EwsInv, EwsTypes
    <2>2. \A m \in Messages : moved[m] <= moved'[m] /\ place'[m] = place[m]
      BY <1>1, <2>1
    <2> QED BY <2>2 DEF Onward
  <1>11. \A d \in ops' \ ops : Rightful(d)'
    BY <1>1, <1>7
  <1>12. EwsInv'
    BY <1>9, <1>10, <1>11, RightsKept
  <1> QED BY <1>1, <1>12 DEF Ews!Held, Ews!InSent

(* A request that asks or refuses changes nothing but its own operation.    *)
LEMMA Quiet ==
    ASSUME EwsInv, UNCHANGED <<place, moved, listed, number, named, free>>,
           \A d \in ops' \ ops : Rightful(d)
    PROVE  EwsInv' /\ UNCHANGED EwsBox!vars
  <1>1. EwsTypes'
    BY DEF EwsInv, EwsTypes, Old
  <1>2. \A m \in Messages : moved[m] \in Nat
    BY DEF EwsInv, EwsTypes
  <1>3. Onward
    BY <1>2 DEF Onward
  <1>4. \A d \in ops' \ ops : Rightful(d)'
    BY DEF Rightful, Old, Ews!Live
  <1> QED BY <1>1, <1>3, <1>4, RightsKept DEF EwsBox!vars, Ews!Held, Ews!InSent

(* An operation goes on as it was, with fewer requests before it.           *)
LEMMA GoesOn ==
    ASSUME EwsInv, NEW c \in ops, Ews!Goes(c),
           Ews!Is(c, "sent id") \/ Ews!Is(c, "native") \/ Ews!Is(c, "date")
             \/ Ews!Is(c, "find") \/ Ews!Is(c, "create")
    PROVE  \A d \in ops' \ ops : Rightful(d)
  <1>1. c \in Operation /\ Rightful(c)
    BY DEF EwsInv, Rightful
  <1> DEFINE t == Tail(c.todo)
  <1>2. \/ t = <<>>
        \/ c.todo \in Sparing /\ t \in Sparing
        \/ c.todo \in Freeing /\ t \in Freeing \cup {<<"move">>}
        \/ t \in Harmless
    BY <1>1, Requests DEF Sparing, Freeing, Harmless
  <1>3. \A d \in ops' \ ops : d = [c EXCEPT !.todo = t] /\ t # <<>>
    <2>1. CASE [c EXCEPT !.todo = t].todo = <<>>
      BY <2>1 DEF Ews!Goes, Ews!Continues
    <2>2. CASE t = <<>>
      <3>1. [c EXCEPT !.todo = t].todo = t
        BY <1>1 DEF Operation
      <3> QED BY <2>1, <2>2, <3>1
    <2> QED BY <2>1, <2>2 DEF Ews!Goes, Ews!Continues
  <1>4. ASSUME NEW d \in ops' \ ops PROVE Rightful(d)
    <2>1. t \in Destroying \cup Harmless \cup Moving
      BY <1>2, <1>3, <1>4 DEF Moving
    <2>2. c.ids \in SUBSET Item
      BY <1>1 DEF Operation
    <2> HIDE DEF t
    <2>3. /\ d \in Operation /\ d.ids = c.ids /\ d.todo = t
          /\ d.convs = c.convs /\ d.to = c.to
      BY <1>1, <1>3, <1>4, <2>1 DEF Operation
    <2>4. CASE t \in Harmless
      BY <1>1, <2>3, <2>4, Purposes DEF Rightful, Moving
    <2>5. CASE c.todo \in Sparing /\ t \in Sparing
      BY <1>1, <2>3, <2>5, Purposes DEF Rightful, Moving
    <2>6. CASE c.todo \in Freeing /\ t \in Freeing \cup {<<"move">>}
      <3>1. Ews!Names(c.ids) \cup c.convs \subseteq free /\ c.to \in EwsFolders
        BY <1>1, <2>6 DEF Rightful, Moving
      <3>2. \A i \in c.ids : i.m \in free
        BY <3>1 DEF Ews!Names
      <3> QED BY <1>1, <2>3, <2>6, <3>1, <3>2, Purposes DEF Rightful, Moving
    <2> QED BY <1>2, <1>3, <1>4, <2>4, <2>5, <2>6
  <1> QED BY <1>4

LEMMA CollectKeeps ==
    ASSUME EwsInv, NEW c \in ops, Ews!Collect(c) PROVE EwsInv' /\ UNCHANGED EwsBox!vars
  <1>1. c \in Operation /\ Rightful(c)
    BY DEF EwsInv, Rightful
  <1>2. UNCHANGED <<place, moved, listed, number, named, free>>
    BY DEF Ews!Collect, Ews!server, Ews!Still
  <1>3. ASSUME NEW d \in ops' \ ops PROVE Rightful(d)
    <2>1. PICK found \in SUBSET c.convs :
            d = [c EXCEPT !.ids = {Ews!Id(m) : m \in found}, !.todo = Tail(@)]
      BY <1>3 DEF Ews!Collect, Ews!Ends, Ews!Continues
    <2> DEFINE ids == {Ews!Id(m) : m \in found}  t == Tail(c.todo)
    <2>2. found \subseteq Messages /\ c.convs \subseteq Messages
      BY <1>1 DEF Operation
    <2>3. ids \in SUBSET Item /\ (\A i \in ids : Old(i)) /\ Ews!Names(ids) \subseteq c.convs
      BY <2>2 DEF EwsInv, EwsTypes, Item, Old, Ews!Id, Ews!Names
    <2>4. \/ c.todo \in Freeing /\ t = <<"move">>
          \/ c.todo \in Sparing /\ t \in Sparing
          \/ c.todo \in Destroying /\ t \in Destroying
      BY <1>1, Requests DEF Ews!Collect, Freeing, Sparing, Destroying
    <2>5. t \in Destroying \cup Harmless \cup Moving
      BY <2>4 DEF Moving
    <2>6. d = [c EXCEPT !.ids = ids, !.todo = t]
      BY <2>1
    <2> HIDE DEF ids, t
    <2>7. /\ d \in Operation /\ d.ids = ids /\ d.todo = t
          /\ d.convs = c.convs /\ d.to = c.to
      BY <1>1, <2>3, <2>5, <2>6 DEF Operation
    <2>8. CASE c.todo \in Freeing /\ t = <<"move">>
      <3>1. c.convs \subseteq free /\ c.to \in EwsFolders
        BY <1>1, <2>8 DEF Rightful, Moving
      <3>2. \A i \in ids : i.m \in free
        BY <2>3, <3>1 DEF Ews!Names
      <3> QED BY <2>3, <2>7, <2>8, <3>1, <3>2, Purposes DEF Rightful, Moving
    <2>9. CASE c.todo \in Sparing /\ t \in Sparing
      BY <1>1, <2>3, <2>7, <2>9, Purposes DEF Rightful, Moving
    <2>10. CASE c.todo \in Destroying /\ t \in Destroying
      <3>1. Ews!Names(ids) \cup c.convs \subseteq named
        BY <1>1, <2>3, <2>10 DEF Rightful
      <3> QED BY <2>3, <2>7, <2>10, <3>1, Purposes DEF Rightful, Moving
    <2> QED BY <2>4, <2>8, <2>9, <2>10
  <1> QED BY <1>2, <1>3, Quiet

LEMMA InspectKeeps ==
    ASSUME EwsInv, NEW c \in ops, Ews!Inspect(c) PROVE EwsInv' /\ UNCHANGED EwsBox!vars
  <1>1. c \in Operation /\ Rightful(c)
    BY DEF EwsInv, Rightful
  <1>2. UNCHANGED <<place, moved, listed, number, named, free>>
    BY DEF Ews!Inspect, Ews!server, Ews!Still
  <1>3. ASSUME NEW d \in ops' \ ops PROVE Rightful(d)
    <2> DEFINE ids == Ews!Movable(c)  t == Tail(c.todo)
    <2>1. d = [c EXCEPT !.ids = ids, !.todo = t]
      BY <1>3 DEF Ews!Inspect, Ews!Ends, Ews!Continues
    <2>2. ids \in SUBSET Item /\ (\A i \in ids : Old(i))
            /\ \A i \in ids : place[i.m] # "sentitems"
      BY <1>1 DEF Rightful, Operation, Ews!Movable
    <2>3. c.todo \in Sparing /\ t = <<"move">> /\ c.to \in EwsFolders
      BY <1>1, Requests DEF Ews!Inspect, Sparing, Rightful, Moving
    <2>4. t \in Destroying \cup Harmless \cup Moving
      BY <2>3 DEF Moving
    <2> HIDE DEF ids, t
    <2>5. /\ d \in Operation /\ d.ids = ids /\ d.todo = t
          /\ d.convs = c.convs /\ d.to = c.to
      BY <1>1, <2>1, <2>2, <2>4 DEF Operation
    <2> QED BY <2>2, <2>3, <2>5, Purposes DEF Rightful, Moving
  <1> QED BY <1>2, <1>3, Quiet

(* An operation that moves messages has the right to move them.             *)
LEMMA MoveKeeps ==
    ASSUME EwsInv, NEW c \in ops, Ews!MoveItem(c) PROVE EwsInv' /\ EwsBox!Move
  <1>1. Rightful(c) /\ c \in Operation /\ c.todo = <<"move">> /\ c.ids \subseteq Item
    BY Requests DEF EwsInv, Rightful, Ews!MoveItem, Operation
  <1>2. c.to \in EwsFolders
    BY <1>1 DEF Rightful, Moving
  <1> DEFINE hit == Ews!Names({i \in c.ids : Ews!Live(i)})
  <1>3. /\ place' = [m \in Messages |-> IF m \in hit THEN c.to ELSE place[m]]
        /\ \/ moved' = [m \in Messages |-> IF m \in hit THEN moved[m] + 1 ELSE moved[m]]
           \/ UNCHANGED moved
        /\ ops' = ops \ {c} /\ UNCHANGED <<listed, number, named, free>>
    BY DEF Ews!MoveItem, Ews!Ends, Ews!Still
  <1>4. \A m \in hit : /\ m \in Messages /\ place[m] # "gone"
                       /\ place[m] = "sentitems" => m \in free
    BY <1>1 DEF Rightful, Ews!Names, Ews!Live, Item
  <1> HIDE DEF hit
  <1>5. /\ place \in [Messages -> Ews!Folders \cup {"gone"}]
        /\ moved \in [Messages -> Nat] /\ listed \subseteq Item
    BY DEF EwsInv, EwsTypes
  <1>6. moved' \in [Messages -> Nat] /\ \A m \in Messages : moved[m] <= moved'[m]
    BY <1>3, <1>5
  <1>7. \A i \in listed : Old(i)'
    BY <1>3, <1>5, <1>6 DEF EwsInv, EwsTypes, Old, Item
  <1>8. EwsTypes'
    BY <1>2, <1>3, <1>5, <1>6, <1>7 DEF EwsInv, EwsTypes, EwsFolders
  <1>9. Onward
    BY <1>2, <1>3, <1>5, <1>6 DEF Onward, EwsFolders
  <1>10. EwsInv'
    BY <1>3, <1>8, <1>9, RightsKept
  <1>11. Ews!Held' = Ews!Held
    BY <1>2, <1>3, <1>4, <1>5 DEF Ews!Held, EwsFolders, Ews!Folders
  <1>12. Ews!InSent' \subseteq Ews!Held /\ Ews!InSent \ Ews!InSent' \subseteq free
    BY <1>2, <1>3, <1>4, <1>5 DEF Ews!InSent, Ews!Held, EwsFolders
  <1> QED BY <1>3, <1>10, <1>11, <1>12 DEF EwsBox!Move

LEMMA DeleteKeeps ==
    ASSUME EwsInv, NEW c \in ops, Ews!DeleteItem(c) PROVE EwsInv' /\ EwsBox!Destroy
  <1>1. Rightful(c) /\ c.todo = <<"delete">>
    BY Requests DEF EwsInv, Rightful, Ews!DeleteItem
  <1> DEFINE hit == Ews!Names({i \in c.ids : Ews!Live(i)})
  <1>2. /\ place' = [m \in Messages |-> IF m \in hit THEN "gone" ELSE place[m]]
        /\ ops' = ops \ {c} /\ UNCHANGED <<moved, listed, number, named, free>>
    BY DEF Ews!DeleteItem, Ews!Ends, Ews!Still
  <1>3. hit \subseteq named
    BY <1>1 DEF Rightful, Destroying, Ews!Names
  <1> HIDE DEF hit
  <1>4. /\ place \in [Messages -> Ews!Folders \cup {"gone"}]
        /\ moved \in [Messages -> Nat]
    BY DEF EwsInv, EwsTypes
  <1>5. EwsTypes'
    BY <1>2, <1>4 DEF EwsInv, EwsTypes, Old
  <1>6. Onward
    BY <1>2, <1>4 DEF Onward
  <1>7. EwsInv'
    BY <1>2, <1>5, <1>6, RightsKept
  <1> QED BY <1>2, <1>3, <1>4, <1>7 DEF EwsBox!Destroy, Ews!Held, Ews!InSent

(* Anything that gives an item a new id and leaves it in the mailbox.       *)
LEMMA ItemMoves ==
    ASSUME EwsInv, NEW m \in Messages, place[m] # "gone", NEW to \in Ews!Folders,
           place' = [place EXCEPT ![m] = to], moved' = [moved EXCEPT ![m] = @ + 1],
           UNCHANGED <<listed, number, named, free>>,
           \A d \in ops' \ ops : Rightful(d),
           place[m] = "sentitems" /\ to # "sentitems" => m \in free
    PROVE  EwsInv' /\ EwsBox!Move
  <1>1. /\ place \in [Messages -> Ews!Folders \cup {"gone"}]
        /\ moved \in [Messages -> Nat] /\ listed \subseteq Item
    BY DEF EwsInv, EwsTypes
  <1>2. moved' \in [Messages -> Nat] /\ \A x \in Messages : moved[x] <= moved'[x]
    BY <1>1
  <1>3. \A i \in listed : Old(i)'
    BY <1>1, <1>2 DEF EwsInv, EwsTypes, Old, Item
  <1>4. EwsTypes'
    BY <1>1, <1>2, <1>3 DEF EwsInv, EwsTypes
  <1>5. Onward
    BY <1>1, <1>2 DEF Onward
  <1>6. EwsInv'
    <2>1. \A d \in ops' \ ops : Rightful(d)'
      BY <1>4, <1>5, RightsStay DEF EwsInv
    <2> QED BY <1>4, <1>5, <2>1, RightsKept
  <1>7. Ews!Held' = Ews!Held
    BY <1>1 DEF Ews!Held, Ews!Folders
  <1>8. Ews!InSent' \subseteq Ews!Held /\ Ews!InSent \ Ews!InSent' \subseteq free
    BY <1>1 DEF Ews!InSent, Ews!Held
  <1> QED BY <1>6, <1>7, <1>8 DEF EwsBox!Move

LEMMA ScheduleKeeps ==
    ASSUME EwsInv, NEW c \in ops, Ews!ScheduleMessage(c)
    PROVE  EwsInv' /\ (EwsBox!Move \/ UNCHANGED EwsBox!vars)
  <1>1. Rightful(c) /\ Ews!Is(c, "native") /\ c.ids \subseteq Item
    BY DEF EwsInv, Rightful, Ews!ScheduleMessage, Operation
  <1>2. \A i \in c.ids : i.m \in Messages /\ i.m \in free
    <2>1. c.todo \in Freeing
      BY <1>1, Requests DEF Rightful, Freeing
    <2> QED BY <1>1, <2>1 DEF Rightful, Ews!Names, Item
  <1>3. UNCHANGED <<listed, number, named, free>>
    BY DEF Ews!ScheduleMessage, Ews!Still
  <1>4. Ews!Ends(c) \/ Ews!Goes(c)
    BY DEF Ews!ScheduleMessage
  <1>5. \A d \in ops' \ ops : Rightful(d)
    BY <1>1, <1>4, GoesOn DEF Ews!Ends
  <1>6. CASE UNCHANGED Ews!server
    BY <1>3, <1>5, <1>6, Quiet DEF Ews!server
  <1>7. ASSUME NEW i \in c.ids, Ews!Live(i), place' = [place EXCEPT ![i.m] = "snoozed"],
               moved' = [moved EXCEPT ![i.m] = @ + 1]
        PROVE  EwsInv' /\ EwsBox!Move
    <2>1. place[i.m] # "gone" /\ "snoozed" \in Ews!Folders
      BY <1>7 DEF Ews!Live, Ews!Folders
    <2> QED BY <1>2, <1>3, <1>5, <1>7, <2>1, ItemMoves
  <1> QED BY <1>6, <1>7 DEF Ews!ScheduleMessage

(* Requests that touch neither folders nor ids.                             *)
LEMMA OthersKeep ==
    ASSUME EwsInv, NEW c \in ops,
           Ews!Fails(c) \/ Ews!UpdateIsRead(c) \/ Ews!SentId(c) \/ Ews!SetSnoozeTime(c)
             \/ Ews!FindFolder(c) \/ Ews!CreateFolder(c)
    PROVE  EwsInv' /\ UNCHANGED EwsBox!vars
  <1>1. UNCHANGED <<place, moved, listed, number, named, free>>
    BY DEF Ews!Fails, Ews!UpdateIsRead, Ews!SentId, Ews!SetSnoozeTime, Ews!FindFolder,
           Ews!CreateFolder, Ews!server, Ews!Still
  <1>2. CASE Ews!Ends(c)
    BY <1>1, <1>2, Quiet DEF Ews!Ends
  <1>3. CASE Ews!Goes(c) /\ (Ews!SentId(c) \/ Ews!SetSnoozeTime(c) \/ Ews!FindFolder(c)
                               \/ Ews!CreateFolder(c))
    <2>1. \A d \in ops' \ ops : Rightful(d)
      BY <1>3, GoesOn DEF Ews!SentId, Ews!SetSnoozeTime, Ews!FindFolder, Ews!CreateFolder
    <2> QED BY <1>1, <2>1, Quiet
  <1>4. CASE Ews!Is(c, "find") /\ Ews!Continues(c, [c EXCEPT !.todo = Tail(Tail(@))])
    <2>1. c \in Operation /\ Rightful(c)
      BY DEF EwsInv, Rightful
    <2> DEFINE t == Tail(Tail(c.todo))
    <2>2. \/ t = <<>>
          \/ c.todo \in Freeing /\ t = <<"move">>
      BY <1>4, <2>1, Requests DEF Freeing
    <2>3. [c EXCEPT !.todo = t].todo = t
      BY <2>1 DEF Operation
    <2>4. \A d \in ops' \ ops : d = [c EXCEPT !.todo = t] /\ t # <<>>
      BY <1>4, <2>3 DEF Ews!Continues
    <2>5. ASSUME NEW d \in ops' \ ops PROVE Rightful(d)
      <3> HIDE DEF t
      <3>1. c.todo \in Freeing /\ t = <<"move">> /\ t \in Moving /\ d = [c EXCEPT !.todo = t]
        BY <2>2, <2>4, <2>5 DEF Moving
      <3>2. /\ d \in Operation /\ d.ids = c.ids /\ d.todo = t
            /\ d.convs = c.convs /\ d.to = c.to
        BY <2>1, <3>1 DEF Operation
      <3>3. Ews!Names(c.ids) \cup c.convs \subseteq free /\ c.to \in EwsFolders
        BY <2>1, <3>1 DEF Rightful, Moving
      <3>4. \A i \in c.ids : i.m \in free
        BY <3>3 DEF Ews!Names
      <3> QED BY <2>1, <3>1, <3>2, <3>3, <3>4, Purposes DEF Rightful, Moving
    <2> QED BY <1>1, <2>5, Quiet
  <1> QED
    BY <1>2, <1>3, <1>4 DEF Ews!Fails, Ews!UpdateIsRead, Ews!SentId, Ews!SetSnoozeTime,
           Ews!FindFolder, Ews!CreateFolder

(* The gestures: they name what they may destroy or take out of Sent.       *)
LEMMA GesturesKeep ==
    ASSUME EwsInv,
           \/ Ews!FindOrCreateSnoozedFolder
           \/ \E ids \in SUBSET listed : Ews!MarkRead(ids) \/ Ews!MarkUnread(ids)
           \/ \E i \in listed : \/ Ews!MoveToTrash(i) \/ Ews!PermanentlyDelete(i)
                                \/ Ews!Snooze(i)
                                \/ \E to \in {"inbox", "other"} : Ews!MoveToFolder(i, to)
           \/ \E ms \in SUBSET Ews!Names(listed) :
                \/ Ews!BulkMoveToTrash(ms) \/ Ews!BulkPermanentlyDelete(ms)
                \/ Ews!BulkMoveToFolder(ms, "other")
    PROVE  EwsInv' /\ (EwsBox!Next \/ UNCHANGED EwsBox!vars)
  <1>1. "" \in Targets /\ \A f \in EwsFolders : f \in Targets
    BY Zenon DEF Targets
  <1>2. {"inbox", "other", "deleteditems", "snoozed"} \subseteq EwsFolders
    BY DEF EwsFolders, Ews!Folders
  <1>3. Ews!Names(listed) \subseteq Messages /\ \A i \in listed : i.m \in Messages
    BY DEF EwsInv, EwsTypes, Ews!Names, Item
  <1>4. named \subseteq Messages /\ free \subseteq Messages
    BY DEF EwsInv, EwsTypes
  <1>5. Ews!Names({}) \cup {} = {} /\ \A i \in listed : Ews!Names({i}) \cup {} = {i.m}
    BY DEF Ews!Names
  <1>a. \A ms : Ews!Names({}) \cup ms = ms
    BY DEF Ews!Names
  <1> DEFINE Silent == UNCHANGED <<Ews!Held, Ews!InSent>>
  <1>6. ASSUME NEW ids \in SUBSET listed, NEW todo \in Harmless, NEW to \in Targets,
               Ews!Start(todo, ids, {}, to), Ews!Keep
        PROVE  EwsInv' /\ UNCHANGED EwsBox!vars
    <2>1. todo \notin Destroying \cup Moving /\ todo \notin Freeing \cup {<<"move">>}
      BY <1>6, Purposes DEF Moving
    <2>2. UNCHANGED <<named, free>>
      BY <1>6 DEF Ews!Keep
    <2>3. EwsInv' /\ Silent
      BY <1>4, <1>6, <2>1, <2>2, Begun
    <2> QED BY <2>2, <2>3 DEF EwsBox!vars
  <1>7. ASSUME NEW ids \in SUBSET listed, NEW convs \in SUBSET Messages,
               NEW todo \in Freeing \cup {<<"move">>}, NEW to \in EwsFolders,
               Ews!Start(todo, ids, convs, to),
               free' = free \cup (Ews!Names(ids) \cup convs), named' = named
        PROVE  EwsInv' /\ EwsBox!Next
    <2>1. todo \in Moving /\ todo \notin Destroying
      BY <1>7, Purposes DEF Moving
    <2>2. Ews!Names(ids) \cup convs \in SUBSET Messages
      BY <1>3 DEF Ews!Names
    <2>3. EwsInv' /\ Silent
      BY <1>1, <1>4, <1>7, <2>1, <2>2, Begun
    <2>4. EwsBox!Release(Ews!Names(ids) \cup convs)
      BY <1>7, <2>3 DEF EwsBox!Release
    <2> QED BY <2>2, <2>3, <2>4 DEF EwsBox!Next
  <1>8. ASSUME NEW ids \in SUBSET listed, NEW convs \in SUBSET Messages,
               NEW todo \in Destroying, NEW to \in Targets,
               Ews!Start(todo, ids, convs, to),
               named' = named \cup (Ews!Names(ids) \cup convs), free' = free
        PROVE  EwsInv' /\ EwsBox!Next
    <2>1. todo \notin Moving /\ todo \notin Freeing \cup {<<"move">>}
      BY <1>8, Purposes DEF Moving
    <2>2. Ews!Names(ids) \cup convs \in SUBSET Messages
      BY <1>3 DEF Ews!Names
    <2>3. EwsInv' /\ Silent
      BY <1>4, <1>8, <2>1, <2>2, Begun
    <2>4. EwsBox!Name(Ews!Names(ids) \cup convs)
      BY <1>8, <2>3 DEF EwsBox!Name
    <2> QED BY <2>2, <2>3, <2>4 DEF EwsBox!Next
  <1>9. CASE Ews!FindOrCreateSnoozedFolder
    <2>1. \E to \in Targets : Ews!Start(<<"find", "create">>, {}, {}, to) /\ Ews!Keep
      BY <1>1, <1>9, Zenon DEF Ews!FindOrCreateSnoozedFolder
    <2> QED BY <1>6, <2>1 DEF Harmless
  <1>10. ASSUME NEW ids \in SUBSET listed, Ews!MarkRead(ids) \/ Ews!MarkUnread(ids)
         PROVE  EwsInv' /\ UNCHANGED EwsBox!vars
    <2>1. \E to \in Targets, todo \in {<<"read">>, <<"unread">>} :
            Ews!Start(todo, ids, {}, to) /\ Ews!Keep
      BY <1>1, <1>10, Zenon DEF Ews!MarkRead, Ews!MarkUnread
    <2> QED BY <1>6, <2>1 DEF Harmless
  <1>11. ASSUME NEW i \in listed, Ews!MoveToTrash(i) \/ Ews!Snooze(i)
         PROVE  EwsInv' /\ EwsBox!Next
    <2>1. /\ \E todo \in Freeing \cup {<<"move">>}, to \in EwsFolders :
               Ews!Start(todo, {i}, {}, to)
          /\ free' = free \cup {i.m} /\ named' = named
      BY <1>2, <1>11 DEF Ews!MoveToTrash, Ews!Snooze, Freeing
    <2> QED BY <1>5, <1>7, <2>1
  <1>12. ASSUME NEW i \in listed, NEW to \in {"inbox", "other"}, Ews!MoveToFolder(i, to)
         PROVE  EwsInv' /\ EwsBox!Next
    <2>1. /\ Ews!Start(<<"move">>, {i}, {}, to) /\ to \in EwsFolders
          /\ free' = free \cup {i.m} /\ named' = named
      BY <1>2, <1>12 DEF Ews!MoveToFolder
    <2> QED BY <1>5, <1>7, <2>1
  <1>13. ASSUME NEW i \in listed, Ews!PermanentlyDelete(i) PROVE EwsInv' /\ EwsBox!Next
    <2>1. /\ \E to \in Targets : Ews!Start(<<"delete">>, {i}, {}, to)
          /\ named' = named \cup {i.m} /\ free' = free
      BY <1>1, <1>13, Zenon DEF Ews!PermanentlyDelete
    <2> QED BY <1>5, <1>8, <2>1 DEF Destroying
  <1>14. ASSUME NEW ms \in SUBSET Ews!Names(listed), Ews!BulkMoveToTrash(ms)
         PROVE  EwsInv' /\ EwsBox!Next
    <2>1. /\ Ews!Start(<<"collect", "move">>, {}, ms, "deleteditems")
          /\ free' = free \cup ms /\ named' = named
      BY <1>14 DEF Ews!BulkMoveToTrash
    <2> QED BY <1>2, <1>3, <1>7, <1>a, <2>1 DEF Freeing
  <1>15. ASSUME NEW ms \in SUBSET Ews!Names(listed), Ews!BulkPermanentlyDelete(ms)
         PROVE  EwsInv' /\ EwsBox!Next
    <2>1. /\ \E to \in Targets : Ews!Start(<<"collect all", "delete">>, {}, ms, to)
          /\ named' = named \cup ms /\ free' = free
      BY <1>1, <1>15, Zenon DEF Ews!BulkPermanentlyDelete
    <2> QED BY <1>3, <1>8, <1>a, <2>1 DEF Destroying
  <1>16. ASSUME NEW ms \in SUBSET Ews!Names(listed), Ews!BulkMoveToFolder(ms, "other")
         PROVE  EwsInv' /\ UNCHANGED EwsBox!vars
    <2> DEFINE todo == <<"collect", "sent id", "inspect", "move">>
    <2>1. Ews!Start(todo, {}, ms, "other") /\ named' = named /\ free' = free
      BY <1>16 DEF Ews!BulkMoveToFolder, Ews!Keep
    <2>2. todo \in Sparing /\ todo \in Moving
      BY DEF Sparing, Moving
    <2> HIDE DEF todo
    <2>3. todo \notin Destroying /\ todo \notin Freeing \cup {<<"move">>}
      BY <2>2, Purposes
    <2>4. EwsInv' /\ Silent
      BY <1>1, <1>2, <1>3, <1>4, <2>1, <2>2, <2>3, Begun
    <2> QED BY <2>1, <2>4 DEF EwsBox!vars
  <1> QED BY <1>9, <1>10, <1>11, <1>12, <1>13, <1>14, <1>15, <1>16

LEMMA EwsKeeps ==
    ASSUME EwsInv, [Ews!Next]_(Ews!vars)
    PROVE  EwsInv' /\ [EwsBox!Next]_(EwsBox!vars)
  <1>1. CASE Ews!ListThreads
    <2>1. UNCHANGED <<place, moved, ops, number, named, free>>
      BY <1>1 DEF Ews!ListThreads, Ews!server
    <2>2. listed' \subseteq Item /\ \A i \in listed' : i.k = moved[i.m] /\ i.m \in Messages
      BY <1>1 DEF Ews!ListThreads, Ews!Id, Item, EwsInv, EwsTypes
    <2>3. \A m \in Messages : moved[m] \in Nat
      BY DEF EwsInv, EwsTypes
    <2>4. \A i \in listed' : Old(i)'
      BY <2>1, <2>2, <2>3 DEF Old
    <2>5. EwsTypes'
      BY <2>1, <2>2, <2>4 DEF EwsInv, EwsTypes
    <2>6. Onward
      BY <2>1, <2>3 DEF Onward
    <2>7. EwsInv'
      BY <2>1, <2>5, <2>6, RightsKept
    <2> QED BY <2>1, <2>7 DEF EwsBox!vars, Ews!Held, Ews!InSent
  <1>2. ASSUME NEW c \in ops,
               \/ Ews!Collect(c) \/ Ews!Inspect(c) \/ Ews!MoveItem(c)
               \/ Ews!DeleteItem(c) \/ Ews!ScheduleMessage(c)
        PROVE  EwsInv' /\ (EwsBox!Next \/ UNCHANGED EwsBox!vars)
    BY <1>2, CollectKeeps, InspectKeeps, MoveKeeps, DeleteKeeps, ScheduleKeeps DEF EwsBox!Next
  <1>3. ASSUME NEW m \in Messages, Ews!Wake(m) \/ Ews!OtherClient(m)
        PROVE  EwsInv' /\ EwsBox!Next
    <2>1. /\ place[m] # "gone" /\ place[m] # "sentitems"
          /\ \E to \in Ews!Folders : place' = [place EXCEPT ![m] = to]
          /\ moved' = [moved EXCEPT ![m] = @ + 1]
          /\ UNCHANGED <<listed, number, named, free, ops>>
      BY <1>3 DEF Ews!Wake, Ews!OtherClient, Ews!Still, Ews!Folders
    <2>2. \A d \in ops' \ ops : Rightful(d)
      BY <2>1
    <2> QED BY <2>1, <2>2, ItemMoves DEF EwsBox!Next
  <1>4. CASE UNCHANGED Ews!vars
    BY <1>4, Quiet DEF Ews!vars, Ews!server
  <1> QED BY <1>1, <1>2, <1>3, <1>4, OthersKeep, GesturesKeep DEF Ews!Next

----------------------------------------------------------------------------
(* JmapMail: the same for a client that replaces the mailboxes of an email   *)
(* by what it read of them before.                                          *)
JmapDestroying == {<<"destroy">>, <<"threads", "destroy">>}
JmapFreeing == {<<"folders", "threads", "set">>, <<"threads", "set">>}
Replacing == {<<"folders", "get", "set">>, <<"get", "set">>,
              <<"threads", "folders", "get", "set">>}
Snoozing == {<<"folders", "create", "get", "snooze">>, <<"create", "get", "snooze">>,
             <<"get", "snooze">>, <<"snooze">>}
JmapHarmless == {<<"read">>, <<"unread">>, <<"folders", "create">>, <<"create">>} \cup Snoozing
JmapMoving == JmapFreeing \cup Replacing \cup {<<"set">>}
JmapFolders == Jmap!Mailboxes \ {"sentitems"}
JmapTargets == JmapFolders \cup {""}
JmapOperation == [n : Nat, todo : JmapDestroying \cup JmapHarmless \cup JmapMoving,
                  ms : SUBSET Messages, to : JmapTargets, sent : SUBSET Messages]

(* An operation that replaces mailboxes keeps Sent for the emails it read    *)
(* there, and there is no other in Sent that it may not take out.           *)
JmapRightful(c) ==
  /\ c \in JmapOperation
  /\ c.todo \in JmapMoving => c.to \in JmapFolders
  /\ c.todo \in JmapDestroying => c.ms \subseteq named
  /\ c.todo \in JmapFreeing => c.ms \subseteq free
  /\ c.todo = <<"set">> =>
       \A m \in c.ms : m \in free \/ ("sentitems" \in place[m] => m \in c.sent)
  /\ \A m \in c.sent : m \in free \/ place[m] = {} \/ "sentitems" \in place[m]

JmapTypes == /\ place \in [Messages -> SUBSET Jmap!Mailboxes]
             /\ named \subseteq Messages /\ free \subseteq Messages /\ number \in Nat
JmapInv == JmapTypes /\ \A c \in ops : JmapRightful(c)

JmapBox == INSTANCE MailboxContract WITH held <- Jmap!Held, sent <- Jmap!InSent, doomed <- named

LEMMA JmapStarts == Jmap!Init => JmapInv /\ JmapBox!Init
  <1> SUFFICES ASSUME Jmap!Init PROVE JmapInv /\ JmapBox!Init
    OBVIOUS
  <1>1. /\ place \in [Messages -> {{"inbox"}, {"sentitems"}, {"inbox", "sentitems"}}]
        /\ ops = {} /\ number = 0 /\ named = {} /\ free = {}
    BY DEF Jmap!Init
  <1>2. JmapInv
    BY <1>1 DEF JmapInv, JmapTypes, Jmap!Mailboxes, Jmap!System
  <1>3. JmapBox!Init
    BY <1>1 DEF JmapBox!Init, Jmap!Held, Jmap!InSent
  <1> QED BY <1>2, <1>3

LEMMA JmapRequests ==
    ASSUME NEW c \in JmapOperation
    PROVE  /\ Jmap!Is(c, "folders") =>
                \/ c.todo = <<"folders", "get", "set">> /\ Tail(c.todo) = <<"get", "set">>
                \/ /\ c.todo = <<"folders", "threads", "set">>
                   /\ Tail(c.todo) = <<"threads", "set">>
                \/ /\ c.todo = <<"folders", "create", "get", "snooze">>
                   /\ Tail(c.todo) = <<"create", "get", "snooze">>
                \/ c.todo = <<"folders", "create">> /\ Tail(c.todo) = <<"create">>
           /\ Jmap!Is(c, "create") =>
                \/ c.todo = <<"create", "get", "snooze">> /\ Tail(c.todo) = <<"get", "snooze">>
                \/ c.todo = <<"create">> /\ Tail(c.todo) = <<>>
           /\ Jmap!Is(c, "threads") =>
                \/ c.todo = <<"threads", "destroy">> /\ Tail(c.todo) = <<"destroy">>
                \/ c.todo = <<"threads", "set">> /\ Tail(c.todo) = <<"set">>
                \/ /\ c.todo = <<"threads", "folders", "get", "set">>
                   /\ Tail(c.todo) = <<"folders", "get", "set">>
           /\ Jmap!Is(c, "get") => \/ c.todo = <<"get", "set">> /\ Tail(c.todo) = <<"set">>
                                   \/ /\ c.todo = <<"get", "snooze">>
                                      /\ Tail(c.todo) = <<"snooze">>
           /\ Jmap!Is(c, "set") => c.todo = <<"set">>
           /\ Jmap!Is(c, "snooze") => c.todo = <<"snooze">>
           /\ Jmap!Is(c, "destroy") => c.todo = <<"destroy">>
  <1>1. c.todo \in JmapDestroying \cup JmapHarmless \cup JmapMoving
    BY Zenon DEF JmapOperation
  <1>2. /\ <<"read">> # <<>> /\ Head(<<"read">>) = "read"
        /\ Tail(<<"read">>) = <<>>
        /\ <<"unread">> # <<>> /\ Head(<<"unread">>) = "unread"
        /\ Tail(<<"unread">>) = <<>>
        /\ <<"destroy">> # <<>> /\ Head(<<"destroy">>) = "destroy"
        /\ Tail(<<"destroy">>) = <<>>
        /\ <<"set">> # <<>> /\ Head(<<"set">>) = "set"
        /\ Tail(<<"set">>) = <<>>
        /\ <<"snooze">> # <<>> /\ Head(<<"snooze">>) = "snooze"
        /\ Tail(<<"snooze">>) = <<>>
        /\ <<"create">> # <<>> /\ Head(<<"create">>) = "create"
        /\ Tail(<<"create">>) = <<>>
    OBVIOUS
  <1>3. /\ <<"threads", "destroy">> # <<>> /\ Head(<<"threads", "destroy">>) = "threads"
        /\ Tail(<<"threads", "destroy">>) = <<"destroy">>
        /\ <<"get", "set">> # <<>> /\ Head(<<"get", "set">>) = "get"
        /\ Tail(<<"get", "set">>) = <<"set">>
        /\ <<"threads", "set">> # <<>> /\ Head(<<"threads", "set">>) = "threads"
        /\ Tail(<<"threads", "set">>) = <<"set">>
        /\ <<"get", "snooze">> # <<>> /\ Head(<<"get", "snooze">>) = "get"
        /\ Tail(<<"get", "snooze">>) = <<"snooze">>
        /\ <<"folders", "create">> # <<>> /\ Head(<<"folders", "create">>) = "folders"
        /\ Tail(<<"folders", "create">>) = <<"create">>
    OBVIOUS
  <1>4. /\ <<"folders", "get", "set">> # <<>> /\ Head(<<"folders", "get", "set">>) = "folders"
        /\ Tail(<<"folders", "get", "set">>) = <<"get", "set">>
        /\ <<"folders", "threads", "set">> # <<>>
        /\ Head(<<"folders", "threads", "set">>) = "folders"
        /\ Tail(<<"folders", "threads", "set">>) = <<"threads", "set">>
        /\ <<"create", "get", "snooze">> # <<>>
        /\ Head(<<"create", "get", "snooze">>) = "create"
        /\ Tail(<<"create", "get", "snooze">>) = <<"get", "snooze">>
    OBVIOUS
  <1>5. Head(<<"threads", "folders", "get", "set">>) = "threads"
          /\ <<"threads", "folders", "get", "set">> # <<>>
    OBVIOUS
  <1>6. Tail(<<"threads", "folders", "get", "set">>) = <<"folders", "get", "set">>
    BY TailOfFour, Zenon
  <1>7. Head(<<"folders", "create", "get", "snooze">>) = "folders"
          /\ <<"folders", "create", "get", "snooze">> # <<>>
    OBVIOUS
  <1>8. Tail(<<"folders", "create", "get", "snooze">>) = <<"create", "get", "snooze">>
    BY TailOfFour, Zenon
  <1> QED BY <1>1, <1>2, <1>3, <1>4, <1>5, <1>6, <1>7, <1>8
            DEF JmapDestroying, JmapHarmless, Snoozing, JmapMoving, JmapFreeing, Replacing,
                Jmap!Is

LEMMA JmapPurposes ==
    /\ JmapHarmless \cap (JmapDestroying \cup JmapMoving) = {}
    /\ JmapDestroying \cap JmapMoving = {}
    /\ Replacing \cap JmapFreeing = {}
    /\ <<"set">> \notin JmapFreeing \cup Replacing
  BY DEF JmapHarmless, Snoozing, JmapDestroying, JmapFreeing, Replacing, JmapMoving

(* What has been destroyed stays so, and what may not leave Sent stays where *)
(* it is.                                                                   *)
JmapOnward == /\ \A m \in Messages :
                   /\ place[m] = {} => place'[m] = {}
                   /\ \/ m \in free \/ place'[m] = {}
                      \/ "sentitems" \in place'[m] <=> "sentitems" \in place[m]
              /\ named \subseteq named' /\ free \subseteq free'

LEMMA JmapRightsStay ==
    ASSUME JmapOnward, NEW c, JmapRightful(c)
    PROVE  JmapRightful(c)'
  <1>1. c.ms \subseteq Messages /\ c.sent \subseteq Messages
    BY Zenon DEF JmapRightful, JmapOperation
  <1> QED BY <1>1 DEF JmapRightful, JmapOnward

LEMMA JmapRightsKept ==
    ASSUME JmapInv, JmapTypes', JmapOnward, \A d \in ops' \ ops : JmapRightful(d)
    PROVE  JmapInv'
  BY JmapRightsStay DEF JmapInv

LEMMA JmapQuiet ==
    ASSUME JmapInv, UNCHANGED <<place, number, named, free>>,
           \A d \in ops' \ ops : JmapRightful(d)
    PROVE  JmapInv' /\ UNCHANGED JmapBox!vars
  <1>1. JmapTypes' /\ JmapOnward
    BY DEF JmapInv, JmapTypes, JmapOnward
  <1> QED BY <1>1, JmapRightsKept DEF JmapBox!vars, Jmap!Held, Jmap!InSent

LEMMA JmapBegun ==
    ASSUME JmapInv, NEW todo \in JmapDestroying \cup JmapHarmless \cup JmapMoving,
           NEW ms \in SUBSET Messages, NEW to \in JmapTargets,
           Jmap!Start(todo, ms, to),
           named \subseteq named', named' \subseteq Messages,
           free \subseteq free', free' \subseteq Messages,
           todo \in JmapMoving => to \in JmapFolders,
           todo \in JmapDestroying => ms \subseteq named',
           todo \in JmapFreeing => ms \subseteq free', todo # <<"set">>
    PROVE  JmapInv' /\ UNCHANGED <<Jmap!Held, Jmap!InSent>>
  <1>0. PICK c : c = [n |-> number + 1, todo |-> todo, ms |-> ms, to |-> to, sent |-> {}]
    OBVIOUS
  <1>1. ops' = ops \cup {c} /\ number' = number + 1 /\ place' = place
    BY <1>0 DEF Jmap!Start, Jmap!server
  <1>2. number \in Nat /\ JmapTypes
    BY DEF JmapInv, JmapTypes
  <1>3. c \in JmapOperation
    BY <1>0, <1>2 DEF JmapOperation
  <1>4. c.todo = todo /\ c.ms = ms /\ c.to = to /\ c.sent = {}
    BY <1>0
  <1>5. JmapRightful(c)'
    BY <1>3, <1>4 DEF JmapRightful
  <1>6. JmapTypes' /\ JmapOnward
    BY <1>1, <1>2 DEF JmapTypes, JmapOnward
  <1>7. \A d \in ops : JmapRightful(d)'
    BY <1>6, JmapRightsStay DEF JmapInv
  <1>8. JmapInv'
    BY <1>1, <1>5, <1>6, <1>7 DEF JmapInv
  <1> QED BY <1>1, <1>8 DEF Jmap!Held, Jmap!InSent

LEMMA JmapGoesOn ==
    ASSUME JmapInv, NEW c \in ops, Jmap!Goes(c), Jmap!Is(c, "folders") \/ Jmap!Is(c, "create")
    PROVE  \A d \in ops' \ ops : JmapRightful(d)
  <1>1. c \in JmapOperation /\ JmapRightful(c)
    BY DEF JmapInv, JmapRightful
  <1> DEFINE t == Tail(c.todo)
  <1>2. \/ t = <<>>
        \/ c.todo \in Replacing /\ t \in Replacing
        \/ c.todo \in JmapFreeing /\ t \in JmapFreeing
        \/ t \in JmapHarmless
    BY <1>1, JmapRequests DEF Replacing, JmapFreeing, JmapHarmless, Snoozing
  <1>3. [c EXCEPT !.todo = t].todo = t
    BY <1>1 DEF JmapOperation
  <1>4. \A d \in ops' \ ops : d = [c EXCEPT !.todo = t] /\ t # <<>>
    BY <1>3 DEF Jmap!Goes, Jmap!Continues
  <1>5. ASSUME NEW d \in ops' \ ops PROVE JmapRightful(d)
    <2>1. t \in JmapDestroying \cup JmapHarmless \cup JmapMoving
      BY <1>2, <1>4, <1>5 DEF JmapMoving
    <2> HIDE DEF t
    <2>2. /\ d \in JmapOperation /\ d.ms = c.ms /\ d.todo = t /\ d.to = c.to /\ d.sent = c.sent
      BY <1>1, <1>4, <1>5, <2>1 DEF JmapOperation
    <2>3. CASE t \in JmapHarmless
      BY <1>1, <2>2, <2>3, JmapPurposes DEF JmapRightful, JmapMoving
    <2>4. CASE c.todo \in Replacing /\ t \in Replacing
      BY <1>1, <2>2, <2>4, JmapPurposes DEF JmapRightful, JmapMoving
    <2>5. CASE c.todo \in JmapFreeing /\ t \in JmapFreeing
      BY <1>1, <2>2, <2>5, JmapPurposes DEF JmapRightful, JmapMoving
    <2> QED BY <1>2, <1>4, <1>5, <2>3, <2>4, <2>5
  <1> QED BY <1>5

LEMMA ThreadsKeep ==
    ASSUME JmapInv, NEW c \in ops, Jmap!ThreadEmails(c)
    PROVE  JmapInv' /\ UNCHANGED JmapBox!vars
  <1>1. c \in JmapOperation /\ JmapRightful(c)
    BY DEF JmapInv, JmapRightful
  <1>2. UNCHANGED <<place, number, named, free>>
    BY DEF Jmap!ThreadEmails, Jmap!server, Jmap!Own
  <1>3. ASSUME NEW d \in ops' \ ops PROVE JmapRightful(d)
    <2> DEFINE found == {m \in c.ms : Jmap!Live(m)}  t == Tail(c.todo)
    <2>1. d = [c EXCEPT !.ms = found, !.todo = t]
      BY <1>3 DEF Jmap!ThreadEmails, Jmap!Ends, Jmap!Continues
    <2>2. found \subseteq c.ms /\ c.ms \subseteq Messages
      BY <1>1 DEF JmapOperation
    <2>3. \/ c.todo \in JmapFreeing /\ t = <<"set">>
          \/ c.todo \in Replacing /\ t \in Replacing
          \/ c.todo \in JmapDestroying /\ t \in JmapDestroying
      BY <1>1, JmapRequests DEF Jmap!ThreadEmails, JmapFreeing, Replacing, JmapDestroying
    <2>4. t \in JmapDestroying \cup JmapHarmless \cup JmapMoving
      BY <2>3 DEF JmapMoving
    <2> HIDE DEF found, t
    <2>5. /\ d \in JmapOperation /\ d.ms = found /\ d.todo = t /\ d.to = c.to /\ d.sent = c.sent
      BY <1>1, <2>1, <2>2, <2>4 DEF JmapOperation
    <2>6. CASE c.todo \in JmapFreeing /\ t = <<"set">>
      BY <1>1, <2>2, <2>5, <2>6, JmapPurposes DEF JmapRightful, JmapMoving
    <2>7. CASE c.todo \in Replacing /\ t \in Replacing
      BY <1>1, <2>5, <2>7, JmapPurposes DEF JmapRightful, JmapMoving
    <2>8. CASE c.todo \in JmapDestroying /\ t \in JmapDestroying
      BY <1>1, <2>2, <2>5, <2>8, JmapPurposes DEF JmapRightful, JmapMoving
    <2> QED BY <2>3, <2>6, <2>7, <2>8
  <1> QED BY <1>2, <1>3, JmapQuiet

LEMMA GetKeeps ==
    ASSUME JmapInv, NEW c \in ops, Jmap!GetMailboxes(c)
    PROVE  JmapInv' /\ UNCHANGED JmapBox!vars
  <1>1. c \in JmapOperation /\ JmapRightful(c)
    BY DEF JmapInv, JmapRightful
  <1>2. UNCHANGED <<place, number, named, free>>
    BY DEF Jmap!GetMailboxes, Jmap!server, Jmap!Own
  <1>3. ASSUME NEW d \in ops' \ ops PROVE JmapRightful(d)
    <2> DEFINE now == {m \in c.ms : "sentitems" \in place[m]}  t == Tail(c.todo)
    <2>1. d = [c EXCEPT !.sent = now, !.todo = t]
      BY <1>3 DEF Jmap!GetMailboxes, Jmap!Continues
    <2>2. now \subseteq Messages
      BY <1>1 DEF JmapOperation
    <2>3. \/ c.todo \in Replacing /\ t = <<"set">>
          \/ t \in JmapHarmless
      BY <1>1, JmapRequests DEF Jmap!GetMailboxes, Replacing, JmapHarmless, Snoozing
    <2>4. t \in JmapDestroying \cup JmapHarmless \cup JmapMoving
      BY <2>3 DEF JmapMoving
    <2>5. \A m \in c.ms : "sentitems" \in place[m] <=> m \in now
      OBVIOUS
    <2>6. \A m \in now : "sentitems" \in place[m]
      OBVIOUS
    <2> HIDE DEF now, t
    <2>7. /\ d \in JmapOperation /\ d.ms = c.ms /\ d.todo = t /\ d.to = c.to /\ d.sent = now
      BY <1>1, <2>1, <2>2, <2>4 DEF JmapOperation
    <2>8. CASE c.todo \in Replacing /\ t = <<"set">>
      BY <1>1, <2>5, <2>6, <2>7, <2>8, JmapPurposes DEF JmapRightful, JmapMoving
    <2>9. CASE t \in JmapHarmless
      BY <1>1, <2>6, <2>7, <2>9, JmapPurposes DEF JmapRightful, JmapMoving
    <2> QED BY <2>3, <2>8, <2>9
  <1> QED BY <1>2, <1>3, JmapQuiet

(* Sent is kept for what was read there, and what has left it since may.    *)
LEMMA SetKeeps ==
    ASSUME JmapInv, NEW c \in ops, Jmap!SetMailboxes(c) PROVE JmapInv' /\ JmapBox!Move
  <1>1. JmapRightful(c) /\ c \in JmapOperation /\ c.todo = <<"set">>
    BY JmapRequests DEF JmapInv, JmapRightful, Jmap!SetMailboxes
  <1>2. c.to \in JmapFolders
    BY <1>1 DEF JmapRightful, JmapMoving
  <1>3. PICK refused \in {{}, c.ms} :
          place' = [m \in Messages |-> IF m \in c.ms \ refused /\ Jmap!Live(m)
                                       THEN Jmap!Replaced(c, m) ELSE place[m]]
    BY DEF Jmap!SetMailboxes
  <1>4. UNCHANGED <<number, named, free>> /\ ops' \subseteq ops
    BY DEF Jmap!SetMailboxes, Jmap!Own, Jmap!Ends
  <1>5. place \in [Messages -> SUBSET Jmap!Mailboxes]
    BY DEF JmapInv, JmapTypes
  <1>6. \A m \in Messages : /\ Jmap!Replaced(c, m) \in SUBSET Jmap!Mailboxes
                            /\ Jmap!Replaced(c, m) # {}
                            /\ ("sentitems" \in Jmap!Replaced(c, m) <=> m \in c.sent)
    BY <1>2 DEF Jmap!Replaced, JmapFolders, Jmap!Mailboxes, Jmap!System
  <1>7. JmapTypes'
    BY <1>3, <1>4, <1>5, <1>6 DEF JmapInv, JmapTypes
  <1>8. \A m \in c.ms : \/ m \in free \/ place[m] = {}
                        \/ ("sentitems" \in place[m] <=> m \in c.sent)
    BY <1>1 DEF JmapRightful
  <1>9. JmapOnward
    BY <1>3, <1>4, <1>5, <1>6, <1>8 DEF JmapOnward, Jmap!Live
  <1>10. JmapInv'
    BY <1>4, <1>7, <1>9, JmapRightsKept
  <1>11. Jmap!Held' = Jmap!Held
    BY <1>3, <1>5, <1>6 DEF Jmap!Held, Jmap!Live
  <1>12. Jmap!InSent' \subseteq Jmap!Held /\ Jmap!InSent \ Jmap!InSent' \subseteq free
    BY <1>3, <1>5, <1>6, <1>8 DEF Jmap!InSent, Jmap!Held, Jmap!Live
  <1> QED BY <1>4, <1>10, <1>11, <1>12 DEF JmapBox!Move

LEMMA SnoozeKeeps ==
    ASSUME JmapInv, NEW c \in ops, Jmap!SetSnoozed(c) PROVE JmapInv' /\ JmapBox!Move
  <1>1. JmapRightful(c)
    BY DEF JmapInv
  <1>3. PICK hit \in SUBSET {m \in c.ms : Jmap!Live(m)} :
          place' = [m \in Messages |-> IF m \in hit THEN Jmap!Unfiled(c, m) ELSE place[m]]
    BY DEF Jmap!SetSnoozed
  <1>4. UNCHANGED <<number, named, free>> /\ ops' \subseteq ops
    BY DEF Jmap!SetSnoozed, Jmap!Own, Jmap!Ends
  <1>5. place \in [Messages -> SUBSET Jmap!Mailboxes]
    BY DEF JmapInv, JmapTypes
  <1>6. \A m \in Messages :
          /\ Jmap!Unfiled(c, m) \in SUBSET Jmap!Mailboxes /\ Jmap!Unfiled(c, m) # {}
          /\ "sentitems" \in Jmap!Unfiled(c, m) <=> "sentitems" \in place[m] \/ m \in c.sent
    BY <1>5 DEF Jmap!Unfiled, Jmap!Mailboxes, Jmap!System
  <1>7. JmapTypes'
    BY <1>3, <1>4, <1>5, <1>6 DEF JmapInv, JmapTypes
  <1>8. \A m \in c.sent : m \in free \/ place[m] = {} \/ "sentitems" \in place[m]
    BY <1>1 DEF JmapRightful
  <1>9. JmapOnward
    BY <1>3, <1>4, <1>5, <1>6, <1>8 DEF JmapOnward, Jmap!Live
  <1>10. JmapInv'
    BY <1>4, <1>7, <1>9, JmapRightsKept
  <1>11. Jmap!Held' = Jmap!Held
    BY <1>3, <1>5, <1>6 DEF Jmap!Held, Jmap!Live
  <1>12. Jmap!InSent' \subseteq Jmap!Held /\ Jmap!InSent \ Jmap!InSent' \subseteq free
    BY <1>3, <1>5, <1>6 DEF Jmap!InSent, Jmap!Held, Jmap!Live
  <1> QED BY <1>4, <1>10, <1>11, <1>12 DEF JmapBox!Move

LEMMA DestroyKeeps ==
    ASSUME JmapInv, NEW c \in ops, Jmap!Destroy(c) PROVE JmapInv' /\ JmapBox!Destroy
  <1>1. c.todo \in JmapDestroying /\ c.ms \subseteq named
    BY JmapRequests DEF JmapInv, JmapRightful, Jmap!Destroy, JmapDestroying
  <1>2. PICK refused \in {{}, c.ms} :
          place' = [m \in Messages |-> IF m \in c.ms \ refused THEN {} ELSE place[m]]
    BY DEF Jmap!Destroy
  <1>3. UNCHANGED <<number, named, free>> /\ ops' \subseteq ops
    BY DEF Jmap!Destroy, Jmap!Own, Jmap!Ends
  <1>4. place \in [Messages -> SUBSET Jmap!Mailboxes]
    BY DEF JmapInv, JmapTypes
  <1>5. JmapTypes'
    BY <1>2, <1>3, <1>4 DEF JmapInv, JmapTypes
  <1>6. JmapOnward
    BY <1>2, <1>3, <1>4 DEF JmapOnward
  <1>7. JmapInv'
    BY <1>3, <1>5, <1>6, JmapRightsKept
  <1> QED BY <1>1, <1>2, <1>3, <1>4, <1>7 DEF JmapBox!Destroy, Jmap!Held, Jmap!InSent

LEMMA JmapOthersKeep ==
    ASSUME JmapInv, NEW c \in ops,
           Jmap!Fails(c) \/ Jmap!FolderIds(c) \/ Jmap!CreateSnoozed(c) \/ Jmap!SetSeen(c)
    PROVE  JmapInv' /\ UNCHANGED JmapBox!vars
  <1>1. UNCHANGED <<place, number, named, free>>
    BY DEF Jmap!Fails, Jmap!FolderIds, Jmap!CreateSnoozed, Jmap!SetSeen, Jmap!server, Jmap!Own
  <1>2. CASE Jmap!Ends(c)
    BY <1>1, <1>2, JmapQuiet DEF Jmap!Ends
  <1>3. CASE Jmap!Goes(c) /\ (Jmap!FolderIds(c) \/ Jmap!CreateSnoozed(c))
    <2>1. \A d \in ops' \ ops : JmapRightful(d)
      BY <1>3, JmapGoesOn DEF Jmap!FolderIds, Jmap!CreateSnoozed
    <2> QED BY <1>1, <2>1, JmapQuiet
  <1> QED BY <1>2, <1>3 DEF Jmap!Fails, Jmap!FolderIds, Jmap!CreateSnoozed, Jmap!SetSeen

LEMMA JmapGesturesKeep ==
    ASSUME JmapInv,
           \/ Jmap!FindOrCreateSnoozedFolder
           \/ \E m \in Messages : \/ Jmap!MoveToTrash(m) \/ Jmap!PermanentlyDelete(m)
                                  \/ Jmap!Snooze(m)
                                  \/ \E to \in {"inbox", "other"} : Jmap!MoveToFolder(m, to)
           \/ \E ms \in SUBSET Messages : \/ Jmap!MarkRead(ms) \/ Jmap!MarkUnread(ms)
                                          \/ Jmap!BulkMoveToTrash(ms)
                                          \/ Jmap!BulkPermanentlyDelete(ms)
                                          \/ Jmap!BulkMoveToFolder(ms, "other")
    PROVE  JmapInv' /\ (JmapBox!Next \/ UNCHANGED JmapBox!vars)
  <1>1. "" \in JmapTargets /\ \A f \in JmapFolders : f \in JmapTargets
    BY Zenon DEF JmapTargets
  <1>2. {"inbox", "other", "deleteditems", "snoozed"} \subseteq JmapFolders
    BY DEF JmapFolders, Jmap!Mailboxes, Jmap!System
  <1>3. named \subseteq Messages /\ free \subseteq Messages
    BY DEF JmapInv, JmapTypes
  <1> DEFINE Silent == UNCHANGED <<Jmap!Held, Jmap!InSent>>
  <1>4. ASSUME NEW ms \in SUBSET Messages, NEW todo \in JmapHarmless, NEW to \in JmapTargets,
               Jmap!Start(todo, ms, to), Jmap!Keep
        PROVE  JmapInv' /\ UNCHANGED JmapBox!vars
    <2>1. todo \notin JmapDestroying \cup JmapMoving /\ todo \notin JmapFreeing \cup {<<"set">>}
      BY <1>4, JmapPurposes DEF JmapMoving
    <2>2. UNCHANGED <<named, free>>
      BY <1>4 DEF Jmap!Keep
    <2>3. JmapInv' /\ Silent
      BY <1>3, <1>4, <2>1, <2>2, JmapBegun
    <2> QED BY <2>2, <2>3 DEF JmapBox!vars
  <1>5. ASSUME NEW ms \in SUBSET Messages, NEW todo \in Replacing, NEW to \in JmapFolders,
               Jmap!Start(todo, ms, to), Jmap!Keep
        PROVE  JmapInv' /\ UNCHANGED JmapBox!vars
    <2>1. todo \in JmapMoving /\ todo \notin JmapDestroying
            /\ todo \notin JmapFreeing \cup {<<"set">>}
      BY <1>5, JmapPurposes DEF JmapMoving
    <2>2. UNCHANGED <<named, free>>
      BY <1>5 DEF Jmap!Keep
    <2>3. JmapInv' /\ Silent
      BY <1>1, <1>3, <1>5, <2>1, <2>2, JmapBegun
    <2> QED BY <2>2, <2>3 DEF JmapBox!vars
  <1>6. ASSUME NEW ms \in SUBSET Messages, NEW todo \in JmapDestroying, NEW to \in JmapTargets,
               Jmap!Start(todo, ms, to), named' = named \cup ms, free' = free
        PROVE  JmapInv' /\ JmapBox!Next
    <2>1. todo \notin JmapMoving /\ todo \notin JmapFreeing \cup {<<"set">>}
      BY <1>6, JmapPurposes DEF JmapMoving
    <2>2. JmapInv' /\ Silent
      BY <1>3, <1>6, <2>1, JmapBegun
    <2>3. JmapBox!Name(ms)
      BY <1>6, <2>2 DEF JmapBox!Name
    <2> QED BY <2>2, <2>3 DEF JmapBox!Next
  <1>7. ASSUME NEW ms \in SUBSET Messages, Jmap!BulkMoveToTrash(ms)
        PROVE  JmapInv' /\ JmapBox!Next
    <2> DEFINE todo == <<"folders", "threads", "set">>
    <2>1. Jmap!Start(todo, ms, "deleteditems") /\ free' = free \cup ms /\ named' = named
      BY <1>7 DEF Jmap!BulkMoveToTrash
    <2>2. todo \in JmapFreeing
      BY DEF JmapFreeing
    <2> HIDE DEF todo
    <2>3. todo \in JmapMoving /\ todo \notin JmapDestroying /\ todo # <<"set">>
      BY <2>2, JmapPurposes DEF JmapMoving
    <2>4. JmapInv' /\ Silent
      BY <1>1, <1>2, <1>3, <2>1, <2>2, <2>3, JmapBegun
    <2>5. JmapBox!Release(ms)
      BY <2>1, <2>4 DEF JmapBox!Release
    <2> QED BY <2>4, <2>5 DEF JmapBox!Next
  <1>8. CASE Jmap!FindOrCreateSnoozedFolder
    <2>1. <<"folders", "create">> \in JmapHarmless
      BY DEF JmapHarmless
    <2> QED BY <1>1, <1>2, <1>4, <1>8, <2>1 DEF Jmap!FindOrCreateSnoozedFolder
  <1>9. ASSUME NEW ms \in SUBSET Messages, Jmap!MarkRead(ms) \/ Jmap!MarkUnread(ms)
        PROVE  JmapInv' /\ UNCHANGED JmapBox!vars
    <2>1. \E to \in JmapTargets, todo \in {<<"read">>, <<"unread">>} :
            Jmap!Start(todo, ms, to) /\ Jmap!Keep
      BY <1>1, <1>9, Zenon DEF Jmap!MarkRead, Jmap!MarkUnread
    <2> QED BY <1>4, <2>1 DEF JmapHarmless
  <1>10. ASSUME NEW m \in Messages, Jmap!Snooze(m) PROVE JmapInv' /\ UNCHANGED JmapBox!vars
    <2>1. <<"folders", "create", "get", "snooze">> \in JmapHarmless /\ {m} \in SUBSET Messages
      BY DEF JmapHarmless, Snoozing
    <2> QED BY <1>1, <1>2, <1>4, <1>10, <2>1 DEF Jmap!Snooze
  <1>11. ASSUME NEW m \in Messages, NEW to \in {"inbox", "other", "deleteditems"},
                Jmap!MoveToTrash(m) \/ Jmap!MoveToFolder(m, to)
         PROVE  JmapInv' /\ UNCHANGED JmapBox!vars
    <2>1. <<"folders", "get", "set">> \in Replacing /\ {m} \in SUBSET Messages
      BY DEF Replacing
    <2>2. \E f \in JmapFolders : Jmap!Start(<<"folders", "get", "set">>, {m}, f) /\ Jmap!Keep
      BY <1>2, <1>11 DEF Jmap!MoveToTrash, Jmap!MoveToFolder
    <2> QED BY <1>5, <2>1, <2>2
  <1>12. ASSUME NEW ms \in SUBSET Messages, Jmap!BulkMoveToFolder(ms, "other")
         PROVE  JmapInv' /\ UNCHANGED JmapBox!vars
    <2>1. <<"threads", "folders", "get", "set">> \in Replacing
      BY DEF Replacing
    <2> QED BY <1>2, <1>5, <1>12, <2>1 DEF Jmap!BulkMoveToFolder
  <1>13. ASSUME NEW m \in Messages, Jmap!PermanentlyDelete(m) PROVE JmapInv' /\ JmapBox!Next
    <2>1. /\ \E to \in JmapTargets : Jmap!Start(<<"destroy">>, {m}, to)
          /\ named' = named \cup {m} /\ free' = free
      BY <1>1, <1>13, Zenon DEF Jmap!PermanentlyDelete
    <2>2. <<"destroy">> \in JmapDestroying /\ {m} \in SUBSET Messages
      BY DEF JmapDestroying
    <2> QED BY <1>6, <2>1, <2>2
  <1>14. ASSUME NEW ms \in SUBSET Messages, Jmap!BulkPermanentlyDelete(ms)
         PROVE  JmapInv' /\ JmapBox!Next
    <2>1. /\ \E to \in JmapTargets : Jmap!Start(<<"threads", "destroy">>, ms, to)
          /\ named' = named \cup ms /\ free' = free
      BY <1>1, <1>14, Zenon DEF Jmap!BulkPermanentlyDelete
    <2>2. <<"threads", "destroy">> \in JmapDestroying
      BY DEF JmapDestroying
    <2> QED BY <1>6, <2>1, <2>2
  <1> QED BY <1>7, <1>8, <1>9, <1>10, <1>11, <1>12, <1>13, <1>14

LEMMA JmapKeeps ==
    ASSUME JmapInv, [Jmap!Next]_(Jmap!vars)
    PROVE  JmapInv' /\ [JmapBox!Next]_(JmapBox!vars)
  <1>1. ASSUME NEW c \in ops,
               \/ Jmap!ThreadEmails(c) \/ Jmap!GetMailboxes(c) \/ Jmap!SetMailboxes(c)
               \/ Jmap!Destroy(c) \/ Jmap!SetSnoozed(c)
        PROVE  JmapInv' /\ (JmapBox!Next \/ UNCHANGED JmapBox!vars)
    BY <1>1, ThreadsKeep, GetKeeps, SetKeeps, DestroyKeeps, SnoozeKeeps DEF JmapBox!Next
  <1>2. ASSUME NEW m \in Messages, Jmap!Wake(m) PROVE JmapInv' /\ UNCHANGED JmapBox!vars
    <2>1. /\ place' = [place EXCEPT ![m] = (@ \ {"snoozed"}) \cup {"inbox"}]
          /\ "snoozed" \in place[m] /\ UNCHANGED <<number, named, free, ops>>
      BY <1>2 DEF Jmap!Wake, Jmap!Own
    <2>2. place \in [Messages -> SUBSET Jmap!Mailboxes] /\ "inbox" \in Jmap!Mailboxes
      BY DEF JmapInv, JmapTypes, Jmap!Mailboxes, Jmap!System
    <2>3. JmapTypes'
      BY <2>1, <2>2 DEF JmapInv, JmapTypes
    <2>4. \A i \in Messages : /\ place[i] = {} <=> place'[i] = {}
                              /\ "sentitems" \in place[i] <=> "sentitems" \in place'[i]
      BY <2>1, <2>2
    <2>5. JmapOnward
      BY <2>1, <2>4 DEF JmapOnward
    <2>6. JmapInv'
      BY <2>1, <2>3, <2>5, JmapRightsKept
    <2> QED BY <2>1, <2>4, <2>6 DEF JmapBox!vars, Jmap!Held, Jmap!InSent
  <1>3. CASE Jmap!OtherClient \/ Jmap!Restart \/ UNCHANGED Jmap!vars
    <2>1. UNCHANGED <<place, number, named, free>> /\ ops' \subseteq ops
      BY <1>3 DEF Jmap!OtherClient, Jmap!Restart, Jmap!Own, Jmap!vars, Jmap!server
    <2> QED BY <2>1, JmapQuiet
  <1> QED BY <1>1, <1>2, <1>3, JmapOthersKeep, JmapGesturesKeep DEF Jmap!Next


----------------------------------------------------------------------------
(* ImapMail: the same for one call at a time and the number of a message in  *)
(* the folder.  What is flagged was named by a deletion or has its copy, so *)
(* that EXPUNGE, which takes everything flagged, loses nothing.             *)
ImapRemaining == {<<"copy", "store", "expunge">>, <<"store", "expunge">>, <<"store">>,
                  <<"expunge">>}
ImapCall == [n : Nat, kind : Imap!Kinds, nums : SUBSET Nat, todo : ImapRemaining,
             view : Seq(ImapMessages)]

(* The session sees the folder as it is, but for what arrived since, until   *)
(* it expunges; a move has its copies when it flags.                        *)
ImapSound(c) ==
  /\ c \in ImapCall
  /\ c.todo # <<"expunge">> =>
       \A i \in DOMAIN c.view : i \in DOMAIN inbox /\ inbox[i] = c.view[i]
  /\ c.kind \in Imap!Moves /\ c.todo = <<"store", "expunge">> =>
       \A i \in c.nums : i \in DOMAIN c.view /\ copies[c.view[i]] > 0
  /\ c.todo = <<"store">> <=> c.kind \in {"read", "unread"}
  /\ c.todo = <<"copy", "store", "expunge">> => c.kind \in Imap!Moves

ImapTypes == /\ inbox \in Seq(ImapMessages) /\ listed \in Seq(ImapMessages)
             /\ copies \in [ImapMessages -> Nat] /\ number \in Nat
             /\ deleted \subseteq ImapMessages /\ named \subseteq ImapMessages
Justified == \A m \in deleted : m \in named \/ copies[m] > 0
ImapInv == /\ ImapTypes /\ Justified
           /\ \A c \in ops : ImapSound(c)
           /\ \A c, d \in ops : c = d

ImapBox == INSTANCE MailboxContract WITH
             Messages <- ImapMessages, held <- Imap!Held, sent <- {}, doomed <- named

(* The Cardinality that ImapMail names is that of FiniteSets.               *)
LEMMA SameCardinality == \A S : Imap!Cardinality(S) = Cardinality(S)
  BY DEF Imap!Cardinality, Cardinality

LEMMA ImapStarts ==
    ASSUME IsFiniteSet(ImapMessages), Imap!Init, free = {}
    PROVE  ImapInv /\ ImapBox!Init
  <1>1. PICK s \in SUBSET ImapMessages : inbox \in Imap!SetToSeqs(s)
    BY DEF Imap!Init, Imap!SetToAllKPermutations
  <1>2. IsFiniteSet(s) /\ Cardinality(s) \in Nat
    BY FS_Subset, FS_CardinalityType
  <1>3. inbox \in [1..Cardinality(s) -> s]
    BY <1>1, SameCardinality, Zenon DEF Imap!SetToSeqs
  <1>4. inbox \in Seq(ImapMessages)
    BY <1>2, <1>3
  <1>5. ImapInv
    BY <1>4 DEF Imap!Init, ImapInv, ImapTypes, Justified
  <1> QED BY <1>5 DEF Imap!Init, ImapBox!Init, Imap!Held

LEMMA ImapRequests ==
    ASSUME NEW c \in ImapCall
    PROVE  /\ Imap!Is(c, "copy") => /\ c.todo = <<"copy", "store", "expunge">>
                                    /\ Len(c.todo) # 1
                                    /\ Tail(c.todo) = <<"store", "expunge">>
           /\ Imap!Is(c, "store") => \/ c.todo = <<"store">> /\ Len(c.todo) = 1
                                     \/ /\ c.todo = <<"store", "expunge">> /\ Len(c.todo) # 1
                                        /\ Tail(c.todo) = <<"expunge">>
           /\ Imap!Is(c, "expunge") => c.todo = <<"expunge">> /\ Len(c.todo) = 1
  <1>1. c.todo \in ImapRemaining
    BY DEF ImapCall
  <1>2. /\ Head(<<"store">>) = "store" /\ Len(<<"store">>) = 1
        /\ Head(<<"expunge">>) = "expunge" /\ Len(<<"expunge">>) = 1
    OBVIOUS
  <1>3. /\ Head(<<"store", "expunge">>) = "store" /\ Len(<<"store", "expunge">>) # 1
        /\ Tail(<<"store", "expunge">>) = <<"expunge">>
    OBVIOUS
  <1>4. /\ Head(<<"copy", "store", "expunge">>) = "copy"
        /\ Len(<<"copy", "store", "expunge">>) # 1
        /\ Tail(<<"copy", "store", "expunge">>) = <<"store", "expunge">>
    OBVIOUS
  <1>5. ASSUME NEW command, Imap!Is(c, command) PROVE Head(c.todo) = command
    BY <1>5 DEF Imap!Is
  <1>6. \/ c.todo = <<"store">> \/ c.todo = <<"expunge">> \/ c.todo = <<"store", "expunge">>
        \/ c.todo = <<"copy", "store", "expunge">>
    BY <1>1 DEF ImapRemaining
  <1>7. Imap!Is(c, "copy") => c.todo = <<"copy", "store", "expunge">>
    BY <1>2, <1>3, <1>5, <1>6
  <1>8. Imap!Is(c, "store") => c.todo = <<"store">> \/ c.todo = <<"store", "expunge">>
    BY <1>2, <1>4, <1>5, <1>6
  <1>9. Imap!Is(c, "expunge") => c.todo = <<"expunge">>
    BY <1>2, <1>3, <1>4, <1>5, <1>6
  <1>10. /\ Imap!Is(c, "copy") => Len(c.todo) # 1 /\ Tail(c.todo) = <<"store", "expunge">>
         /\ Imap!Is(c, "expunge") => Len(c.todo) = 1
    BY <1>2, <1>4, <1>7, <1>9, Zenon
  <1> QED BY <1>2, <1>3, <1>7, <1>8, <1>9, <1>10, Zenon

(* The one call goes on as it was, with fewer commands before it.           *)
LEMMA ImapGoesOn ==
    ASSUME ImapInv, NEW c \in ops, ops' = Imap!Done(c)
    PROVE  /\ \A d, e \in ops' : d = e
           /\ \A d \in ops' : /\ Len(c.todo) # 1 /\ d.todo = Tail(c.todo) /\ d.n = c.n
                              /\ d.kind = c.kind /\ d.nums = c.nums /\ d.view = c.view
                              /\ Tail(c.todo) \in ImapRemaining => d \in ImapCall
  <1>1. c \in ImapCall /\ ops = {c}
    BY DEF ImapInv, ImapSound
  <1> DEFINE t == Tail(c.todo)
  <1>2. \A d \in ops' : d = [c EXCEPT !.todo = t] /\ Len(c.todo) # 1
    BY <1>1 DEF Imap!Done
  <1> HIDE DEF t
  <1>3. ASSUME NEW d \in ops'
        PROVE  /\ d.todo = t /\ d.n = c.n /\ d.kind = c.kind /\ d.nums = c.nums
               /\ d.view = c.view
               /\ t \in ImapRemaining => d \in ImapCall
    BY <1>1, <1>2, <1>3 DEF ImapCall
  <1> QED BY <1>2, <1>3 DEF t

(* What a step of the call does to the mailbox, and that it is still sound.   *)
LEMMA ImapQuiet ==
    ASSUME ImapInv, ImapTypes', UNCHANGED <<inbox, copies, deleted, named, free, ops>>
    PROVE  ImapInv' /\ UNCHANGED ImapBox!vars
  BY DEF ImapInv, Justified, ImapSound, ImapBox!vars, Imap!Held, Imap!ToSet

LEMMA RequestKeeps ==
    ASSUME ImapInv, NEW k \in Imap!Kinds, NEW nums, Imap!Request(k, nums), free' = free
    PROVE  ImapInv' /\ UNCHANGED ImapBox!vars
  <1>0. PICK c : c = [n |-> number + 1, kind |-> k, nums |-> nums, todo |-> Imap!Commands(k),
                      view |-> inbox]
    OBVIOUS
  <1>1. ops' = ops \cup {c} /\ number' = number + 1 /\ nums \subseteq DOMAIN listed
        /\ UNCHANGED <<inbox, copies, deleted, listed, named>>
    BY <1>0 DEF Imap!Request
  <1>2. ops = {}
    <2>1. IsFiniteSet(ops)
      <3>1. CASE \E d \in ops : ops = {d}
        BY <3>1, FS_Singleton
      <3>2. CASE ops = {}
        BY <3>2, FS_EmptySet
      <3> QED BY <3>1, <3>2 DEF ImapInv
    <2>2. Cardinality(ops) < 1 /\ Cardinality(ops) \in Nat
      BY <2>1, FS_CardinalityType, SameCardinality DEF Imap!Request
    <2> QED BY <2>1, <2>2, FS_EmptySet
  <1>3. Imap!Commands(k) = IF k \in Imap!Moves THEN <<"copy", "store", "expunge">>
                           ELSE IF k = "delete" THEN <<"store", "expunge">> ELSE <<"store">>
    BY DEF Imap!Commands
  <1>4. Imap!Commands(k) \in ImapRemaining
    BY <1>3 DEF ImapRemaining
  <1>5. number + 1 \in Nat /\ nums \subseteq Nat /\ inbox \in Seq(ImapMessages)
    BY <1>1 DEF ImapInv, ImapTypes
  <1>6. c \in ImapCall
    BY <1>0, <1>4, <1>5 DEF ImapCall
  <1>7. <<"store">> # <<"store", "expunge">> /\ <<"store">> # <<"copy", "store", "expunge">>
        /\ <<"store", "expunge">> # <<"copy", "store", "expunge">>
    OBVIOUS
  <1>8. ImapSound(c)'
    BY <1>0, <1>1, <1>3, <1>6, <1>7 DEF ImapSound, Imap!Kinds, Imap!Moves
  <1>9. ImapTypes' /\ Justified'
    BY <1>1, <1>5 DEF ImapInv, ImapTypes, Justified
  <1>10. ImapInv'
    BY <1>1, <1>2, <1>8, <1>9 DEF ImapInv
  <1> QED BY <1>1, <1>10 DEF ImapBox!vars, Imap!Held, Imap!ToSet

LEMMA CopyKeeps ==
    ASSUME ImapInv, NEW c \in ops, Imap!Copy(c), free' = free
    PROVE  ImapInv' /\ UNCHANGED ImapBox!vars
  <1>1. ImapSound(c) /\ c \in ImapCall /\ c.todo = <<"copy", "store", "expunge">>
        /\ Tail(c.todo) = <<"store", "expunge">>
    BY ImapRequests DEF ImapInv, ImapSound, Imap!Copy
  <1>2. /\ c.nums \subseteq DOMAIN c.view /\ ops' = Imap!Done(c)
        /\ copies' = [m \in ImapMessages |->
                        IF m \in Imap!Target(c) THEN copies[m] + 1 ELSE copies[m]]
        /\ UNCHANGED <<inbox, deleted, listed, number, named>>
    BY DEF Imap!Copy
  <1>3. ImapTypes' /\ \A m \in ImapMessages : copies[m] > 0 => copies'[m] > 0
    BY <1>2 DEF ImapInv, ImapTypes
  <1>4. c.view \in Seq(ImapMessages) /\ c.kind \in Imap!Moves
    BY <1>1 DEF ImapSound, ImapCall
  <1>5. \A i \in c.nums : c.view[i] \in ImapMessages /\ c.view[i] \in Imap!Target(c)
    BY <1>2, <1>4 DEF Imap!Target
  <1>6. \A i \in c.nums : copies'[c.view[i]] > 0
    BY <1>2, <1>5 DEF ImapInv, ImapTypes
  <1>7. <<"store">> # <<"store", "expunge">>
          /\ <<"copy", "store", "expunge">> # <<"store", "expunge">>
        /\ <<"store", "expunge">> \in ImapRemaining
    BY DEF ImapRemaining
  <1>8. ASSUME NEW d \in ops' PROVE ImapSound(d)'
    <2>1. /\ d.todo = <<"store", "expunge">> /\ d \in ImapCall
          /\ d.kind = c.kind /\ d.nums = c.nums /\ d.view = c.view
      BY <1>1, <1>2, <1>7, ImapGoesOn
    <2> QED BY <1>1, <1>2, <1>4, <1>6, <1>7, <2>1 DEF ImapSound, Imap!Moves
  <1>9. Justified'
    BY <1>2, <1>3 DEF ImapInv, Justified, ImapTypes
  <1>10. ImapInv'
    BY <1>2, <1>3, <1>8, <1>9, ImapGoesOn DEF ImapInv
  <1>11. Imap!Held' = Imap!Held
    <2>1. \A i \in DOMAIN c.view : i \in DOMAIN inbox /\ inbox[i] = c.view[i]
      BY <1>1, <1>7 DEF ImapSound
    <2>2. Imap!Target(c) \subseteq Imap!ToSet(inbox)
      BY <2>1 DEF Imap!Target, Imap!ToSet
    <2>3. \A m \in ImapMessages : copies'[m] = copies[m] \/ m \in Imap!ToSet(inbox)
      BY <1>2, <2>2
    <2> QED BY <1>2, <1>3, <2>3 DEF Imap!Held
  <1> QED BY <1>2, <1>10, <1>11 DEF ImapBox!vars

LEMMA StoreKeeps ==
    ASSUME ImapInv, NEW c \in ops, Imap!Store(c), free' = free
    PROVE  ImapInv' /\ ImapBox!Next
  <1>1. ImapSound(c) /\ c \in ImapCall
        /\ \/ c.todo = <<"store">> /\ Len(c.todo) = 1
           \/ c.todo = <<"store", "expunge">> /\ Tail(c.todo) = <<"expunge">>
    BY ImapRequests DEF ImapInv, ImapSound, Imap!Store
  <1>2. PICK hit \in SUBSET (Imap!Target(c) \cap Imap!ToSet(inbox)) :
          /\ deleted' = IF c.kind \in Imap!Moves \cup {"delete"}
                        THEN deleted \cup hit ELSE deleted
          /\ named' = IF c.kind = "delete" THEN named \cup hit ELSE named
    BY DEF Imap!Store
  <1>3. ops' = Imap!Done(c) /\ UNCHANGED <<inbox, copies, listed, number>>
    BY DEF Imap!Store
  <1>4. hit \subseteq ImapMessages
    BY <1>2 DEF ImapInv, ImapTypes, Imap!ToSet
  <1>5. ImapTypes'
    BY <1>2, <1>3, <1>4 DEF ImapInv, ImapTypes
  <1>6. c.kind \in Imap!Moves => \A m \in hit : copies[m] > 0
    <2>1. SUFFICES ASSUME c.kind \in Imap!Moves PROVE \A m \in hit : copies[m] > 0
      OBVIOUS
    <2>2. c.todo = <<"store", "expunge">>
      BY <1>1, <2>1 DEF ImapSound, Imap!Moves
    <2>3. \A i \in c.nums : copies[c.view[i]] > 0
      BY <1>1, <2>1, <2>2 DEF ImapSound
    <2> QED BY <1>2, <2>3 DEF Imap!Target
  <1>7. Justified'
    BY <1>2, <1>3, <1>6 DEF ImapInv, Justified
  <1>8. <<"expunge">> # <<"store", "expunge">> /\ <<"expunge">> # <<"store">>
        /\ <<"expunge">> # <<"copy", "store", "expunge">>
        /\ <<"store", "expunge">> # <<"store">>
        /\ <<"expunge">> \in ImapRemaining
    BY DEF ImapRemaining
  <1>9. ASSUME NEW d \in ops' PROVE ImapSound(d)'
    <2>1. Len(c.todo) # 1 /\ c.todo = <<"store", "expunge">> /\ Tail(c.todo) = <<"expunge">>
      BY <1>1, <1>3, ImapGoesOn
    <2>2. d.todo = <<"expunge">> /\ d \in ImapCall /\ d.kind = c.kind
      BY <1>3, <1>8, <2>1, ImapGoesOn
    <2> QED BY <1>1, <1>8, <2>1, <2>2 DEF ImapSound
  <1>10. ImapInv'
    BY <1>3, <1>5, <1>7, <1>9, ImapGoesOn DEF ImapInv
  <1>11. ImapBox!Name(IF c.kind = "delete" THEN hit ELSE {})
    BY <1>2, <1>3 DEF ImapBox!Name, Imap!Held
  <1> QED BY <1>4, <1>10, <1>11 DEF ImapBox!Next

LEMMA ExpungeKeeps ==
    ASSUME ImapInv, NEW c \in ops, Imap!Expunge(c), free' = free
    PROVE  ImapInv' /\ (ImapBox!Next \/ UNCHANGED ImapBox!vars)
  <1>1. c \in ImapCall /\ Len(c.todo) = 1
    BY ImapRequests DEF ImapInv, ImapSound, Imap!Expunge
  <1>2. ops' = {} /\ UNCHANGED <<copies, listed, number, named>>
    <2>1. ops' = Imap!Done(c) /\ UNCHANGED <<copies, listed, number, named>>
      BY DEF Imap!Expunge
    <2> QED BY <1>1, <2>1, ImapGoesOn
  <1>3. CASE UNCHANGED <<inbox, deleted>>
    <2>1. ImapInv'
      BY <1>2, <1>3 DEF ImapInv, ImapTypes, Justified
    <2> QED BY <1>2, <1>3, <2>1 DEF ImapBox!vars, Imap!Held
  <1>4. CASE ~UNCHANGED <<inbox, deleted>>
    <2> DEFINE rest == {i \in DOMAIN inbox : inbox[i] \notin deleted}
    <2>1. PICK kept \in [1..Imap!Cardinality(rest) -> rest] :
            /\ \A i \in rest : \E k \in DOMAIN kept : kept[k] = i
            /\ inbox' = [k \in DOMAIN kept |-> inbox[kept[k]]] /\ deleted' = {}
      BY <1>4 DEF Imap!Expunge
    <2>2. inbox \in Seq(ImapMessages) /\ IsFiniteSet(DOMAIN inbox)
      BY FS_Interval DEF ImapInv, ImapTypes
    <2>3. Imap!Cardinality(rest) \in Nat
      BY <2>2, FS_Subset, FS_CardinalityType, SameCardinality
    <2>4. inbox' \in Seq(ImapMessages)
      <3>1. inbox' \in [1..Imap!Cardinality(rest) -> ImapMessages]
        BY <2>1, <2>2
      <3> QED BY <2>3, <3>1
    <2>5. Imap!ToSet(inbox)' = Imap!ToSet(inbox) \ deleted
      BY <2>1 DEF Imap!ToSet
    <2>6. ImapInv'
      BY <1>2, <2>1, <2>4 DEF ImapInv, ImapTypes, Justified
    <2>7. Imap!Held' \subseteq Imap!Held /\ Imap!Held \ Imap!Held' \subseteq named
      BY <1>2, <2>5 DEF Imap!Held, ImapInv, Justified
    <2>8. ImapBox!Destroy
      BY <1>2, <2>7 DEF ImapBox!Destroy
    <2> QED BY <2>6, <2>8 DEF ImapBox!Next
  <1> QED BY <1>3, <1>4

LEMMA RenumberKeeps ==
    ASSUME ImapInv, NEW c \in ops, Imap!Renumber(c), free' = free
    PROVE  ImapInv' /\ UNCHANGED ImapBox!vars
  <1>1. ImapSound(c) /\ c \in ImapCall /\ ops = {c} /\ inbox \in Seq(ImapMessages)
    BY DEF ImapInv, ImapSound, ImapTypes
  <1>2. /\ ops' = (ops \ {c}) \cup {[c EXCEPT !.view = inbox]}
        /\ UNCHANGED <<inbox, copies, deleted, listed, number, named>> /\ c.todo # <<"expunge">>
    <2>1. Len(<<"expunge">>) = 1
      OBVIOUS
    <2>2. /\ ops' = (ops \ {c}) \cup {[c EXCEPT !.view = inbox]} /\ Len(c.todo) >= 2
          /\ UNCHANGED <<inbox, copies, deleted, listed, number, named>>
      BY DEF Imap!Renumber
    <2>3. c.todo # <<"expunge">>
      <3>1. SUFFICES ASSUME c.todo = <<"expunge">> PROVE FALSE
        OBVIOUS
      <3>2. Len(c.todo) = 1
        BY <2>1, <3>1, Zenon
      <3> QED BY <2>2, <3>2
    <2> QED BY <2>2, <2>3
  <1>3. PICK d : d = [c EXCEPT !.view = inbox]
    OBVIOUS
  <1>4. d \in ImapCall /\ d.todo = c.todo /\ d.kind = c.kind /\ d.nums = c.nums
          /\ d.view = inbox
    BY <1>1, <1>3 DEF ImapCall
  <1>5. ops' = {d}
    BY <1>1, <1>2, <1>3
  <1>6. \A i \in c.nums : i \in DOMAIN c.view => i \in DOMAIN inbox /\ inbox[i] = c.view[i]
    BY <1>1, <1>2 DEF ImapSound
  <1>7. ImapSound(d)'
    BY <1>1, <1>2, <1>4, <1>6 DEF ImapSound
  <1>8. ImapTypes' /\ Justified'
    BY <1>2 DEF ImapInv, ImapTypes, Justified
  <1>9. ImapInv'
    BY <1>5, <1>7, <1>8 DEF ImapInv
  <1> QED BY <1>2, <1>9 DEF ImapBox!vars, Imap!Held, Imap!ToSet

LEMMA ArriveKeeps ==
    ASSUME ImapInv, NEW m \in ImapMessages, Imap!Arrive(m), free' = free
    PROVE  ImapInv' /\ ImapBox!Next
  <1>1. inbox' = Append(inbox, m) /\ UNCHANGED <<copies, deleted, listed, ops, number, named>>
    BY DEF Imap!Arrive
  <1>2. inbox \in Seq(ImapMessages)
    BY DEF ImapInv, ImapTypes
  <1>3. /\ inbox' \in Seq(ImapMessages) /\ Imap!ToSet(inbox)' = Imap!ToSet(inbox) \cup {m}
        /\ \A i \in DOMAIN inbox : i \in DOMAIN inbox' /\ inbox'[i] = inbox[i]
    BY <1>1, <1>2 DEF Imap!ToSet
  <1>4. ASSUME NEW d \in ops' PROVE ImapSound(d)'
    BY <1>1, <1>3, <1>4 DEF ImapInv, ImapSound
  <1>5. ImapInv'
    BY <1>1, <1>3, <1>4 DEF ImapInv, ImapTypes, Justified
  <1>6. Imap!Held' = Imap!Held \cup {m}
    BY <1>1, <1>3 DEF Imap!Held
  <1> QED BY <1>1, <1>5, <1>6 DEF ImapBox!Arrive, ImapBox!Next

LEMMA ImapKeeps ==
    ASSUME ImapInv, [Imap!Next]_(Imap!vars), free' = free
    PROVE  ImapInv' /\ [ImapBox!Next]_(ImapBox!vars)
  <1>1. CASE Imap!ListThreads \/ UNCHANGED Imap!vars
    <2>1. UNCHANGED <<inbox, copies, deleted, named, ops, number>>
            /\ listed' \in {inbox, listed}
      BY <1>1 DEF Imap!ListThreads, Imap!vars
    <2>2. ImapTypes'
      BY <2>1 DEF ImapInv, ImapTypes
    <2> QED BY <2>1, <2>2, ImapQuiet
  <1>2. ASSUME NEW k \in Imap!Kinds, NEW nums, Imap!Request(k, nums)
        PROVE  ImapInv' /\ UNCHANGED ImapBox!vars
    BY <1>2, RequestKeeps
  <1>3. ASSUME NEW c \in ops, Imap!Copy(c) \/ Imap!Store(c) \/ Imap!Expunge(c)
                 \/ Imap!Renumber(c)
        PROVE  ImapInv' /\ (ImapBox!Next \/ UNCHANGED ImapBox!vars)
    BY <1>3, CopyKeeps, StoreKeeps, ExpungeKeeps, RenumberKeeps
  <1>4. ASSUME NEW c \in ops, Imap!Fails(c) PROVE ImapInv' /\ UNCHANGED ImapBox!vars
    <2>1. UNCHANGED <<inbox, copies, deleted, listed, number, named>> /\ ops' \subseteq ops
      BY <1>4 DEF Imap!Fails
    <2>2. ImapInv'
      BY <2>1 DEF ImapInv, ImapTypes, Justified, ImapSound
    <2> QED BY <2>1, <2>2 DEF ImapBox!vars, Imap!Held, Imap!ToSet
  <1>5. ASSUME NEW m \in ImapMessages, Imap!Arrive(m) PROVE ImapInv' /\ ImapBox!Next
    BY <1>5, ArriveKeeps
  <1>6. CASE \/ \E i \in DOMAIN listed : \/ Imap!MoveToTrash(i) \/ Imap!Archive(i)
                                         \/ Imap!PermanentlyDelete(i)
             \/ \E nums \in SUBSET DOMAIN listed :
                  \/ Imap!BulkMoveToTrash(nums) \/ Imap!BulkPermanentlyDelete(nums)
                  \/ Imap!MarkRead(nums) \/ Imap!MarkUnread(nums)
    <2>1. \E k \in Imap!Kinds : \E nums : Imap!Request(k, nums)
      BY <1>6 DEF Imap!MoveToTrash, Imap!Archive, Imap!PermanentlyDelete, Imap!BulkMoveToTrash,
                  Imap!BulkPermanentlyDelete, Imap!MarkRead, Imap!MarkUnread, Imap!Kinds,
                  Imap!Moves
    <2> QED BY <1>2, <2>1
  <1> QED BY <1>1, <1>3, <1>4, <1>5, <1>6 DEF Imap!Next

----------------------------------------------------------------------------
(* The four clients together, with one contract for all of them.            *)
LEMMA MailboxesStart ==
    ASSUME IsFiniteSet(ImapMessages), MCInit
    PROVE  /\ part = "ews" => EwsInv
           /\ part = "jmap" => JmapInv
           /\ part = "gmail" => KeepInv
           /\ part = "imap" => ImapInv
           /\ Mailbox!Init
  <1>1. CASE part = "ews"
    <2>1. Ews!Init
      BY <1>1 DEF MCInit, Acts
    <2>2. EwsInv /\ EwsBox!Init
      BY <2>1, EwsStarts
    <2>3. Mailbox!Init
      BY <1>1, <2>2 DEF EwsBox!Init, Mailbox!Init
    <2> QED BY <1>1, <2>2, <2>3
  <1>2. CASE part = "jmap"
    <2>1. Jmap!Init
      BY <1>2 DEF MCInit, Acts
    <2>2. JmapInv /\ JmapBox!Init
      BY <2>1, JmapStarts
    <2>3. Mailbox!Init
      BY <1>2, <2>2 DEF JmapBox!Init, Mailbox!Init
    <2> QED BY <1>2, <2>2, <2>3
  <1>3. CASE part = "gmail"
    <2>1. Init /\ free = {}
      BY <1>3 DEF MCInit, Acts, NoCommon
    <2>2. KeepInv /\ Labelled!Init
      BY <2>1, InitKept
    <2>3. Mailbox!Init
      BY <1>3, <2>1, <2>2 DEF Labelled!Init, Mailbox!Init
    <2> QED BY <1>3, <2>2, <2>3
  <1>4. CASE part = "imap"
    <2>1. Imap!Init /\ free = {}
      BY <1>4 DEF MCInit, Acts, NoCommon
    <2>2. ImapInv /\ ImapBox!Init
      BY <2>1, ImapStarts
    <2>3. Mailbox!Init
      BY <1>4, <2>2 DEF ImapBox!Init, Mailbox!Init
    <2> QED BY <1>4, <2>2, <2>3
  <1>5. CASE part \notin {"ews", "jmap", "gmail", "imap"}
    <2>1. named = {} /\ free = {}
      BY <1>5 DEF MCInit, Acts, NoCommon, NoActing, NoServer, NoOps
    <2>2. Mailbox!Init
      BY <1>5, <2>1 DEF Mailbox!Init
    <2> QED BY <1>5, <2>2
  <1> QED BY <1>1, <1>2, <1>3, <1>4, <1>5

LEMMA MailboxParts ==
    ASSUME [MCNext]_<<part, acting, reading>>
    PROVE  /\ part = "ews" => [Ews!Next]_(Ews!vars)
           /\ part = "jmap" => [Jmap!Next]_(Jmap!vars)
           /\ part = "gmail" => [Next]_vars /\ free' = free
           /\ part = "imap" => [Imap!Next]_(Imap!vars) /\ free' = free
           /\ part \notin {"ews", "jmap", "gmail", "imap"} => UNCHANGED <<named, free>>
  <1>1. CASE MCNext
    BY <1>1 DEF MCNext, EwsStep, JmapStep, GmailStep, ImapStep, SendingStep, ThreadsStep,
                PagingStep, ConversationStep, TransferStep, SearchStep, acting, common
  <1>2. CASE UNCHANGED <<part, acting, reading>>
    BY <1>2 DEF acting, common, reading, vars, ewsOnly, imapOnly, Ews!vars, Ews!server,
                Jmap!vars, Jmap!server, Imap!vars
  <1> QED BY <1>1, <1>2

(* A step of the contract of one client is a step of the contract of all.    *)
LEMMA EwsInMailbox ==
    ASSUME part = "ews", part' = part, [EwsBox!Next]_(EwsBox!vars)
    PROVE  [Mailbox!Next]_(Mailbox!vars)
  BY DEF EwsBox!Next, EwsBox!vars, EwsBox!Name, EwsBox!Release, EwsBox!Destroy, EwsBox!Move,
         EwsBox!Arrive, Mailbox!Next, Mailbox!vars, Mailbox!Name, Mailbox!Release,
         Mailbox!Destroy, Mailbox!Move, Mailbox!Arrive

LEMMA JmapInMailbox ==
    ASSUME part = "jmap", part' = part, [JmapBox!Next]_(JmapBox!vars)
    PROVE  [Mailbox!Next]_(Mailbox!vars)
  BY DEF JmapBox!Next, JmapBox!vars, JmapBox!Name, JmapBox!Release, JmapBox!Destroy, JmapBox!Move,
         JmapBox!Arrive, Mailbox!Next, Mailbox!vars, Mailbox!Name, Mailbox!Release,
         Mailbox!Destroy, Mailbox!Move, Mailbox!Arrive

LEMMA GmailInMailbox ==
    ASSUME part = "gmail", part' = part, free' = free, [Labelled!Next]_(Labelled!vars)
    PROVE  [Mailbox!Next]_(Mailbox!vars)
  BY DEF Labelled!Next, Labelled!vars, Labelled!Name, Labelled!Release, Labelled!Destroy, Labelled!Move,
         Labelled!Arrive, Mailbox!Next, Mailbox!vars, Mailbox!Name, Mailbox!Release,
         Mailbox!Destroy, Mailbox!Move, Mailbox!Arrive

LEMMA ImapInMailbox ==
    ASSUME part = "imap", part' = part, [ImapBox!Next]_(ImapBox!vars)
    PROVE  [Mailbox!Next]_(Mailbox!vars)
  BY DEF ImapBox!Next, ImapBox!vars, ImapBox!Name, ImapBox!Release, ImapBox!Destroy, ImapBox!Move,
         ImapBox!Arrive, Mailbox!Next, Mailbox!vars, Mailbox!Name, Mailbox!Release,
         Mailbox!Destroy, Mailbox!Move, Mailbox!Arrive

LEMMA MailboxesStep ==
    ASSUME [MCNext]_<<part, acting, reading>>,
           part = "ews" => EwsInv,
           part = "jmap" => JmapInv,
           part = "gmail" => KeepInv,
           part = "imap" => ImapInv
    PROVE  /\ part' = "ews" => EwsInv'
           /\ part' = "jmap" => JmapInv'
           /\ part' = "gmail" => KeepInv'
           /\ part' = "imap" => ImapInv'
           /\ [Mailbox!Next]_(Mailbox!vars)
  <1>1. part' = part
    BY PartStays
  <1>2. CASE part = "ews"
    BY <1>1, <1>2, MailboxParts, EwsKeeps, EwsInMailbox
  <1>3. CASE part = "jmap"
    BY <1>1, <1>3, MailboxParts, JmapKeeps, JmapInMailbox
  <1>4. CASE part = "gmail"
    BY <1>1, <1>4, MailboxParts, StepIsKept, GmailInMailbox
  <1>5. CASE part = "imap"
    BY <1>1, <1>5, MailboxParts, ImapKeeps, ImapInMailbox
  <1>6. CASE part \notin {"ews", "jmap", "gmail", "imap"}
    <2>1. UNCHANGED <<named, free>>
      BY <1>6, MailboxParts
    <2>2. UNCHANGED Mailbox!vars
      BY <1>1, <1>6, <2>1 DEF Mailbox!vars
    <2> QED BY <1>1, <1>6, <2>2
  <1> QED BY <1>2, <1>3, <1>4, <1>5, <1>6

(* Through every interleaving of operations, refused or half-done requests,  *)
(* restarts, messages that arrive, wake up or are moved by another client,  *)
(* a message leaves a mailbox only by a permanent deletion that named it,   *)
(* and leaves Sent only by an operation that may take it there: whichever   *)
(* of the four clients acts (EwsMail, JmapMail, GmailMail, ImapMail).       *)
THEOREM EveryMailboxKept ==
    ASSUME IsFiniteSet(ImapMessages) PROVE MCSpec => KeepsMailbox
  <1> DEFINE Inv == /\ part = "ews" => EwsInv
                    /\ part = "jmap" => JmapInv
                    /\ part = "gmail" => KeepInv
                    /\ part = "imap" => ImapInv
  <1>1. MCInit => Inv /\ Mailbox!Init
    BY MailboxesStart
  <1>2. Inv /\ [MCNext]_<<part, acting, reading>> => Inv' /\ [Mailbox!Next]_(Mailbox!vars)
    BY MailboxesStep
  <1> HIDE DEF Inv
  <1>3. MCInit => Inv
    BY <1>1
  <1>4. Inv /\ [MCNext]_<<part, acting, reading>> => Inv'
    BY <1>2
  <1>5. MCSpec => []Inv
    BY <1>3, <1>4, PTL DEF MCSpec
  <1> QED BY <1>1, <1>2, <1>5, PTL DEF MCSpec, KeepsMailbox, Mailbox!Spec

----------------------------------------------------------------------------
(* MailPaging: no conversation is missed by scrolling down, for pages of any *)
(* size and folders of any number of conversations, changes and requests.   *)

(* The numbers of a set above one of them, and those at a page's positions. *)
Above(s, c) == {d \in s : d > c}
Rank(s, c) == Cardinality(Above(s, c))
Positions(s, from) == {c \in s : Rank(s, c) \in from .. from + Page - 1}

Less == {ss \in Nat \X Nat : ss[1] < ss[2]}

LEMMA LeastExists ==
    ASSUME NEW is \in SUBSET Nat, is # {}
    PROVE  \E i \in is : \A j \in is : i <= j
  <1>1. IsWellFoundedOn(Less, Nat)
    BY NatLessThanWellFounded DEF OpToRel, Less
  <1>2. PICK i \in is : \A j \in is : ~ (<<j, i>> \in Less)
    BY <1>1, WFMin, Zenon
  <1>3. \A j \in is : i <= j
    <2> TAKE j \in is
    <2>1. i \in Nat /\ j \in Nat /\ ~ (<<j, i>> \in Less)
      BY <1>2
    <2>2. j < i => <<j, i>> \in Nat \X Nat /\ <<j, i>>[1] < <<j, i>>[2]
      BY <2>1
    <2>3. ~ (j < i)
      BY <2>1, <2>2, Zenon DEF Less
    <2> QED BY <2>1, <2>3
  <1> QED BY <1>3

LEMMA RankIsNat ==
    ASSUME NEW s \in SUBSET Nat, IsFiniteSet(s), NEW c
    PROVE  IsFiniteSet(Above(s, c)) /\ Rank(s, c) \in Nat
  BY FS_Subset, FS_CardinalityType DEF Above, Rank

LEMMA AboveIs ==
    ASSUME NEW s \in SUBSET Nat, NEW c
    PROVE  \A x : x \in Above(s, c) <=> x \in s /\ x \in Nat /\ x > c
  BY DEF Above

(* A smaller number has more of them above.                                 *)
LEMMA RankFalls ==
    ASSUME NEW s \in SUBSET Nat, IsFiniteSet(s), NEW c \in Nat, NEW d \in s, c < d
    PROVE  Rank(s, d) < Rank(s, c)
  <1>1. Above(s, d) \cup {d} \subseteq Above(s, c) /\ d \notin Above(s, d)
    BY AboveIs
  <1>2. /\ IsFiniteSet(Above(s, c)) /\ IsFiniteSet(Above(s, d))
        /\ Rank(s, c) \in Nat /\ Rank(s, d) \in Nat
    BY RankIsNat
  <1>3. Cardinality(Above(s, d) \cup {d}) = Rank(s, d) + 1
    BY <1>1, <1>2, FS_AddElement, Zenon DEF Rank
  <1>4. Cardinality(Above(s, d) \cup {d}) <= Rank(s, c)
    BY <1>1, <1>2, FS_Subset, Zenon DEF Rank
  <1> QED BY <1>2, <1>3, <1>4

(* The largest number of a set, and the smallest.                           *)
LEMMA Largest ==
    ASSUME NEW s \in SUBSET Nat, IsFiniteSet(s), NEW t \in SUBSET s, t # {}
    PROVE  \E c \in t : \A d \in t : d <= c
  <1> DEFINE ranks == {Rank(s, c) : c \in t}
  <1>1. ranks \in SUBSET Nat /\ ranks # {}
    BY RankIsNat
  <1>2. PICK r \in ranks : \A q \in ranks : r <= q
    BY <1>1, LeastExists
  <1>3. PICK c \in t : Rank(s, c) = r
    BY <1>2
  <1>4. ASSUME NEW d \in t, c < d PROVE FALSE
    <2>1. Rank(s, d) < Rank(s, c) /\ Rank(s, d) \in Nat /\ Rank(s, c) \in Nat
      BY <1>4, RankFalls, RankIsNat
    <2>2. r <= Rank(s, d)
      BY <1>2
    <2> QED BY <1>3, <2>1, <2>2
  <1> QED BY <1>4

LEMMA PositionsConvex ==
    ASSUME Page \in Nat, NEW s \in SUBSET Nat, IsFiniteSet(s), NEW from \in Nat, NEW c \in s,
           NEW d \in Positions(s, from), NEW e \in Positions(s, from), d < c, c < e
    PROVE  c \in Positions(s, from)
  <1>1. Rank(s, c) < Rank(s, d) /\ Rank(s, e) < Rank(s, c)
    BY RankFalls DEF Positions
  <1>2. Rank(s, c) \in Nat /\ Rank(s, d) \in Nat /\ Rank(s, e) \in Nat
    BY RankIsNat
  <1> QED BY <1>1, <1>2 DEF Positions

(* The first row of a page that has one is at its first position.           *)
LEMMA FirstRow ==
    ASSUME Page \in Nat, NEW s \in SUBSET Nat, IsFiniteSet(s), NEW from \in Nat,
           Positions(s, from) # {}
    PROVE  \E c \in Positions(s, from) : Rank(s, c) = from /\ \A d \in Positions(s, from) : d <= c
  <1>1. PICK c \in Positions(s, from) : \A d \in Positions(s, from) : d <= c
    BY Largest DEF Positions
  <1>2. c \in s /\ Rank(s, c) \in from .. from + Page - 1
    BY DEF Positions
  <1>3. ASSUME Rank(s, c) # from PROVE FALSE
    <2>1. Above(s, c) # {} /\ Above(s, c) \in SUBSET Nat
      <3>1. Rank(s, c) # 0
        BY <1>2, <1>3
      <3> QED BY <3>1, FS_EmptySet DEF Above, Rank
    <2>2. PICK d \in Above(s, c) : \A e \in Above(s, c) : d <= e
      BY <2>1, LeastExists
    <2>3. d \in s /\ d > c
      BY DEF Above
    <2>4. Above(s, c) \ {d} \subseteq Above(s, d)
      BY <2>2, <2>3, AboveIs
    <2>5. IsFiniteSet(Above(s, c)) /\ IsFiniteSet(Above(s, d)) /\ Rank(s, d) \in Nat
          /\ Rank(s, c) \in Nat
      BY RankIsNat, <2>3
    <2>6. Cardinality(Above(s, c) \ {d}) = Rank(s, c) - 1
      BY <2>5, FS_RemoveElement, Zenon DEF Rank
    <2>7. Cardinality(Above(s, c) \ {d}) <= Rank(s, d)
      BY <2>4, <2>5, FS_Subset, Zenon DEF Rank
    <2>8. Rank(s, d) < Rank(s, c)
      BY <1>2, <2>3, RankFalls
    <2>9. d \in Positions(s, from)
      BY <1>2, <1>3, <2>3, <2>5, <2>6, <2>7, <2>8 DEF Positions
    <2> QED BY <1>1, <1>2, <2>3, <2>9
  <1> QED BY <1>1, <1>3

(* A page has no more rows than its size.                                   *)
LEMMA PageIsFull ==
    ASSUME Page \in Nat, NEW s \in SUBSET Nat, IsFiniteSet(s), NEW from \in Nat
    PROVE  /\ IsFiniteSet(Positions(s, from)) /\ Cardinality(Positions(s, from)) \in Nat
           /\ Cardinality(Positions(s, from)) <= Page
  <1>1. IsFiniteSet(Positions(s, from)) /\ Cardinality(Positions(s, from)) \in Nat
    BY FS_Subset, FS_CardinalityType DEF Positions
  <1>2. CASE Positions(s, from) = {}
    BY <1>1, <1>2, FS_EmptySet
  <1>3. CASE Positions(s, from) # {}
    <2>1. PICK l \in Positions(s, from) : \A d \in Positions(s, from) : l <= d
      BY <1>3, LeastExists DEF Positions
    <2>2. PICK t \in Positions(s, from) : Rank(s, t) = from /\ \A d \in Positions(s, from) : d <= t
      BY <1>3, FirstRow
    <2>3. l \in s /\ t \in s /\ Rank(s, l) \in from .. from + Page - 1 /\ l <= t
      BY <2>1, <2>2 DEF Positions
    <2>4. /\ IsFiniteSet(Above(s, l)) /\ IsFiniteSet(Above(s, t))
          /\ Rank(s, l) \in Nat /\ Rank(s, t) \in Nat
      BY RankIsNat
    <2>5. Above(s, t) \subseteq Above(s, l) /\ l \notin Above(s, l)
      BY <2>3, AboveIs
    <2>6. Positions(s, from) \subseteq (Above(s, l) \ Above(s, t)) \cup {l}
      <3>1. \A x \in Positions(s, from) : x \in s /\ x \in Nat /\ l <= x /\ x <= t
        BY <2>1, <2>2 DEF Positions
      <3>2. \A x \in Positions(s, from) : x # l => x \in Above(s, l) /\ x \notin Above(s, t)
        BY <2>3, <3>1, AboveIs
      <3> QED BY <3>2
    <2>7. Above(s, l) \cap Above(s, t) = Above(s, t)
      BY <2>5
    <2>8. /\ IsFiniteSet(Above(s, l) \ Above(s, t))
          /\ Cardinality(Above(s, l) \ Above(s, t)) = Rank(s, l) - Rank(s, t)
      BY <2>4, <2>7, FS_Difference, Zenon DEF Rank
    <2>9. /\ IsFiniteSet((Above(s, l) \ Above(s, t)) \cup {l})
          /\ Cardinality((Above(s, l) \ Above(s, t)) \cup {l}) = Rank(s, l) - Rank(s, t) + 1
      BY <2>5, <2>8, FS_AddElement
    <2>10. Cardinality(Positions(s, from)) <= Rank(s, l) - Rank(s, t) + 1
      BY <2>6, <2>9, FS_Subset, Zenon
    <2> QED BY <1>1, <2>2, <2>3, <2>4, <2>10
  <1> QED BY <1>2, <1>3

(* The folder as it was at each time; conversations come and leave.          *)
Time == [arrived : Nat, gone : Nat]
Before(s, t) == s.arrived <= t.arrived /\ s.gone <= t.gone
History(h) ==
  /\ DOMAIN h \in SUBSET Time
  /\ \A t \in DOMAIN h : h[t] \in SUBSET (1..First + t.arrived)
  /\ \A s, t \in DOMAIN h : Before(s, t) \/ Before(t, s)
  /\ \A s, t \in DOMAIN h : Before(s, t) =>
       /\ \A c \in h[t] : c <= First + s.arrived => c \in h[s]
       /\ Cardinality(h[s] \ h[t]) <= t.gone - s.gone

LEMMA FolderIsFinite ==
    ASSUME First \in Nat, NEW h, History(h), NEW t \in DOMAIN h
    PROVE  /\ h[t] \in SUBSET Nat /\ IsFiniteSet(h[t]) /\ t.arrived \in Nat /\ t.gone \in Nat
           /\ \A c \in h[t] : c \in Nat \ {0} /\ c <= First + t.arrived
  <1>1. t \in Time /\ h[t] \in SUBSET (1..First + t.arrived)
    BY DEF History
  <1>2. t.arrived \in Nat /\ t.gone \in Nat
    BY <1>1 DEF Time
  <1>3. IsFiniteSet(1..First + t.arrived)
    <2>1. 1 \in Int /\ First + t.arrived \in Int
      BY <1>2
    <2> QED BY <2>1, FS_Interval, Zenon
  <1>4. IsFiniteSet(h[t])
    BY <1>1, <1>3, FS_Subset
  <1> QED BY <1>1, <1>2, <1>4

LEMMA AtMostBoth ==
    ASSUME NEW s, NEW t, NEW u, IsFiniteSet(t), IsFiniteSet(u), s \subseteq t \cup u
    PROVE  /\ Cardinality(s) <= Cardinality(t) + Cardinality(u)
           /\ Cardinality(s) \in Nat /\ Cardinality(t) \in Nat /\ Cardinality(u) \in Nat
  <1>1. /\ IsFiniteSet(t \cup u)
        /\ Cardinality(t \cup u) = Cardinality(t) + Cardinality(u) - Cardinality(t \cap u)
    BY FS_Union
  <1>2. IsFiniteSet(t \cap u) /\ IsFiniteSet(s) /\ Cardinality(s) <= Cardinality(t \cup u)
    BY <1>1, FS_Subset, FS_Intersection
  <1>3. /\ Cardinality(s) \in Nat /\ Cardinality(t) \in Nat /\ Cardinality(u) \in Nat
        /\ Cardinality(t \cap u) \in Nat
    BY <1>2, FS_CardinalityType
  <1> QED BY <1>1, <1>2, <1>3

(* What comes pushes a conversation down, what leaves lets it rise.          *)
LEMMA RankMoves ==
    ASSUME First \in Nat, NEW h, History(h), NEW s \in DOMAIN h, NEW t \in DOMAIN h, Before(s, t),
           NEW c \in Nat
    PROVE  /\ Rank(h[t], c) <= Rank(h[s], c) + (t.arrived - s.arrived)
           /\ Rank(h[s], c) <= Rank(h[t], c) + (t.gone - s.gone)
           /\ Rank(h[t], c) \in Nat /\ Rank(h[s], c) \in Nat
  <1>1. /\ h[s] \in SUBSET Nat /\ IsFiniteSet(h[s]) /\ s.arrived \in Nat /\ s.gone \in Nat
        /\ h[t] \in SUBSET Nat /\ IsFiniteSet(h[t]) /\ t.arrived \in Nat /\ t.gone \in Nat
        /\ \A d \in h[t] : d \in Nat /\ d <= First + t.arrived
        /\ s.arrived <= t.arrived
    BY FolderIsFinite DEF Before
  <1>2. /\ \A d \in h[t] : d <= First + s.arrived => d \in h[s]
        /\ Cardinality(h[s] \ h[t]) <= t.gone - s.gone
    BY DEF History
  <1>3. /\ IsFiniteSet(Above(h[s], c)) /\ IsFiniteSet(Above(h[t], c))
        /\ Rank(h[t], c) \in Nat /\ Rank(h[s], c) \in Nat
    BY <1>1, RankIsNat
  <1>4. Rank(h[t], c) <= Rank(h[s], c) + (t.arrived - s.arrived)
    <2> DEFINE new == First + s.arrived + 1 .. First + t.arrived
    <2>1. Above(h[t], c) \subseteq Above(h[s], c) \cup new
      <3>1. \A d \in Above(h[t], c) : d \in h[t] /\ d \in Nat /\ d > c
        BY <1>1, AboveIs
      <3>2. \A d \in Above(h[t], c) : d \in Above(h[s], c) \/ d \in new
        BY <1>1, <1>2, <3>1, AboveIs
      <3> QED BY <3>2
    <2>2. IsFiniteSet(new) /\ Cardinality(new) = t.arrived - s.arrived
      <3> DEFINE m == First + s.arrived + 1  n == First + t.arrived
      <3>1. m \in Int /\ n \in Int /\ n - m + 1 = t.arrived - s.arrived /\ (m > n => n - m + 1 = 0)
        BY <1>1
      <3> HIDE DEF m, n
      <3>2. IsFiniteSet(m..n) /\ Cardinality(m..n) = IF m > n THEN 0 ELSE n - m + 1
        BY <3>1, FS_Interval
      <3> QED BY <3>1, <3>2 DEF m, n
    <2> HIDE DEF new
    <2> QED BY <1>3, <2>1, <2>2, AtMostBoth DEF Rank
  <1>5. Rank(h[s], c) <= Rank(h[t], c) + (t.gone - s.gone)
    <2>1. Above(h[s], c) \subseteq Above(h[t], c) \cup (h[s] \ h[t])
      BY DEF Above
    <2>2. IsFiniteSet(h[s] \ h[t]) /\ Cardinality(h[s] \ h[t]) \in Nat
      BY <1>1, FS_Difference, FS_CardinalityType
    <2>3. Cardinality(Above(h[s], c))
            <= Cardinality(Above(h[t], c)) + Cardinality(h[s] \ h[t])
      BY <1>3, <2>1, <2>2, AtMostBoth, Zenon
    <2> QED BY <1>1, <1>2, <1>3, <2>2, <2>3 DEF Rank
  <1> QED BY <1>3, <1>4, <1>5

(* Between two rows of a set every conversation of the folder is in it.      *)
Whole(s, f) == \A c \in f, d \in s, e \in s : d < c /\ c < e => c \in s

(* A page given at time p continues the rows s, of which those of the page   *)
(* at boff given at time b are the last added.                              *)
LEMMA PageContinues ==
    ASSUME Page \in Nat, First \in Nat, NEW h, History(h),
           NEW b \in DOMAIN h, NEW p \in DOMAIN h, NEW now \in DOMAIN h,
           Before(b, now), Before(p, now),
           NEW boff \in Nat, NEW off \in Nat, boff <= off, off <= boff + Page,
           NEW s \in SUBSET Nat, Whole(s, h[now]), \A d \in s : d <= First + b.arrived,
           s # {} => Positions(h[b], boff) # {} /\ Positions(h[b], boff) \subseteq s,
           p.arrived - b.arrived \in 0 .. off + Page - boff,
           p.gone - b.gone \in -(off + Page - boff) .. (IF off = boff THEN Page ELSE 0)
    PROVE  Whole(s \cup Positions(h[p], off), h[now])
  <1> DEFINE r == Positions(h[p], off)
  <1>1. /\ h[b] \in SUBSET Nat /\ IsFiniteSet(h[b]) /\ b.arrived \in Nat /\ b.gone \in Nat
        /\ h[p] \in SUBSET Nat /\ IsFiniteSet(h[p]) /\ p.arrived \in Nat /\ p.gone \in Nat
        /\ h[now] \in SUBSET Nat
        /\ \A c \in h[p] : c \in Nat /\ c <= First + p.arrived
    BY FolderIsFinite
  <1>2. /\ \A c \in h[now] : c <= First + p.arrived => c \in h[p]
        /\ \A c \in h[now] : c <= First + b.arrived => c \in h[b]
    BY DEF History
  <1>3. r \in SUBSET h[p] /\ \A c \in r : Rank(h[p], c) \in off .. off + Page - 1
    BY DEF Positions
  <1>4. \A c \in h[p] : Rank(h[p], c) \in off .. off + Page - 1 => c \in r
    BY DEF Positions
  <1>5. \A c \in h[p], d \in r, e \in r : d < c /\ c < e => c \in r
    BY <1>1, PositionsConvex
  <1>6. (p.arrived = b.arrived /\ Before(p, b)) \/ Before(b, p)
    <2>1. Before(p, b) \/ Before(b, p)
      BY DEF History
    <2> QED BY <1>1, <2>1 DEF Before
  <1> HIDE DEF r
  <1>7. ASSUME NEW c \in h[now], c \notin s, c \notin r, NEW d \in s, NEW e \in r, d < c, c < e
        PROVE  FALSE
    <2>1. \A x \in s : x < c
      BY <1>1, <1>7 DEF Whole
    <2>2. PICK t \in Positions(h[b], boff) : Rank(h[b], t) = boff
      BY <1>1, <1>7, FirstRow
    <2>3. t \in s /\ t < c /\ t \in Nat /\ c \in Nat /\ e \in h[p] /\ e \in Nat
      BY <1>1, <1>3, <1>7, <2>1, <2>2
    <2>4. c \in h[p]
      BY <1>1, <1>2, <1>7, <2>3
    <2>5. /\ Rank(h[p], e) < Rank(h[p], c) /\ Rank(h[p], c) < Rank(h[p], t)
          /\ Rank(h[p], c) \in Nat /\ Rank(h[p], e) \in Nat /\ Rank(h[p], t) \in Nat
      BY <1>1, <1>7, <2>3, <2>4, RankFalls, RankIsNat
    <2>6. Rank(h[p], c) >= off + Page
      BY <1>3, <1>4, <1>7, <2>4, <2>5
    <2>7. Rank(h[p], t) <= boff + (off + Page - boff)
      <3>1. CASE Before(b, p)
        BY <1>1, <2>2, <2>3, <2>5, <3>1, RankMoves
      <3>2. CASE Before(p, b)
        BY <1>1, <2>2, <2>3, <2>5, <3>2, RankMoves
      <3> QED BY <1>6, <3>1, <3>2
    <2> QED BY <2>5, <2>6, <2>7
  <1>8. ASSUME NEW c \in h[now], c \notin s, c \notin r, NEW d \in r, NEW e \in s, d < c, c < e
        PROVE  FALSE
    <2>1. \A x \in s : x > c
      BY <1>1, <1>8 DEF Whole
    <2>2. PICK t \in Positions(h[b], boff) : Rank(h[b], t) = boff
      BY <1>1, <1>8, FirstRow
    <2>3. t \in s /\ c < t /\ t \in Nat /\ c \in Nat /\ d \in h[p] /\ d \in Nat /\ t \in h[b]
      BY <1>1, <1>3, <1>8, <2>1, <2>2 DEF Positions
    <2>4. c \in h[p] /\ c \in h[b]
      BY <1>1, <1>2, <1>8, <2>3
    <2>5. /\ Rank(h[p], c) < Rank(h[p], d) /\ Rank(h[b], t) < Rank(h[b], c)
          /\ Rank(h[p], c) \in Nat /\ Rank(h[p], d) \in Nat /\ Rank(h[b], c) \in Nat
      BY <1>1, <1>8, <2>3, <2>4, RankFalls, RankIsNat
    <2>6. Rank(h[p], c) < off
      BY <1>3, <1>4, <1>8, <2>4, <2>5
    <2>7. Rank(h[b], c) >= boff + Page
      <3>1. c \notin Positions(h[b], boff)
        BY <1>8
      <3> QED BY <2>2, <2>4, <2>5, <3>1 DEF Positions
    <2>8. Rank(h[b], c) <= Rank(h[p], c) + (IF off = boff THEN Page ELSE 0)
      <3>1. CASE Before(b, p)
        BY <1>1, <2>3, <2>5, <3>1, RankMoves
      <3>2. CASE Before(p, b) /\ p.arrived = b.arrived
        BY <1>1, <2>3, <2>5, <3>2, RankMoves
      <3> QED BY <1>6, <3>1, <3>2
    <2> QED BY <2>5, <2>6, <2>7, <2>8
  <1>9. ASSUME NEW c \in h[now], NEW d \in r, NEW e \in r, d < c, c < e
        PROVE  c \in r
    BY <1>1, <1>2, <1>3, <1>5, <1>9
  <1> QED BY <1>7, <1>8, <1>9 DEF Whole, r

(* The page of Gmail after a row, or from the first.                         *)
Rest(s, last) == {c \in s : last = 0 \/ c < last}
Following(s, last) == Positions(Rest(s, last), 0)

LEMMA FollowingIs ==
    ASSUME Page \in Nat, NEW s \in SUBSET Nat, IsFiniteSet(s), NEW last \in Nat
    PROVE  /\ Following(s, last) \in SUBSET s
           /\ \A c \in Following(s, last) : last = 0 \/ c < last
           /\ \A c \in s, d \in Following(s, last) :
                d < c /\ (last = 0 \/ c < last) => c \in Following(s, last)
  <1>1. Rest(s, last) \in SUBSET s /\ Rest(s, last) \in SUBSET Nat /\ IsFiniteSet(Rest(s, last))
    BY FS_Subset DEF Rest
  <1>2. /\ Following(s, last) \in SUBSET Rest(s, last)
        /\ \A c \in Rest(s, last) : Rank(Rest(s, last), c) \in 0 .. 0 + Page - 1
                                      <=> c \in Following(s, last)
    BY DEF Following, Positions
  <1>3. ASSUME NEW c \in s, NEW d \in Following(s, last), d < c, last = 0 \/ c < last
        PROVE  c \in Following(s, last)
    <2>1. c \in Rest(s, last) /\ d \in Rest(s, last) /\ d \in Nat
      BY <1>1, <1>2, <1>3 DEF Rest
    <2>2. /\ Rank(Rest(s, last), c) < Rank(Rest(s, last), d)
          /\ Rank(Rest(s, last), c) \in Nat /\ Rank(Rest(s, last), d) \in Nat
      BY <1>1, <1>3, <2>1, RankFalls, RankIsNat
    <2>3. Rank(Rest(s, last), d) \in 0 .. 0 + Page - 1
      BY <1>2, <2>1
    <2> QED BY <1>2, <2>1, <2>2, <2>3
  <1>4. Following(s, last) \in SUBSET s /\ \A c \in Following(s, last) : last = 0 \/ c < last
    BY <1>1, <1>2 DEF Rest
  <1> QED BY <1>3, <1>4

LEMMA TokenContinues ==
    ASSUME Page \in Nat, First \in Nat, NEW h, History(h),
           NEW p \in DOMAIN h, NEW now \in DOMAIN h, Before(p, now),
           NEW s \in SUBSET (Nat \ {0}), Whole(s, h[now]),
           NEW from \in s, from <= First + p.arrived
    PROVE  Whole(s \cup Following(h[p], from), h[now])
  <1> DEFINE r == Following(h[p], from)
  <1>1. /\ h[p] \in SUBSET Nat /\ IsFiniteSet(h[p]) /\ p.arrived \in Nat /\ h[now] \in SUBSET Nat
        /\ \A c \in h[p] : c <= First + p.arrived
    BY FolderIsFinite
  <1>2. \A c \in h[now] : c <= First + p.arrived => c \in h[p]
    BY DEF History
  <1>3. /\ r \in SUBSET h[p] /\ from \in Nat /\ from # 0 /\ \A c \in r : c < from
        /\ \A c \in h[p], d \in r : d < c /\ c < from => c \in r
    BY <1>1, FollowingIs
  <1> HIDE DEF r
  <1>4. ASSUME NEW c \in h[now], NEW d \in s \cup r, NEW e \in s \cup r, d < c, c < e,
               c \notin s, c \notin r
        PROVE  FALSE
    <2>1. c \in Nat /\ d \in Nat /\ e \in Nat
      BY <1>1, <1>3
    <2>2. CASE d \in s
      <3>1. e \in r
        BY <1>4, <2>2 DEF Whole
      <3>2. from < c \/ from = c \/ c < from
        BY <1>3, <2>1
      <3>3. ~ (c < from)
        BY <1>4, <2>2 DEF Whole
      <3> QED BY <1>3, <1>4, <2>1, <3>1, <3>2, <3>3
    <2>3. CASE d \in r
      <3>1. c < from
        <4>1. CASE e \in r
          BY <1>3, <1>4, <2>1, <4>1
        <4>2. CASE e \in s
          <5>1. ~ (from < c)
            BY <1>4, <4>2 DEF Whole
          <5> QED BY <1>3, <1>4, <2>1, <5>1
        <4> QED BY <4>1, <4>2
      <3>2. c \in h[p]
        BY <1>1, <1>2, <1>3, <2>1, <3>1
      <3> QED BY <1>3, <1>4, <2>3, <3>1, <3>2
    <2> QED BY <2>2, <2>3
  <1> QED BY <1>4 DEF Whole, r

(* The variables of MailPaging by their own names, but for its folder (box), *)
(* its asked (requests) and its excused (excuse).                           *)
account == v1
box == v2
arrived == v3
gone == v4
pages == v5
offset == v6
stable == v7
requests == v8
token == v9
base == v11
excuse == v12
USE DEF account, box, arrived, gone, pages, offset, stable, requests, token, base, excuse

Gmail == account.kind = "gmail"
PageType == [rows : SUBSET (Nat \ {0}), at : Time, from : Nat, whole : BOOLEAN]
PagingTypes ==
  /\ account \in [kind : Paging!Kinds, unified : BOOLEAN]
  /\ arrived \in Nat /\ gone \in Nat /\ offset \in Nat /\ excuse \in BOOLEAN
  /\ token \in Nat /\ token <= First + arrived
  /\ base \in [off : Nat, at : Time]
  /\ stable \in SUBSET (Nat \ {0}) /\ \A c \in stable : c <= First + arrived
  /\ \A r \in requests : r \in [off : Nat, from : Nat] /\ r.from <= First + arrived

(* An answer for an offset, or what stands in for it.                        *)
AnswerOK(h, o, page) ==
  /\ page \in PageType /\ IsFiniteSet(page.rows) /\ page.at \in DOMAIN h
  /\ page.from <= First + page.at.arrived
  /\ \A c \in page.rows : c <= First + page.at.arrived
  /\ page.whole /\ page.rows # {} =>
       page.rows = IF Gmail THEN Following(h[page.at], page.from) ELSE Positions(h[page.at], o)
PagesOK(h) == DOMAIN pages \subseteq Nat /\ \A o \in DOMAIN pages : AnswerOK(h, o, pages[o])

Current(h) == /\ History(h) /\ Paging!Now \in DOMAIN h /\ h[Paging!Now] = box
              /\ \A t \in DOMAIN h : Before(t, Paging!Now)

(* What is shown has no holes, and ends with the page at the base, which is  *)
(* the current one or the one before.                                       *)
ShownOK(h) ==
  ~excuse =>
    /\ Whole(stable, box)
    /\ Paging!Raw # {} => base.off = offset /\ pages[offset].whole
    /\ ~Gmail => /\ base.off <= offset /\ offset <= base.off + Page
                 /\ \A d \in stable : d <= First + base.at.arrived
                 /\ stable # {} => /\ Positions(h[base.at], base.off) # {}
                                   /\ Positions(h[base.at], base.off) \subseteq stable
PagedOK(h) == Current(h) /\ PagesOK(h) /\ base.at \in DOMAIN h /\ ShownOK(h)
PagingInv == PagingTypes /\ \E h : PagedOK(h)

LEMMA PagingStarts ==
    ASSUME Page \in Nat, First \in Nat, Paging!Init
    PROVE  PagingInv
  <1> DEFINE now == Paging!Now  h == [t \in {now} |-> box]
  <1>1. /\ account \in [kind : Paging!Kinds, unified : BOOLEAN] /\ box = 1..First
        /\ arrived = 0 /\ gone = 0 /\ pages = <<>> /\ offset = 0 /\ stable = {} /\ requests = {}
        /\ token = 0 /\ base = [off |-> 0, at |-> now] /\ excuse = FALSE
    BY DEF Paging!Init
  <1>2. now = [arrived |-> 0, gone |-> 0]
    BY <1>1 DEF Paging!Now
  <1>3. now \in Time
    BY <1>2 DEF Time
  <1>4. PagingTypes
    <2> HIDE DEF now, h
    <2>1. base \in [off : Nat, at : Time] /\ stable \in SUBSET (Nat \ {0})
      BY <1>1, <1>3
    <2>2. /\ arrived = 0 /\ gone = 0 /\ offset = 0 /\ excuse \in BOOLEAN /\ token = 0 /\ requests = {}
      BY <1>1, Zenon
    <2>4. token <= First + arrived
      BY <2>2
    <2>5. \A c \in stable : c <= First + arrived
      BY <1>1
    <2>3. account \in [kind : Paging!Kinds, unified : BOOLEAN]
      BY <1>1, Zenon
    <2> QED BY <2>1, <2>2, <2>3, <2>4, <2>5 DEF PagingTypes
  <1>5. \A t \in {now} : h[t] = 1..First + t.arrived /\ t.arrived = 0 /\ t.gone = 0
    BY <1>1, <1>2
  <1>6. Cardinality(box \ box) = 0
    BY FS_EmptySet
  <1>7. History(h)
    BY <1>1, <1>2, <1>3, <1>5, <1>6 DEF History, Before
  <1>8. Current(h)
    BY <1>2, <1>7 DEF Current, Before
  <1>9. DOMAIN pages = {} /\ Paging!Raw = {}
    BY <1>1 DEF Paging!Raw, Paging!Cached, Paging!Nothing
  <1>10. ShownOK(h)
    BY <1>1, <1>9 DEF ShownOK, Whole
  <1>11. PagedOK(h)
    BY <1>1, <1>8, <1>9, <1>10 DEF PagedOK, PagesOK
  <1> HIDE DEF h
  <1> QED BY <1>4, <1>11 DEF PagingInv

(* A page is shown, alone or with those before it.                           *)
LEMMA ShowKeeps ==
    ASSUME Page \in Nat, First \in Nat, PagingTypes, NEW h, PagedOK(h),
           UNCHANGED <<account, box, arrived, gone>>,
           NEW off \in Nat, NEW page, AnswerOK(h, off, page), Paging!Show(off, page),
           offset' = off, Paging!Raw' # {} => pages'[offset'] = page,
           off > 0 => page.rows # {} /\ (~excuse /\ ~Gmail => base.off <= off /\ off <= base.off + Page)
    PROVE  /\ base' \in [off : Nat, at : Time] /\ stable' \in SUBSET (Nat \ {0})
           /\ \A c \in stable' : c <= First + arrived
           /\ excuse' \in BOOLEAN /\ base'.at \in DOMAIN h /\ ShownOK(h)'
  <1>1. /\ stable' = IF off = 0 THEN page.rows ELSE stable \cup page.rows
        /\ base' = [off |-> off, at |-> page.at]
        /\ excuse' = (~page.whole \/ (off > 0 /\ (excuse \/ ~Paging!Follows(off, page))))
    BY DEF Paging!Show, Paging!Accumulated
  <1>2. /\ page.rows \in SUBSET (Nat \ {0}) /\ page.at \in Time /\ page.from \in Nat
        /\ page.whole \in BOOLEAN /\ page.at \in DOMAIN h /\ page.from <= First + page.at.arrived
        /\ page.whole /\ page.rows # {} =>
             page.rows = IF Gmail THEN Following(h[page.at], page.from)
                         ELSE Positions(h[page.at], off)
    BY DEF AnswerOK, PageType
  <1>3. /\ stable \in SUBSET (Nat \ {0}) /\ base.off \in Nat /\ base.at \in Time
    BY DEF PagingTypes
  <1>4. /\ base' \in [off : Nat, at : Time] /\ base'.off = off /\ base'.at = page.at
        /\ stable' \in SUBSET (Nat \ {0}) /\ excuse' \in BOOLEAN
    BY <1>1, <1>2, <1>3
  <1>5. /\ History(h) /\ Paging!Now \in DOMAIN h /\ h[Paging!Now] = box
        /\ Before(page.at, Paging!Now) /\ base.at \in DOMAIN h /\ Before(base.at, Paging!Now)
    BY <1>2 DEF PagedOK, Current
  <1>6. box' = box /\ Gmail' = Gmail
    BY DEF Gmail
  <1>7. /\ h[page.at] \in SUBSET Nat /\ IsFiniteSet(h[page.at]) /\ page.at.arrived \in Nat
        /\ \A c \in h[page.at] : c <= First + page.at.arrived
        /\ base.at.arrived \in Nat /\ base.at.gone \in Nat /\ page.at.gone \in Nat
    BY <1>2, <1>5, FolderIsFinite
  <1>8. ASSUME ~excuse'
        PROVE  /\ Whole(stable', box)
               /\ ~Gmail => /\ \A d \in stable' : d <= First + page.at.arrived
                            /\ stable' # {} => /\ Positions(h[page.at], off) # {}
                                               /\ Positions(h[page.at], off) \subseteq stable'
    <2>1. page.whole /\ (off > 0 => ~excuse /\ Paging!Follows(off, page))
      BY <1>1, <1>2, <1>8
    <2>2. page.rows # {} =>
            page.rows = IF Gmail THEN Following(h[page.at], page.from)
                        ELSE Positions(h[page.at], off)
      BY <1>2, <2>1
    <2>3. page.rows \subseteq h[page.at] /\ \A d \in page.rows : d <= First + page.at.arrived
      BY <1>2, <1>7, <2>2, FollowingIs DEF Positions
    <2>4. CASE off = 0
      <3>1. stable' = page.rows
        BY <1>1, <2>4
      <3>2. ASSUME NEW c \in box, NEW d \in page.rows, NEW e \in page.rows, d < c, c < e
            PROVE  c \in page.rows
        <4>1. c \in h[page.at] /\ d \in h[page.at] /\ e \in h[page.at] /\ c \in Nat /\ e \in Nat
          <5>1. box \in SUBSET Nat
            BY <1>5, FolderIsFinite
          <5>2. c <= First + page.at.arrived /\ d \in h[page.at] /\ e \in h[page.at]
            BY <1>2, <1>7, <2>3, <3>2, <5>1
          <5> QED BY <1>2, <1>5, <5>1, <5>2 DEF History
        <4>2. CASE Gmail
          <5>1. c \in h[page.at] /\ d < c /\ d \in Following(h[page.at], page.from)
            BY <2>2, <3>2, <4>1, <4>2
          <5>2. page.from = 0 \/ c < page.from
            <6>1. page.from = 0 \/ e < page.from
              BY <1>2, <1>7, <2>2, <4>2, FollowingIs
            <6> QED BY <1>2, <3>2, <4>1, <6>1
          <5>3. c \in Following(h[page.at], page.from)
            BY <1>2, <1>7, <5>1, <5>2, FollowingIs
          <5> QED BY <2>2, <4>2, <5>3
        <4>3. CASE ~Gmail
          BY <1>7, <2>2, <3>2, <4>1, <4>3, PositionsConvex
        <4> QED BY <4>2, <4>3
      <3> QED BY <2>2, <2>3, <3>1, <3>2 DEF Whole
    <2>5. CASE off > 0
      <3>1. /\ stable' = stable \cup page.rows /\ page.rows # {} /\ Whole(stable, box)
            /\ ~excuse /\ Paging!Follows(off, page)
        BY <1>1, <2>1, <2>5 DEF PagedOK, ShownOK
      <3>2. CASE Gmail
        <4>1. page.from \in stable
          BY <3>1, <3>2 DEF Paging!Follows, Gmail
        <4> QED BY <1>2, <1>3, <1>5, <2>2, <3>1, <3>2, <4>1, TokenContinues
      <3>3. CASE ~Gmail
        <4>1. /\ page.at.arrived - base.at.arrived \in 0 .. off + Page - base.off
              /\ page.at.gone - base.at.gone
                   \in -(off + Page - base.off) .. (IF off = base.off THEN Page ELSE 0)
          BY <3>1, <3>3 DEF Paging!Follows, Gmail
        <4>2. /\ base.off <= off /\ off <= base.off + Page
              /\ \A d \in stable : d <= First + base.at.arrived
              /\ stable # {} => /\ Positions(h[base.at], base.off) # {}
                                /\ Positions(h[base.at], base.off) \subseteq stable
          BY <2>5, <3>1, <3>3 DEF PagedOK, ShownOK
        <4>3. page.rows = Positions(h[page.at], off)
          BY <2>2, <3>1, <3>3
        <4>4. stable \in SUBSET Nat
          BY <1>3
        <4>5. Whole(stable \cup Positions(h[page.at], off), h[Paging!Now])
          BY <1>2, <1>3, <1>5, <3>1, <4>1, <4>2, <4>4, PageContinues
        <4>6. \A d \in stable : d <= First + page.at.arrived
          BY <1>3, <1>7, <4>1, <4>2
        <4> QED BY <1>5, <2>3, <3>1, <4>3, <4>5, <4>6
      <3> QED BY <3>2, <3>3
    <2> QED BY <2>4, <2>5
  <1>9. ASSUME ~excuse', Paging!Raw' # {} PROVE pages'[offset'].whole
    BY <1>1, <1>2, <1>9
  <1>10. ShownOK(h)'
    BY <1>4, <1>6, <1>8, <1>9 DEF ShownOK
  <1>11. ASSUME NEW c \in stable' PROVE c <= First + arrived
    <2>1. CASE c \in stable
      BY <2>1 DEF PagingTypes
    <2>2. CASE c \in page.rows
      <3>1. c <= First + page.at.arrived /\ c \in Nat
        BY <1>2, <2>2 DEF AnswerOK
      <3>2. page.at.arrived <= arrived /\ arrived \in Nat
        BY <1>5 DEF Before, Paging!Now, PagingTypes
      <3> QED BY <1>7, <3>1, <3>2
    <2> QED BY <1>1, <1>11, <2>1, <2>2
  <1> QED BY <1>2, <1>4, <1>10, <1>11

(* One more conversation has come, or left.                                  *)
OneMore(s, now, f, later) ==
  \/ /\ later.arrived = now.arrived + 1 /\ later.gone = now.gone
     /\ f = s \cup {First + later.arrived}
  \/ /\ later.arrived = now.arrived /\ later.gone = now.gone + 1
     /\ \E c \in s : f = s \ {c}

LEMMA HistoryGrows ==
    ASSUME First \in Nat, NEW h, History(h), NEW now \in DOMAIN h,
           \A t \in DOMAIN h : Before(t, now), NEW later \in Time, NEW f,
           OneMore(h[now], now, f, later)
    PROVE  \E g : /\ History(g) /\ DOMAIN g = DOMAIN h \cup {later} /\ g[later] = f
                  /\ \A t \in DOMAIN h : g[t] = h[t]
                  /\ \A t \in DOMAIN g : Before(t, later)
  <1> DEFINE g == [t \in DOMAIN h \cup {later} |-> IF t = later THEN f ELSE h[t]]
  <1> USE DEF OneMore
  <1>1. /\ h[now] \in SUBSET Nat /\ IsFiniteSet(h[now]) /\ now.arrived \in Nat /\ now.gone \in Nat
        /\ \A c \in h[now] : c \in Nat \ {0} /\ c <= First + now.arrived
    BY FolderIsFinite
  <1>2. later.arrived \in Nat /\ later.gone \in Nat
    BY DEF Time
  <1>3. \A t \in DOMAIN h : /\ t \in Time /\ t.arrived \in Nat /\ t.gone \in Nat
                            /\ IsFiniteSet(h[t]) /\ Before(t, later) /\ ~Before(later, t)
    <2> TAKE t \in DOMAIN h
    <2>1. t.arrived \in Nat /\ t.gone \in Nat /\ IsFiniteSet(h[t]) /\ t \in Time
      BY FolderIsFinite DEF History
    <2>2. Before(t, now)
      OBVIOUS
    <2> QED BY <1>1, <1>2, <2>1, <2>2 DEF Before
  <1>4. later \notin DOMAIN h /\ Before(later, later)
    <2>1. Before(later, later)
      BY <1>2 DEF Before
    <2> QED BY <1>3, <2>1
  <1>5. /\ DOMAIN g = DOMAIN h \cup {later} /\ g[later] = f
        /\ \A t \in DOMAIN h : g[t] = h[t]
    BY <1>4
  <1> HIDE DEF g
  <1>6. f \in SUBSET (1..First + later.arrived)
    BY <1>1, <1>2
  <1>7. ASSUME NEW s \in DOMAIN h
        PROVE  /\ \A c \in f : c <= First + s.arrived => c \in h[s]
               /\ Cardinality(h[s] \ f) <= later.gone - s.gone
    <2>1. /\ \A c \in h[now] : c <= First + s.arrived => c \in h[s]
          /\ Cardinality(h[s] \ h[now]) <= now.gone - s.gone
      BY DEF History
    <2>2. s.arrived <= now.arrived /\ s.arrived \in Nat /\ s.gone \in Nat /\ s.gone <= now.gone
      BY <1>3 DEF Before
    <2>3. /\ IsFiniteSet(h[s] \ h[now]) /\ Cardinality(h[s] \ h[now]) \in Nat
          /\ IsFiniteSet(h[s] \ f) /\ Cardinality(h[s] \ f) \in Nat
      BY <1>3, FS_Difference, FS_CardinalityType
    <2>4. CASE /\ later.arrived = now.arrived + 1 /\ later.gone = now.gone
               /\ f = h[now] \cup {First + later.arrived}
      <3>1. h[s] \ f \subseteq h[s] \ h[now]
        BY <2>4
      <3>2. Cardinality(h[s] \ f) <= Cardinality(h[s] \ h[now])
        BY <2>3, <3>1, FS_Subset, Zenon
      <3> QED BY <1>1, <1>2, <2>1, <2>2, <2>3, <2>4, <3>2
    <2>5. ASSUME later.arrived = now.arrived, later.gone = now.gone + 1,
                 NEW c \in h[now], f = h[now] \ {c}
          PROVE  /\ \A d \in f : d <= First + s.arrived => d \in h[s]
                 /\ Cardinality(h[s] \ f) <= later.gone - s.gone
      <3>1. h[s] \ f \subseteq (h[s] \ h[now]) \cup {c}
        BY <2>5
      <3>2. IsFiniteSet({c}) /\ Cardinality({c}) = 1
        BY FS_Singleton
      <3>3. Cardinality(h[s] \ f) <= Cardinality(h[s] \ h[now]) + Cardinality({c})
        BY <2>3, <3>1, <3>2, AtMostBoth, Zenon
      <3> QED BY <1>1, <2>1, <2>2, <2>3, <2>5, <3>2, <3>3
    <2> QED BY <2>4, <2>5
  <1>8. Cardinality(f \ f) = 0
    <2>1. f \ f = {}
      OBVIOUS
    <2> QED BY <2>1, FS_EmptySet, Zenon
  <1>9. \A s, t \in DOMAIN g : Before(s, t) \/ Before(t, s)
    BY <1>3, <1>4, <1>5 DEF History
  <1>10. ASSUME NEW s \in DOMAIN g, NEW t \in DOMAIN g, Before(s, t)
         PROVE  /\ \A c \in g[t] : c <= First + s.arrived => c \in g[s]
                /\ Cardinality(g[s] \ g[t]) <= t.gone - s.gone
    <2>1. CASE s \in DOMAIN h /\ t \in DOMAIN h
      BY <1>5, <1>10, <2>1 DEF History
    <2>2. CASE s \in DOMAIN h /\ t = later
      BY <1>5, <1>7, <2>2
    <2>3. CASE s = later /\ t = later
      BY <1>2, <1>5, <1>8, <2>3
    <2> QED BY <1>3, <1>5, <1>10, <2>1, <2>2, <2>3
  <1>11. DOMAIN g \in SUBSET Time /\ \A t \in DOMAIN g : g[t] \in SUBSET (1..First + t.arrived)
    BY <1>3, <1>5, <1>6 DEF History
  <1>12. History(g)
    BY <1>9, <1>10, <1>11 DEF History
  <1> QED BY <1>3, <1>4, <1>5, <1>12

LEMMA FolderChanges ==
    ASSUME First \in Nat, PagingInv, Paging!Arrive \/ \E c \in box : Paging!Leave(c)
    PROVE  PagingInv'
  <1>1. UNCHANGED <<account, pages, offset, stable, requests, token, base, excuse>>
    BY DEF Paging!Arrive, Paging!Leave
  <1>2. \/ arrived' = arrived + 1 /\ gone' = gone /\ box' = box \cup {First + arrived + 1}
        \/ arrived' = arrived /\ gone' = gone + 1 /\ \E c \in box : box' = box \ {c}
    BY DEF Paging!Arrive, Paging!Leave
  <1>3. PICK h : PagedOK(h)
    BY DEF PagingInv
  <1>4. PagingTypes
    BY DEF PagingInv
  <1>5. PICK now, later, f : now = Paging!Now /\ later = Paging!Now' /\ f = box'
    OBVIOUS
  <1>6. /\ now.arrived = arrived /\ now.gone = gone /\ later.arrived = arrived'
        /\ later.gone = gone' /\ later \in Time
    BY <1>2, <1>4, <1>5 DEF Paging!Now, Time, PagingTypes
  <1>7. /\ History(h) /\ now \in DOMAIN h /\ h[now] = box
        /\ \A t \in DOMAIN h : Before(t, now)
    BY <1>3, <1>5 DEF PagedOK, Current
  <1>8. OneMore(h[now], now, f, later)
    <2>1. First + arrived + 1 = First + (arrived + 1)
      BY <1>4 DEF PagingTypes
    <2> QED BY <1>2, <1>5, <1>6, <1>7, <2>1 DEF OneMore
  <1>9. PICK g : /\ History(g) /\ DOMAIN g = DOMAIN h \cup {later} /\ g[later] = f
                 /\ \A t \in DOMAIN h : g[t] = h[t]
                 /\ \A t \in DOMAIN g : Before(t, later)
    BY <1>6, <1>7, <1>8, HistoryGrows, Zenon
  <1>10. Current(g)'
    BY <1>5, <1>9 DEF Current
  <1>11. PagesOK(g)'
    <2>1. Gmail' = Gmail
      BY <1>1 DEF Gmail
    <2>2. ASSUME NEW o, NEW page, AnswerOK(h, o, page) PROVE AnswerOK(g, o, page)'
      BY <1>9, <2>1, <2>2 DEF AnswerOK
    <2> QED BY <1>1, <1>3, <2>2 DEF PagedOK, PagesOK
  <1>12. ShownOK(g)'
    <2>1. ASSUME ~excuse
          PROVE  /\ Whole(stable, box)
                 /\ Paging!Raw # {} => base.off = offset /\ pages[offset].whole
                 /\ ~Gmail => /\ base.off <= offset /\ offset <= base.off + Page
                              /\ \A d \in stable : d <= First + base.at.arrived
                              /\ stable # {} => /\ Positions(g[base.at], base.off) # {}
                                                /\ Positions(g[base.at], base.off) \subseteq stable
                 /\ base.at \in DOMAIN h
      BY <1>3, <1>9, <2>1 DEF PagedOK, ShownOK
    <2>2. ASSUME ~excuse PROVE Whole(stable, box')
      <3>1. \A c \in box', e \in stable : c < e => c \in box
        <4>1. \A e \in stable : e \in Nat /\ e <= First + arrived
          BY <1>4 DEF PagingTypes
        <4> QED BY <1>2, <1>4, <4>1 DEF PagingTypes
      <3> QED BY <2>1, <2>2, <3>1 DEF Whole
    <2>3. Paging!Raw' = Paging!Raw /\ Gmail' = Gmail
      BY <1>1 DEF Paging!Raw, Paging!Cached, Paging!Nothing, Gmail
    <2> QED BY <1>1, <2>1, <2>2, <2>3 DEF ShownOK
  <1>13. base'.at \in DOMAIN g
    BY <1>1, <1>3, <1>9 DEF PagedOK
  <1>14. PagingTypes'
    BY <1>1, <1>2, <1>4 DEF PagingTypes
  <1> QED BY <1>10, <1>11, <1>12, <1>13, <1>14 DEF PagedOK, PagingInv

(* The Cardinality that MailPaging names is that of FiniteSets.              *)
LEMMA PagingCounts == \A s : Paging!Cardinality(s) = Cardinality(s)
  BY DEF Paging!Cardinality, Cardinality

LEMMA CachedIsOK ==
    ASSUME First \in Nat, PagingTypes, NEW h, PagedOK(h), NEW o \in Nat
    PROVE  /\ AnswerOK(h, o, Paging!Cached(o))
           /\ o \notin DOMAIN pages => Paging!Cached(o).rows = {}
           /\ o \in DOMAIN pages => Paging!Cached(o) = pages[o]
           /\ Paging!Cached(o).rows \in SUBSET (Nat \ {0}) /\ IsFiniteSet(Paging!Cached(o).rows)
           /\ \A c \in Paging!Cached(o).rows : c <= First + arrived
  <1>1. Paging!Now \in DOMAIN h /\ Paging!Now \in Time /\ Paging!Now.arrived = arrived
    <2>1. Paging!Now \in DOMAIN h /\ History(h)
      BY DEF PagedOK, Current
    <2> QED BY <2>1 DEF Paging!Now, Time, PagingTypes
  <1>2. AnswerOK(h, o, Paging!Cached(o))
    <2>1. CASE o \in DOMAIN pages
      BY <2>1 DEF PagedOK, PagesOK, Paging!Cached
    <2>2. CASE o \notin DOMAIN pages
      <3>1. PICK n : n = Paging!Nothing
        OBVIOUS
      <3>2. n \in PageType /\ n.rows = {} /\ n.at = Paging!Now /\ n.from = 0
        BY <1>1, <3>1 DEF Paging!Nothing, PageType
      <3>3. AnswerOK(h, o, n)
        BY <1>1, <3>2, FS_EmptySet DEF AnswerOK, PagingTypes
      <3> QED BY <2>2, <3>1, <3>3 DEF Paging!Cached
    <2> QED BY <2>1, <2>2
  <1>3. o \notin DOMAIN pages => Paging!Cached(o).rows = {}
    BY DEF Paging!Cached, Paging!Nothing
  <1>4. o \in DOMAIN pages => Paging!Cached(o) = pages[o]
    BY DEF Paging!Cached
  <1>5. PICK p : p = Paging!Cached(o)
    OBVIOUS
  <1>6. /\ p.rows \in SUBSET (Nat \ {0}) /\ IsFiniteSet(p.rows) /\ p.at \in DOMAIN h
        /\ p.at \in Time /\ \A c \in p.rows : c <= First + p.at.arrived
    BY <1>2, <1>5 DEF AnswerOK, PageType
  <1>7. p.at.arrived <= arrived /\ p.at.arrived \in Nat /\ arrived \in Nat
    BY <1>1, <1>6 DEF PagedOK, Current, Before, Time, PagingTypes
  <1>8. \A c \in p.rows : c <= First + arrived
    BY <1>6, <1>7
  <1> QED BY <1>2, <1>3, <1>4, <1>5, <1>6, <1>8

(* Requests that start have a token the folder has come to.                  *)
MayStart(offs) == Paging!Start(offs) \/ UNCHANGED <<requests, token>>
TokensOK == /\ token \in Nat /\ token <= First + arrived
            /\ \A r \in requests : r \in [off : Nat, from : Nat] /\ r.from <= First + arrived

LEMMA AskKeeps ==
    ASSUME First \in Nat, TokensOK, arrived \in Nat, NEW offs \in SUBSET Nat,
           UNCHANGED <<account, arrived>>, MayStart(offs)
    PROVE  TokensOK'
  <1>1. /\ token \in Nat /\ token <= First + arrived
        /\ \A r \in requests : r \in [off : Nat, from : Nat] /\ r.from <= First + arrived
    BY DEF TokensOK
  <1>2. CASE UNCHANGED <<requests, token>>
    BY <1>1, <1>2 DEF TokensOK
  <1>3. CASE Paging!Start(offs)
    <2>1. \A r \in requests' : r \in requests \/ \E o \in offs : r = Paging!Request(o)
      BY <1>3 DEF Paging!Start
    <2>2. token' = 0 \/ token' = token
      BY <1>3 DEF Paging!Start
    <2>3. \A o \in offs : /\ Paging!Request(o) \in [off : Nat, from : Nat]
                          /\ Paging!Request(o).from <= First + arrived
      BY <1>1 DEF Paging!Request
    <2>4. token' \in Nat /\ token' <= First + arrived'
      BY <1>1, <2>2
    <2>5. \A r \in requests' : r \in [off : Nat, from : Nat] /\ r.from <= First + arrived
      BY <1>1, <2>1, <2>3, Zenon
    <2>6. arrived' = arrived
      OBVIOUS
    <2>7. \A r \in requests' : r \in [off : Nat, from : Nat] /\ r.from <= First + arrived'
      BY <2>5, <2>6, Zenon
    <2> QED BY <2>4, <2>7 DEF TokensOK
  <1>4. Paging!Start(offs) \/ UNCHANGED <<requests, token>>
    BY DEF MayStart
  <1> QED BY <1>2, <1>3, <1>4, Zenon

(* What is shown, and that it is in order.                                   *)
ViewOK(h) == /\ offset \in Nat /\ base \in [off : Nat, at : Time] /\ base.at \in DOMAIN h
             /\ stable \in SUBSET (Nat \ {0}) /\ \A c \in stable : c <= First + arrived
             /\ excuse \in BOOLEAN /\ ShownOK(h)

(* Steps that leave the folder and the answers.                              *)
LEMMA ViewKeeps ==
    ASSUME First \in Nat, PagingTypes, NEW h, PagedOK(h),
           UNCHANGED <<account, box, arrived, gone, pages>>, NEW offs \in SUBSET Nat,
           MayStart(offs), ViewOK(h)'
    PROVE  PagingInv'
  <1>1. Current(h)'
    BY DEF PagedOK, Current, Paging!Now
  <1>2. Gmail' = Gmail
    BY DEF Gmail
  <1>3. ASSUME NEW o, NEW page, AnswerOK(h, o, page) PROVE AnswerOK(h, o, page)'
    BY <1>2, <1>3 DEF AnswerOK
  <1>4. PagesOK(h)'
    BY <1>3 DEF PagedOK, PagesOK
  <1>5. TokensOK /\ arrived \in Nat
    BY DEF PagingTypes, TokensOK
  <1>6. UNCHANGED <<account, arrived>>
    OBVIOUS
  <1>7. TokensOK'
    BY <1>5, <1>6, AskKeeps
  <1>8. PagingTypes'
    <2>1. UNCHANGED <<account, arrived, gone>>
      OBVIOUS
    <2> QED BY <1>7, <2>1 DEF PagingTypes, TokensOK, ViewOK
  <1> QED BY <1>1, <1>4, <1>8 DEF PagingInv, PagedOK, ViewOK

LEMMA ResetKeeps ==
    ASSUME Page \in Nat, First \in Nat, PagingTypes, NEW h, PagedOK(h),
           UNCHANGED <<account, box, arrived, gone, pages>>, NEW offs \in SUBSET Nat,
           MayStart(offs), Paging!Reset
    PROVE  PagingInv'
  <1>1. PICK page : page = Paging!Cached(0)
    OBVIOUS
  <1>2. AnswerOK(h, 0, page) /\ (0 \notin DOMAIN pages => page.rows = {})
        /\ (0 \in DOMAIN pages => page = pages[0])
    BY <1>1, CachedIsOK
  <1>3. offset' = 0 /\ Paging!Show(0, page)
    BY <1>1 DEF Paging!Reset
  <1>4. Paging!Raw' # {} => pages'[offset'] = page
    <2>1. Paging!Raw' = IF 0 \in DOMAIN pages THEN pages[0].rows ELSE {}
      BY <1>3 DEF Paging!Raw, Paging!Cached, Paging!Nothing
    <2> QED BY <1>2, <1>3, <2>1
  <1>5. /\ base' \in [off : Nat, at : Time] /\ stable' \in SUBSET (Nat \ {0})
        /\ \A c \in stable' : c <= First + arrived
        /\ excuse' \in BOOLEAN /\ base'.at \in DOMAIN h /\ ShownOK(h)'
    BY <1>2, <1>3, <1>4, ShowKeeps
  <1>6. ViewOK(h)'
    BY <1>3, <1>5 DEF ViewOK
  <1> QED BY <1>6, ViewKeeps, Zenon

LEMMA LoadKeeps ==
    ASSUME Page \in Nat, First \in Nat, PagingInv, Paging!LoadMore
    PROVE  PagingInv'
  <1>1. PagingTypes
    BY DEF PagingInv
  <1>2. PICK h : PagedOK(h)
    BY DEF PagingInv
  <1>3. PICK down : down = offset + Paging!Consumed
    OBVIOUS
  <1>4. /\ UNCHANGED <<account, box, arrived, gone, pages>> /\ Paging!Consumed > 0
        /\ offset' = down /\ MayStart({down})
        /\ IF Paging!Raw = {} THEN /\ excuse' = TRUE /\ UNCHANGED base
                                   /\ stable' = stable \cup Paging!Cached(down).rows
           ELSE IF Paging!Cached(down).rows = {} THEN UNCHANGED <<stable, base, excuse>>
           ELSE Paging!Show(down, pages[down])
    BY <1>3 DEF Paging!LoadMore, MayStart
  <1>5. offset \in Nat /\ base.off \in Nat /\ account.kind \in Paging!Kinds
    BY <1>1 DEF PagingTypes
  <1>6. IsFiniteSet(Paging!Raw) /\ Cardinality(Paging!Raw) \in Nat
    BY <1>1, <1>2, <1>5, CachedIsOK, FS_CardinalityType DEF Paging!Raw
  <1>7. Paging!Consumed \in {Page, Cardinality(Paging!Raw)}
    BY PagingCounts DEF Paging!Consumed
  <1>8. down \in Nat /\ down > 0 /\ down > offset
    BY <1>3, <1>4, <1>5, <1>6, <1>7
  <1>9. ASSUME ~excuse, ~Gmail, Paging!Raw # {}
        PROVE  base.off <= down /\ down <= base.off + Page
    <2>1. base.off = offset /\ pages[offset].whole
      BY <1>2, <1>9 DEF PagedOK, ShownOK
    <2>2. PICK page : page = Paging!Cached(offset)
      OBVIOUS
    <2>3. page = pages[offset] /\ AnswerOK(h, offset, page) /\ Paging!Raw = page.rows
      BY <1>1, <1>2, <1>5, <1>9, <2>2, CachedIsOK DEF Paging!Raw
    <2>4. page.rows = Positions(h[page.at], offset) /\ page.at \in DOMAIN h
      BY <1>9, <2>1, <2>3 DEF AnswerOK
    <2>5. h[page.at] \in SUBSET Nat /\ IsFiniteSet(h[page.at])
      BY <1>2, <2>4, FolderIsFinite DEF PagedOK, Current
    <2>6. Cardinality(Paging!Raw) <= Page
      BY <1>5, <2>3, <2>4, <2>5, PageIsFull
    <2> QED BY <1>3, <1>5, <1>6, <1>7, <1>8, <2>1, <2>6
  <1>10. ASSUME Paging!Raw = {} PROVE ViewOK(h)'
    <2>1. stable' \in SUBSET (Nat \ {0}) /\ \A c \in stable' : c <= First + arrived
      BY <1>1, <1>2, <1>4, <1>8, <1>10, CachedIsOK DEF PagingTypes
    <2>2. base' \in [off : Nat, at : Time] /\ base'.at \in DOMAIN h
      BY <1>1, <1>2, <1>4, <1>10 DEF PagingTypes, PagedOK
    <2>3. excuse' \in BOOLEAN /\ ShownOK(h)'
      BY <1>4, <1>10 DEF ShownOK
    <2> QED BY <1>4, <1>8, <2>1, <2>2, <2>3 DEF ViewOK
  <1>11. ASSUME Paging!Raw # {} /\ Paging!Cached(down).rows = {} PROVE ViewOK(h)'
    <2>1. UNCHANGED <<stable, base, excuse>>
      BY <1>4, <1>11
    <2>2. Paging!Raw' = {} /\ Gmail' = Gmail
      BY <1>4, <1>11 DEF Paging!Raw, Paging!Cached, Paging!Nothing, Gmail
    <2>3. ShownOK(h)'
      BY <1>2, <1>4, <1>9, <1>11, <2>1, <2>2 DEF ShownOK, PagedOK
    <2>4. /\ base' \in [off : Nat, at : Time] /\ base'.at \in DOMAIN h /\ excuse' \in BOOLEAN
          /\ stable' \in SUBSET (Nat \ {0}) /\ \A c \in stable' : c <= First + arrived
      BY <1>1, <1>2, <2>1 DEF PagingTypes, PagedOK
    <2> QED BY <1>4, <1>8, <2>3, <2>4 DEF ViewOK
  <1>12. ASSUME Paging!Raw # {} /\ Paging!Cached(down).rows # {} PROVE ViewOK(h)'
    <2>1. PICK page : page = Paging!Cached(down)
      OBVIOUS
    <2>2. down \in DOMAIN pages /\ page = pages[down] /\ AnswerOK(h, down, page)
      BY <1>1, <1>2, <1>8, <1>12, <2>1, CachedIsOK
    <2>3. Paging!Show(down, page) /\ page.rows # {} /\ pages'[offset'] = page
      BY <1>4, <1>12, <2>1, <2>2
    <2>4. /\ base' \in [off : Nat, at : Time] /\ stable' \in SUBSET (Nat \ {0})
          /\ \A c \in stable' : c <= First + arrived
          /\ excuse' \in BOOLEAN /\ base'.at \in DOMAIN h /\ ShownOK(h)'
      BY <1>1, <1>2, <1>4, <1>8, <1>9, <1>12, <2>2, <2>3, ShowKeeps
    <2> QED BY <1>4, <1>8, <2>4 DEF ViewOK
  <1>13. ViewOK(h)'
    BY <1>10, <1>11, <1>12
  <1>14. {down} \in SUBSET Nat /\ MayStart({down}) /\ UNCHANGED <<account, box, arrived, gone, pages>>
    BY <1>4, <1>8
  <1> QED BY <1>1, <1>2, <1>13, <1>14, ViewKeeps, Zenon

(* The answer of the server for a request.                                   *)
LEMMA ListedIs ==
    ASSUME Page \in Nat, PagingTypes, box \in SUBSET Nat, IsFiniteSet(box), NEW r \in requests
    PROVE  Paging!Listed(r) = IF Gmail THEN Following(box, r.from) ELSE Positions(box, r.off)
  <1>1. account.kind \in {"ews", "jmap", "imap", "gmail"}
    BY DEF PagingTypes, Paging!Kinds
  <1>2. r.off \in Nat /\ r.from \in Nat
    BY DEF PagingTypes
  <1>3. Paging!Slice(r.off) = Positions(box, r.off)
    BY PagingCounts DEF Paging!Slice, Paging!Newer, Positions, Rank, Above
  <1>4. Paging!GmailPage(r) = Following(box, r.from)
    <2>1. PICK rest : rest = Rest(box, r.from)
      OBVIOUS
    <2>2. rest \in SUBSET Nat /\ IsFiniteSet(rest)
      BY <2>1, FS_Subset DEF Rest
    <2>3. Paging!GmailPage(r) = {c \in rest : Rank(rest, c) < Page}
      BY <2>1, PagingCounts DEF Paging!GmailPage, Paging!After, Rest, Rank, Above
    <2>4. \A c \in rest : Rank(rest, c) < Page <=> Rank(rest, c) \in 0 .. 0 + Page - 1
      BY <2>2, RankIsNat
    <2> QED BY <2>1, <2>3, <2>4 DEF Following, Positions
  <1> QED BY <1>1, <1>3, <1>4
        DEF Paging!Listed, Paging!EwsPage, Paging!JmapPage, Paging!ImapPage, Gmail

(* The page of an answer is shown when it is the current one.                *)
LEMMA ReceiveKeeps ==
    ASSUME Page \in Nat, First \in Nat, PagingTypes, NEW h, PagedOK(h), NEW r \in requests,
           NEW page, AnswerOK(h, r.off, page), Paging!Receive(r, page),
           token' \in Nat, token' <= First + arrived
    PROVE  PagingInv'
  <1>1. /\ UNCHANGED <<account, box, arrived, gone, offset>> /\ requests' = requests \ {r}
        /\ pages' = [o \in DOMAIN pages \cup {r.off} |-> IF o = r.off THEN page ELSE pages[o]]
        /\ IF r.off # offset \/ (offset > 0 /\ page.rows = {}) THEN UNCHANGED <<stable, base, excuse>>
           ELSE Paging!Show(offset, page)
    BY DEF Paging!Receive
  <1>2. Gmail' = Gmail
    BY <1>1 DEF Gmail
  <1>3. /\ DOMAIN pages' = DOMAIN pages \cup {r.off} /\ pages'[r.off] = page
        /\ \A o \in DOMAIN pages : o # r.off => pages'[o] = pages[o]
    BY <1>1
  <1>4. r.off \in Nat /\ offset \in Nat /\ account.kind \in Paging!Kinds
    BY DEF PagingTypes
  <1>5. Current(h)'
    BY <1>1 DEF PagedOK, Current, Paging!Now
  <1>6. PagesOK(h)'
    <2>1. ASSUME NEW o, NEW p, AnswerOK(h, o, p) PROVE AnswerOK(h, o, p)'
      BY <1>2, <2>1 DEF AnswerOK
    <2>2. PagesOK(h)
      BY DEF PagedOK
    <2> QED BY <1>3, <1>4, <2>1, <2>2 DEF PagesOK
  <1>7. TokensOK'
    BY <1>1 DEF TokensOK, PagingTypes
  <1>8. ASSUME r.off # offset \/ (offset > 0 /\ page.rows = {}) PROVE ViewOK(h)'
    <2>1. UNCHANGED <<stable, base, excuse, offset>>
      BY <1>1, <1>8
    <2>2. Paging!Raw' # {} => Paging!Raw # {} /\ pages'[offset'] = pages[offset]
      BY <1>1, <1>3, <1>8 DEF Paging!Raw, Paging!Cached, Paging!Nothing
    <2>3. ShownOK(h)'
      BY <1>1, <1>2, <2>1, <2>2 DEF ShownOK, PagedOK
    <2> QED BY <1>1, <2>1, <2>3 DEF ViewOK, PagingTypes, PagedOK
  <1>9. ASSUME ~(r.off # offset \/ (offset > 0 /\ page.rows = {})) PROVE ViewOK(h)'
    <2>1. Paging!Show(offset, page) /\ r.off = offset /\ offset' = offset /\ pages'[offset'] = page
          /\ (offset > 0 => page.rows # {})
      BY <1>1, <1>3, <1>4, <1>9
    <2>2. ~excuse /\ ~Gmail => base.off <= offset /\ offset <= base.off + Page
      BY DEF PagedOK, ShownOK
    <2>3. UNCHANGED <<account, box, arrived, gone>>
      BY <1>1
    <2>4. /\ base' \in [off : Nat, at : Time] /\ stable' \in SUBSET (Nat \ {0})
          /\ \A c \in stable' : c <= First + arrived
          /\ excuse' \in BOOLEAN /\ base'.at \in DOMAIN h /\ ShownOK(h)'
      BY <1>4, <2>1, <2>2, <2>3, ShowKeeps
    <2> QED BY <1>1, <1>4, <2>4 DEF ViewOK
  <1>10. ViewOK(h)'
    BY <1>8, <1>9
  <1>11. PagingTypes'
    BY <1>1, <1>7, <1>10 DEF PagingTypes, TokensOK, ViewOK
  <1> QED BY <1>5, <1>6, <1>10, <1>11 DEF PagingInv, PagedOK, ViewOK

(* A positional or a Gmail page as the server lists it now.                  *)
LEMMA AnswerIsOK ==
    ASSUME Page \in Nat, First \in Nat, PagingTypes, NEW h, PagedOK(h), NEW r \in requests,
           NEW rows \in SUBSET Paging!Listed(r), NEW whole \in BOOLEAN,
           whole => rows = Paging!Listed(r), NEW page,
           page = [rows |-> rows, at |-> Paging!Now, from |-> r.from, whole |-> whole]
    PROVE  /\ AnswerOK(h, r.off, page)
           /\ Paging!Listed(r) \in SUBSET Nat /\ Paging!Listed(r) \in SUBSET box
  <1>1. /\ History(h) /\ Paging!Now \in DOMAIN h /\ h[Paging!Now] = box
        /\ Paging!Now.arrived = arrived
    BY DEF PagedOK, Current, Paging!Now
  <1>2. /\ box \in SUBSET Nat /\ IsFiniteSet(box) /\ Paging!Now \in Time
        /\ \A c \in box : c \in Nat \ {0} /\ c <= First + arrived
    BY <1>1, FolderIsFinite DEF History
  <1>3. r.off \in Nat /\ r.from \in Nat /\ r.from <= First + arrived
    BY DEF PagingTypes
  <1>4. Paging!Listed(r) = IF Gmail THEN Following(box, r.from) ELSE Positions(box, r.off)
    BY <1>2, ListedIs
  <1>5. Paging!Listed(r) \in SUBSET box
    BY <1>2, <1>3, <1>4, FollowingIs DEF Positions
  <1>6. rows \in SUBSET (Nat \ {0}) /\ IsFiniteSet(rows) /\ \A c \in rows : c <= First + arrived
    BY <1>2, <1>5, FS_Subset
  <1>7. /\ page.rows = rows /\ page.at = Paging!Now /\ page.from = r.from /\ page.whole = whole
        /\ page \in PageType
    BY <1>2, <1>3, <1>6 DEF PageType
  <1>8. AnswerOK(h, r.off, page)
    BY <1>1, <1>3, <1>4, <1>6, <1>7 DEF AnswerOK
  <1> QED BY <1>2, <1>5, <1>8

LEMMA AnswerKeeps ==
    ASSUME Page \in Nat, First \in Nat, PagingTypes, NEW h, PagedOK(h),
           NEW r \in requests, Paging!Answer(r)
    PROVE  PagingInv'
  <1>1. PICK missing \in Paging!MayMiss(Paging!Listed(r)) :
          /\ token' = IF account.kind = "gmail" THEN Paging!NextToken(Paging!Listed(r)) ELSE token
          /\ Paging!Receive(r, [rows |-> Paging!Listed(r) \ missing, at |-> Paging!Now,
                                from |-> r.from, whole |-> missing = {}])
    BY DEF Paging!Answer
  <1>2. PICK rows, whole : rows = Paging!Listed(r) \ missing /\ whole = (missing = {})
    OBVIOUS
  <1>3. PICK page : page = [rows |-> rows, at |-> Paging!Now, from |-> r.from, whole |-> whole]
    OBVIOUS
  <1>4. /\ rows \in SUBSET Paging!Listed(r) /\ whole \in BOOLEAN
        /\ whole => rows = Paging!Listed(r)
    BY <1>2
  <1>5. AnswerOK(h, r.off, page) /\ Paging!Listed(r) \in SUBSET Nat /\ Paging!Listed(r) \in SUBSET box
    BY <1>3, <1>4, AnswerIsOK
  <1>6. Paging!Receive(r, page)
    BY <1>1, <1>2, <1>3
  <1>7. token \in Nat /\ token <= First + arrived /\ arrived \in Nat
    BY DEF PagingTypes
  <1>8. \A c \in box : c \in Nat /\ c <= First + arrived
    <2>1. History(h) /\ Paging!Now \in DOMAIN h /\ h[Paging!Now] = box /\ Paging!Now.arrived = arrived
      BY DEF PagedOK, Current, Paging!Now
    <2> QED BY <2>1, FolderIsFinite
  <1>9. PICK all : all = Paging!Listed(r)
    OBVIOUS
  <1>10. Paging!NextToken(all) \in {0, Paging!Oldest(all)}
         /\ (Paging!NextToken(all) # 0 => all # {})
    BY DEF Paging!NextToken
  <1>11. all # {} => Paging!Oldest(all) \in all
    <2>1. all # {} => \E c \in all : \A d \in all : c <= d
      BY <1>5, <1>9, LeastExists
    <2> QED BY <2>1, Zenon DEF Paging!Oldest
  <1>12. Paging!NextToken(all) \in Nat /\ Paging!NextToken(all) <= First + arrived
    BY <1>5, <1>7, <1>8, <1>9, <1>10, <1>11
  <1>13. token' \in Nat /\ token' <= First + arrived
    BY <1>1, <1>7, <1>9, <1>12
  <1> QED BY <1>5, <1>6, <1>13, ReceiveKeeps

LEMMA OfflineKeeps ==
    ASSUME Page \in Nat, First \in Nat, PagingTypes, NEW h, PagedOK(h),
           NEW r \in requests, Paging!Offline(r)
    PROVE  PagingInv'
  <1>1. PICK rows : rows = {c \in 1..First : First - c \in r.off .. r.off + Page - 1}
    OBVIOUS
  <1>2. PICK page : page = [rows |-> rows, at |-> Paging!Now, from |-> 0, whole |-> FALSE]
    OBVIOUS
  <1>3. Paging!Receive(r, page) /\ token' = token
    BY <1>1, <1>2 DEF Paging!Offline
  <1>4. /\ Paging!Now \in DOMAIN h /\ Paging!Now \in Time /\ Paging!Now.arrived = arrived
        /\ arrived \in Nat
    BY DEF PagedOK, Current, History, Paging!Now, PagingTypes
  <1>5. IsFiniteSet(1..First)
    BY FS_Interval
  <1>6. IsFiniteSet(rows)
    BY <1>1, <1>5, FS_Subset
  <1>7. rows \in SUBSET (Nat \ {0}) /\ \A c \in rows : c <= First + arrived
    BY <1>1, <1>4
  <1>8. /\ page \in PageType /\ page.rows = rows /\ page.at = Paging!Now /\ page.from = 0
        /\ ~page.whole
    BY <1>2, <1>4, <1>7 DEF PageType
  <1>9. AnswerOK(h, r.off, page)
    BY <1>4, <1>6, <1>7, <1>8 DEF AnswerOK
  <1>10. token' \in Nat /\ token' <= First + arrived
    BY <1>3 DEF PagingTypes
  <1> QED BY <1>3, <1>9, <1>10, ReceiveKeeps

LEMMA PagingKeeps ==
    ASSUME Page \in Nat, First \in Nat, PagingInv, [Paging!Next]_(Paging!vars)
    PROVE  PagingInv'
  <1>1. PagingTypes
    BY DEF PagingInv
  <1>2. PICK h : PagedOK(h)
    BY DEF PagingInv
  <1>3. ViewOK(h)
    BY <1>1, <1>2 DEF PagingTypes, PagedOK, ViewOK
  <1>4. offset \in Nat /\ DOMAIN pages \subseteq Nat
    BY <1>1, <1>2 DEF PagingTypes, PagedOK, PagesOK
  <1>5. ASSUME UNCHANGED <<account, box, arrived, gone, pages, offset, stable, base, excuse>>
        PROVE  ViewOK(h)'
    <2>1. Paging!Raw' = Paging!Raw /\ Gmail' = Gmail
      BY <1>5 DEF Paging!Raw, Paging!Cached, Paging!Nothing, Gmail
    <2> QED BY <1>3, <1>5, <2>1 DEF ViewOK, ShownOK
  <1>6. CASE Paging!Poll
    <2>1. /\ UNCHANGED <<account, box, arrived, gone, pages>> /\ MayStart({offset})
          /\ UNCHANGED <<account, box, arrived, gone, pages, offset, stable, base, excuse>>
      BY <1>6 DEF Paging!Poll, MayStart
    <2>2. {offset} \in SUBSET Nat
      BY <1>4
    <2> QED BY <1>1, <1>2, <1>5, <2>1, <2>2, ViewKeeps, Zenon
  <1>7. CASE Paging!LoadMore
    BY <1>7, LoadKeeps
  <1>8. CASE Paging!Reload
    <2>1. UNCHANGED <<account, box, arrived, gone, pages>> /\ MayStart({0, offset}) /\ Paging!Reset
      BY <1>8 DEF Paging!Reload, MayStart
    <2>2. {0, offset} \in SUBSET Nat
      BY <1>4
    <2> QED BY <1>1, <1>2, <2>1, <2>2, ResetKeeps, Zenon
  <1>9. CASE Paging!Reselect
    <2>1. UNCHANGED <<account, box, arrived, gone, pages>> /\ MayStart({0}) /\ Paging!Reset
      BY <1>9 DEF Paging!Reselect, MayStart
    <2>2. {0} \in SUBSET Nat
      OBVIOUS
    <2> QED BY <1>1, <1>2, <2>1, <2>2, ResetKeeps, Zenon
  <1>10. CASE Paging!UnreadChanges
    <2>1. /\ UNCHANGED <<account, box, arrived, gone, pages>>
          /\ MayStart({offset} \cup DOMAIN pages)
          /\ Paging!Reset \/ UNCHANGED <<offset, stable, base, excuse>>
      BY <1>10 DEF Paging!UnreadChanges, MayStart
    <2>2. {offset} \cup DOMAIN pages \in SUBSET Nat
      BY <1>4
    <2>3. CASE Paging!Reset
      BY <1>1, <1>2, <2>1, <2>2, <2>3, ResetKeeps, Zenon
    <2>4. CASE UNCHANGED <<offset, stable, base, excuse>>
      <3>1. ViewOK(h)'
        BY <1>5, <2>1, <2>4
      <3> QED BY <1>1, <1>2, <2>1, <2>2, <3>1, ViewKeeps, Zenon
    <2> QED BY <2>1, <2>3, <2>4
  <1>11. ASSUME UNCHANGED <<account, box, arrived, gone, pages, offset, stable, base, excuse, token>>,
                \A r \in requests' : r \in requests
         PROVE  PagingInv'
    <2>1. ViewOK(h)' /\ Gmail' = Gmail
      BY <1>5, <1>11 DEF Gmail
    <2>2. Current(h)' /\ PagesOK(h)'
      BY <1>2, <1>11, <2>1 DEF PagedOK, Current, PagesOK, AnswerOK, Paging!Now
    <2>3. PagingTypes'
      BY <1>1, <1>11 DEF PagingTypes
    <2> QED BY <2>1, <2>2, <2>3 DEF PagingInv, PagedOK, ViewOK
  <1>12. CASE Paging!Count
    BY <1>11, <1>12 DEF Paging!Count
  <1>13. CASE Paging!Arrive \/ \E c \in box : Paging!Leave(c)
    BY <1>13, FolderChanges
  <1>14. ASSUME NEW r \in requests, Paging!Answer(r) \/ Paging!Fail(r) \/ Paging!Offline(r)
         PROVE  PagingInv'
    <2>1. CASE Paging!Answer(r)
      BY <1>1, <1>2, <2>1, AnswerKeeps
    <2>2. CASE Paging!Fail(r)
      <3>1. /\ UNCHANGED <<account, box, arrived, gone, pages, offset, stable, base, excuse, token>>
            /\ requests' = requests \ {r}
        BY <2>2 DEF Paging!Fail
      <3> QED BY <1>11, <3>1
    <2>3. CASE Paging!Offline(r)
      BY <1>1, <1>2, <2>3, OfflineKeeps
    <2> QED BY <1>14, <2>1, <2>2, <2>3
  <1>15. CASE UNCHANGED Paging!vars
    BY <1>11, <1>15 DEF Paging!vars
  <1> QED BY <1>6, <1>7, <1>8, <1>9, <1>10, <1>12, <1>13, <1>14, <1>15 DEF Paging!Next

LEMMA PagingShows == PagingInv => Paging!NoHoles
  BY DEF PagingInv, PagedOK, ShownOK, Whole, Paging!NoHoles

HIDE DEF account, box, arrived, gone, pages, offset, stable, requests, token, base, excuse

----------------------------------------------------------------------------
(* MailSearch: rows of any number, and searches that keep any number.        *)
Dated(rows) == \A r \in rows : r.date \in 1..Stored
Convs(rows) == {r.conv : r \in rows}
Later(rows, r) == {s \in rows : s.date > r.date}

LEMMA SearchCounts == \A s : Searching!Cardinality(s) = Cardinality(s)
  BY DEF Searching!Cardinality, Cardinality

LEMMA ByConv ==
    ASSUME NEW rows, NEW cs, IsFiniteSet(cs), \A r \in rows : r.conv \in cs,
           \A r, s \in rows : r.conv = s.conv => r = s
    PROVE  /\ IsFiniteSet(rows) /\ Cardinality(rows) <= Cardinality(cs)
           /\ Cardinality(rows) \in Nat /\ Cardinality(cs) \in Nat
  <1>1. PICK f : f = [r \in rows |-> r.conv]
    OBVIOUS
  <1>2. f \in Injection(rows, cs)
    BY <1>1 DEF Injection, IsInjective
  <1>3. IsFiniteSet(rows) /\ Cardinality(rows) <= Cardinality(cs)
    BY <1>2, FS_Injection, Zenon
  <1> QED BY <1>3, FS_CardinalityType

LEMMA ByDate ==
    ASSUME Stored \in Nat, NEW rows, Dated(rows), \A r, s \in rows : r.date = s.date => r = s
    PROVE  IsFiniteSet(rows)
  <1>1. PICK f : f = [r \in rows |-> r.date]
    OBVIOUS
  <1>2. f \in Injection(rows, 1..Stored)
    BY <1>1 DEF Injection, IsInjective, Dated
  <1>3. IsFiniteSet(1..Stored)
    BY FS_Interval
  <1> QED BY <1>2, <1>3, FS_Injection, Zenon

LEMMA ConvsOf ==
    ASSUME NEW rows, IsFiniteSet(rows)
    PROVE  /\ IsFiniteSet(Convs(rows)) /\ Cardinality(Convs(rows)) <= Cardinality(rows)
           /\ Cardinality(Convs(rows)) \in Nat /\ Cardinality(rows) \in Nat
  <1>1. PICK f : f = [r \in rows |-> r.conv]
    OBVIOUS
  <1>2. f \in Surjection(rows, Convs(rows))
    BY <1>1 DEF Surjection, Convs, Range
  <1>3. IsFiniteSet(Convs(rows)) /\ Cardinality(Convs(rows)) <= Cardinality(rows)
    BY <1>2, FS_Surjection, Zenon
  <1> QED BY <1>3, FS_CardinalityType

(* The conversations of messages.                                            *)
LEMMA ConvsOfMails ==
    ASSUME NEW ms, IsFiniteSet(ms)
    PROVE  IsFiniteSet({Searching!Conv(n) : n \in ms})
  <1>1. PICK f : f = [n \in ms |-> Searching!Conv(n)]
    OBVIOUS
  <1>2. f \in Surjection(ms, {Searching!Conv(n) : n \in ms})
    BY <1>1 DEF Surjection, Range
  <1> QED BY <1>2, FS_Surjection, Zenon

(* One row of each conversation, of its newest message.                      *)
LEMMA NewestIs ==
    ASSUME Stored \in Nat, NEW rows, Dated(rows)
    PROVE  /\ Searching!Newest(rows) \subseteq rows
           /\ \A r \in rows : \E s \in Searching!Newest(rows) : s.conv = r.conv /\ r.date <= s.date
           /\ \A s, t \in Searching!Newest(rows) : s.conv = t.conv => s = t
  <1> DEFINE Is(c, r) == r \in rows /\ r.conv = c /\ \A s \in rows : s.conv = c => s.date <= r.date
             Top(c) == CHOOSE r \in rows : r.conv = c /\ \A s \in rows : s.conv = c => s.date <= r.date
  <1>1. Searching!Newest(rows) = {Top(c) : c \in Convs(rows)}
    BY DEF Searching!Newest, Convs
  <1>2. ASSUME NEW c \in Convs(rows) PROVE \E r \in rows : Is(c, r)
    <2> DEFINE dates == {r.date : r \in {r \in rows : r.conv = c}}
    <2>1. dates # {} /\ dates \in SUBSET (1..Stored)
      BY DEF Convs, Dated
    <2>2. IsFiniteSet(1..Stored) /\ 1..Stored \in SUBSET Nat
      BY FS_Interval
    <2>3. PICK d \in dates : \A e \in dates : e <= d
      <3> HIDE DEF dates
      <3> QED BY <2>1, <2>2, Largest
    <2>4. PICK r \in rows : r.conv = c /\ r.date = d
      BY <2>3
    <2> QED BY <2>3, <2>4
  <1>3. ASSUME NEW c \in Convs(rows) PROVE Is(c, Top(c))
    BY <1>2, <1>3, Zenon
  <1>4. \A r \in rows : r.conv \in Convs(rows)
    BY DEF Convs
  <1>5. Searching!Newest(rows) \subseteq rows
    BY <1>1, <1>3
  <1>6. ASSUME NEW r \in rows
        PROVE  \E s \in Searching!Newest(rows) : s.conv = r.conv /\ r.date <= s.date
    <2>1. Top(r.conv) \in Searching!Newest(rows) /\ Is(r.conv, Top(r.conv))
      BY <1>1, <1>3, <1>4, Zenon
    <2> QED BY <2>1
  <1>7. ASSUME NEW s \in Searching!Newest(rows), NEW t \in Searching!Newest(rows), s.conv = t.conv
        PROVE  s = t
    <2>1. PICK c \in Convs(rows), d \in Convs(rows) : s = Top(c) /\ t = Top(d)
      BY <1>1
    <2>2. s.conv = c /\ t.conv = d
      BY <1>3, <2>1
    <2> QED BY <1>7, <2>1, <2>2
  <1> QED BY <1>5, <1>6, <1>7

(* A row is left out when the limit is reached by those after it.            *)
LEMMA LeftOut ==
    ASSUME NEW rows
    PROVE  /\ Searching!Sorted(rows) \subseteq rows
           /\ \A r \in rows : r \in Searching!Sorted(rows) <=> Cardinality(Later(rows, r)) < MaxFound
  BY SearchCounts DEF Searching!Sorted, Later

LEMMA SortedFits ==
    ASSUME Stored \in Nat, MaxFound \in Nat, NEW rows, Dated(rows),
           \A r, s \in rows : r.date = s.date => r = s
    PROVE  /\ IsFiniteSet(Searching!Sorted(rows)) /\ Cardinality(Searching!Sorted(rows)) <= MaxFound
           /\ Cardinality(Searching!Sorted(rows)) \in Nat
  <1>1. IsFiniteSet(rows)
    BY ByDate
  <1>2. PICK kept : kept = Searching!Sorted(rows)
    OBVIOUS
  <1>3. /\ kept \subseteq rows /\ IsFiniteSet(kept) /\ Cardinality(kept) \in Nat
        /\ \A r \in kept : Cardinality(Later(rows, r)) < MaxFound
    BY <1>1, <1>2, LeftOut, FS_Subset, FS_CardinalityType
  <1>4. CASE kept = {}
    BY <1>2, <1>3, <1>4, FS_EmptySet
  <1>5. CASE kept # {}
    <2>1. PICK dates : dates = {r.date : r \in kept}
      OBVIOUS
    <2>2. dates \in SUBSET Nat /\ dates # {}
      BY <1>3, <1>5, <2>1 DEF Dated
    <2>3. PICK d \in dates : \A e \in dates : d <= e
      BY <2>2, LeastExists
    <2>4. PICK r \in kept : r.date = d
      BY <2>1, <2>3
    <2>5. ASSUME NEW s \in kept, s # r PROVE s.date > r.date
      <3>1. s.date \in dates /\ s \in rows /\ r \in rows
        BY <1>3, <2>1, <2>4
      <3>2. s.date \in Nat /\ r.date \in Nat /\ r.date <= s.date
        BY <2>3, <2>4, <3>1 DEF Dated
      <3>3. s.date # r.date
        BY <2>5, <3>1, Zenon
      <3> QED BY <3>2, <3>3
    <2>6. kept \ {r} \subseteq Later(rows, r)
      BY <1>3, <2>5 DEF Later
    <2>7. IsFiniteSet(Later(rows, r)) /\ Cardinality(Later(rows, r)) \in Nat
      BY <1>1, FS_Subset, FS_CardinalityType DEF Later
    <2>8. Cardinality(kept \ {r}) <= Cardinality(Later(rows, r))
      BY <2>6, <2>7, FS_Subset, Zenon
    <2>9. Cardinality(kept \ {r}) = Cardinality(kept) - 1
      BY <1>3, FS_RemoveElement
    <2> QED BY <1>2, <1>3, <2>7, <2>8, <2>9
  <1> QED BY <1>4, <1>5

LEMMA SortedIsAll ==
    ASSUME Stored \in Nat, MaxFound \in Nat, NEW rows, Dated(rows), IsFiniteSet(rows),
           Cardinality(rows) <= MaxFound
    PROVE  Searching!Sorted(rows) = rows
  <1>1. ASSUME NEW r \in rows PROVE Cardinality(Later(rows, r)) < MaxFound
    <2>1. Later(rows, r) \subseteq rows \ {r}
      BY DEF Later, Dated
    <2>2. IsFiniteSet(rows \ {r}) /\ Cardinality(rows \ {r}) = Cardinality(rows) - 1
      BY FS_RemoveElement
    <2>3. Cardinality(Later(rows, r)) <= Cardinality(rows \ {r}) /\ IsFiniteSet(Later(rows, r))
      BY <2>1, <2>2, FS_Subset, Zenon
    <2>4. Cardinality(Later(rows, r)) \in Nat /\ Cardinality(rows) \in Nat
      BY <2>3, FS_CardinalityType
    <2> QED BY <2>2, <2>3, <2>4
  <1> QED BY <1>1, LeftOut

(* What was there is past the limit of a search that does not find it.       *)
Passed(m, near) ==
  MaxFound <= Cardinality({Searching!Conv(n) : n \in {n \in near : n > m}} \ {Searching!Conv(m)})
Finds(rows, m) == \E r \in rows : r.conv = Searching!Conv(m) /\ m <= r.date
OfMails(rows) == \A r \in rows : r.conv = Searching!Conv(r.date)

LEMMA PassedGrows ==
    ASSUME Stored \in Nat, MaxFound \in Nat, NEW m, NEW more \in SUBSET (1..Stored),
           NEW near \in SUBSET more, Passed(m, near)
    PROVE  Passed(m, more)
  <1> DEFINE over(s) == {Searching!Conv(n) : n \in {n \in s : n > m}} \ {Searching!Conv(m)}
  <1>1. IsFiniteSet(1..Stored)
    BY FS_Interval
  <1>2. IsFiniteSet({n \in more : n > m})
    BY <1>1, FS_Subset
  <1>3. IsFiniteSet(over(more))
    BY <1>2, ConvsOfMails, FS_Subset
  <1>4. over(near) \subseteq over(more)
    OBVIOUS
  <1>5. /\ Cardinality(over(near)) <= Cardinality(over(more)) /\ Cardinality(over(more)) \in Nat
        /\ Cardinality(over(near)) \in Nat
    <2> HIDE DEF over
    <2> QED BY <1>3, <1>4, FS_Subset, FS_CardinalityType
  <1>6. MaxFound <= Cardinality(over(near))
    BY DEF Passed
  <1>7. MaxFound <= Cardinality(over(more))
    <2> HIDE DEF over
    <2> QED BY <1>5, <1>6
  <1> QED BY <1>7 DEF Passed

(* The rows that are kept show a message, or the limit is reached.           *)
LEMMA KeptShows ==
    ASSUME Stored \in Nat, MaxFound \in Nat, NEW rows, NEW near \in SUBSET (1..Stored),
           OfMails(rows), \A r \in rows : r.date \in near, NEW m \in 1..Stored, Finds(rows, m)
    PROVE  Finds(Searching!Kept(rows), m) \/ Passed(m, near)
  <1> DEFINE all == Searching!Newest(rows)
             over == {Searching!Conv(n) : n \in {n \in near : n > m}} \ {Searching!Conv(m)}
  <1>1. Dated(rows)
    BY DEF Dated
  <1>2. /\ all \subseteq rows /\ \A s, t \in all : s.conv = t.conv => s = t
        /\ \A r \in rows : \E s \in all : s.conv = r.conv /\ r.date <= s.date
    BY <1>1, NewestIs
  <1> HIDE DEF all
  <1>3. PICK r \in rows : r.conv = Searching!Conv(m) /\ m <= r.date
    BY DEF Finds
  <1>4. PICK s \in all : s.conv = Searching!Conv(m) /\ r.date <= s.date
    BY <1>2, <1>3
  <1>5. m <= s.date /\ s.date \in Nat /\ m \in Nat
    BY <1>1, <1>2, <1>3, <1>4 DEF Dated
  <1>6. Searching!Kept(rows) = Searching!Sorted(all)
    BY DEF Searching!Kept, all
  <1>7. CASE s \in Searching!Sorted(all)
    BY <1>4, <1>5, <1>6, <1>7 DEF Finds
  <1>8. CASE s \notin Searching!Sorted(all)
    <2>1. IsFiniteSet(over)
      <3>1. IsFiniteSet(1..Stored)
        BY FS_Interval
      <3>2. IsFiniteSet({n \in near : n > m})
        BY <3>1, FS_Subset
      <3> QED BY <3>2, ConvsOfMails, FS_Subset
    <2>2. ASSUME NEW t \in Later(all, s) PROVE t.conv \in over
      <3>1. t \in all /\ t.date > s.date /\ t.date \in near /\ t.conv = Searching!Conv(t.date)
        BY <1>2 DEF Later, OfMails
      <3>2. t.date \in Nat /\ t.date > m
        <4>1. t.date \in 1..Stored
          BY <3>1
        <4> QED BY <1>5, <3>1, <4>1
      <3>3. t.conv # Searching!Conv(m)
        <4>1. ASSUME t = s PROVE FALSE
          <5>1. s.date > s.date
            BY <3>1, <4>1
          <5> QED BY <1>5, <5>1
        <4> QED BY <1>2, <1>4, <3>1, <4>1, Zenon
      <3> QED BY <3>1, <3>2, <3>3
    <2>3. \A t, u \in Later(all, s) : t.conv = u.conv => t = u
      BY <1>2 DEF Later
    <2>4. /\ Cardinality(Later(all, s)) <= Cardinality(over)
          /\ Cardinality(Later(all, s)) \in Nat /\ Cardinality(over) \in Nat
      <3> HIDE DEF over
      <3> QED BY <2>1, <2>2, <2>3, ByConv
    <2>5. ~ (Cardinality(Later(all, s)) < MaxFound)
      BY <1>8, LeftOut
    <2>6. MaxFound <= Cardinality(over)
      <3> HIDE DEF over
      <3> QED BY <2>4, <2>5
    <2> QED BY <2>6 DEF Passed
  <1> QED BY <1>7, <1>8

(* Few conversations are all kept.                                           *)
LEMMA FewAreKept ==
    ASSUME Stored \in Nat, MaxFound \in Nat, NEW rows, Dated(rows), IsFiniteSet(Convs(rows)),
           Cardinality(Convs(rows)) <= MaxFound
    PROVE  /\ \A r \in rows : \E s \in Searching!Kept(rows) : s.conv = r.conv /\ r.date <= s.date
           /\ Searching!Kept(rows) \subseteq rows
  <1> DEFINE all == Searching!Newest(rows)
  <1>1. /\ all \subseteq rows /\ \A s, t \in all : s.conv = t.conv => s = t
        /\ \A r \in rows : \E s \in all : s.conv = r.conv /\ r.date <= s.date
    BY NewestIs
  <1>2. Searching!Kept(rows) = Searching!Sorted(all)
    BY DEF Searching!Kept
  <1> HIDE DEF all
  <1>3. Dated(all) /\ \A r \in all : r.conv \in Convs(rows)
    BY <1>1 DEF Dated, Convs
  <1>4. /\ IsFiniteSet(all) /\ Cardinality(all) <= Cardinality(Convs(rows))
        /\ Cardinality(all) \in Nat /\ Cardinality(Convs(rows)) \in Nat
    BY <1>1, <1>3, ByConv
  <1>5. Cardinality(all) <= MaxFound
    BY <1>4
  <1>6. Searching!Sorted(all) = all
    BY <1>3, <1>4, <1>5, SortedIsAll
  <1> QED BY <1>1, <1>2, <1>6

LEMMA KeptAreRows ==
    ASSUME Stored \in Nat, NEW rows, Dated(rows)
    PROVE  Searching!Kept(rows) \subseteq rows
  BY NewestIs, LeftOut, Zenon DEF Searching!Kept

(* The variables of MailSearch by their own names, but for its place.        *)
placed == v1
query == v2
search == v3
found == v4
USE DEF placed, query, search, found

Row(q) == [conv : Nat, date : 1..Stored, in : Searching!Scope(q)]
SearchType(q) == [stage : {"idle", "asked", "reading"},
                  todo : SUBSET (Searching!Folders \cup Row(q)), rows : SUBSET Row(q),
                  sure : SUBSET (1..Stored), near : SUBSET (1..Stored)]
Lies(a, fs) == {m \in 1..Stored : placed[a][m] \in fs}

(* Exchange: a message that stayed is in a folder still to be read, or read. *)
EwsOK(q, s) ==
  /\ s.stage = "reading" /\ s.todo \subseteq Searching!Scope(q) /\ Lies("ews", s.todo) \subseteq s.near
  /\ OfMails(s.rows) /\ \A r \in s.rows : r.date \in s.near
  /\ \A m \in s.sure : placed["ews"][m] \in s.todo \/ Finds(s.rows, m)
(* JMAP and Gmail before their list: nothing was read.                       *)
AskedOK(a, q, s) ==
  /\ s.stage = "asked" /\ s.todo = {} /\ s.rows = {}
  /\ s.sure \subseteq Lies(a, Searching!Scope(q)) /\ Lies(a, Searching!Scope(q)) \subseteq s.near
(* Gmail after its list: no more conversations than the limit are read.      *)
ReadingOK(q, s) ==
  /\ s.stage = "reading" /\ s.todo \subseteq Row(q)
  /\ s.sure \subseteq Lies("gmail", Searching!Scope(q))
  /\ IsFiniteSet(Convs(s.todo \cup s.rows)) /\ Cardinality(Convs(s.todo \cup s.rows)) <= MaxFound
  /\ \A m \in s.sure : \/ \E r \in s.todo : r.conv = Searching!Conv(m)
                       \/ Finds(s.rows, m) \/ Passed(m, s.near)
SearchOK(a, q, s) ==
  /\ s \in SearchType(q)
  /\ s.stage # "idle" => CASE a = "ews" -> EwsOK(q, s)
                           [] a = "jmap" -> AskedOK(a, q, s)
                           [] a = "gmail" -> AskedOK(a, q, s) \/ ReadingOK(q, s)

Missed(a, m, near) ==
  LET newer == {n \in near : n > m} IN
  MaxFound <= Cardinality(IF a = "jmap" THEN newer
                          ELSE {Searching!Conv(n) : n \in newer} \ {Searching!Conv(m)})
FoundOK(a, q, result) ==
  /\ result.rows \subseteq Row(q)
  /\ \A m \in result.sure : (\E r \in result.rows : r.conv = Searching!Conv(m) /\ r.date >= m)
                            \/ Missed(a, m, result.near)

(* What was found by the rows of a search.                                   *)
Result(rows, s) == [rows |-> Searching!Kept(rows), sure |-> s.sure, near |-> s.near]

SearchingInv ==
  /\ placed = [a \in Searching!Accounts |-> [m \in 1..Stored |-> placed[a][m]]]
  /\ search = [a \in Searching!Accounts |-> [q \in Searching!Queries |-> search[a][q]]]
  /\ found = [a \in Searching!Accounts |-> [q \in Searching!Queries |-> found[a][q]]]
  /\ query \in Searching!Queries
  /\ \A a \in Searching!Accounts, q \in Searching!Queries :
       SearchOK(a, q, search[a][q]) /\ FoundOK(a, q, found[a][q])

LEMMA SearchStarts ==
    ASSUME Stored \in Nat, Searching!Init
    PROVE  SearchingInv
  <1>1. PICK p \in [1..Stored -> Searching!Folders] :
          placed = [a \in Searching!Accounts |-> [p EXCEPT ![1] = "trash", ![Stored] = "none"]]
    BY DEF Searching!Init, Searching!Mails
  <1>2. /\ query = "any"
        /\ search = [a \in Searching!Accounts |-> [q \in Searching!Queries |-> Searching!Idle]]
        /\ found = [a \in Searching!Accounts |-> [q \in Searching!Queries |-> Searching!Nothing]]
    BY DEF Searching!Init
  <1>3. placed = [a \in Searching!Accounts |-> [m \in 1..Stored |-> placed[a][m]]]
    BY <1>1
  <1>4. \A a \in Searching!Accounts, q \in Searching!Queries :
          search[a][q] = Searching!Idle /\ found[a][q] = Searching!Nothing
    BY <1>2
  <1>5. \A a, q : SearchOK(a, q, Searching!Idle) /\ FoundOK(a, q, Searching!Nothing)
    BY DEF SearchOK, SearchType, FoundOK, Searching!Idle, Searching!Nothing
  <1>6. search = [a \in Searching!Accounts |-> [q \in Searching!Queries |-> search[a][q]]]
    BY <1>2
  <1>7. found = [a \in Searching!Accounts |-> [q \in Searching!Queries |-> found[a][q]]]
    BY <1>2
  <1>8. query \in Searching!Queries
    BY <1>2 DEF Searching!Queries
  <1> QED BY <1>3, <1>4, <1>5, <1>6, <1>7, <1>8 DEF SearchingInv

LEMMA MatchingIs ==
    ASSUME Stored \in Nat, NEW a, NEW q
    PROVE  /\ Searching!Matching(a, q) \subseteq Row(q) /\ OfMails(Searching!Matching(a, q))
           /\ \A r \in Searching!Matching(a, q) :
                r.date \in Lies(a, Searching!Scope(q)) /\ r.in = placed[a][r.date]
           /\ \A m \in Lies(a, Searching!Scope(q)) : \E r \in Searching!Matching(a, q) :
                r.conv = Searching!Conv(m) /\ r.date = m
           /\ \A r, s \in Searching!Matching(a, q) : r.date = s.date => r = s
           /\ Dated(Searching!Matching(a, q))
  <1> DEFINE row(m) == [conv |-> Searching!Conv(m), date |-> m, in |-> placed[a][m]]
  <1>1. Searching!Matching(a, q) = {row(m) : m \in Lies(a, Searching!Scope(q))}
    BY DEF Searching!Matching, Searching!In, Searching!Mails, Lies
  <1>2. \A m \in Lies(a, Searching!Scope(q)) :
          /\ m \in 1..Stored /\ placed[a][m] \in Searching!Scope(q) /\ Searching!Conv(m) \in Nat
    BY DEF Lies, Searching!Conv
  <1>3. ASSUME NEW m \in Lies(a, Searching!Scope(q))
        PROVE  /\ row(m) \in Row(q) /\ row(m).conv = Searching!Conv(m) /\ row(m).date = m
               /\ row(m).in = placed[a][m]
    BY <1>2 DEF Row
  <1> HIDE DEF row
  <1>4. \A r \in Searching!Matching(a, q) : \E m \in Lies(a, Searching!Scope(q)) : r = row(m)
    BY <1>1
  <1>5. Searching!Matching(a, q) \subseteq Row(q) /\ OfMails(Searching!Matching(a, q))
    BY <1>3, <1>4 DEF OfMails
  <1>6. Dated(Searching!Matching(a, q))
    BY <1>2, <1>3, <1>4 DEF Dated
  <1>7. \A m \in Lies(a, Searching!Scope(q)) : row(m) \in Searching!Matching(a, q)
    BY <1>1
  <1>8. \A r, s \in Searching!Matching(a, q) : r.date = s.date => r = s
    BY <1>3, <1>4
  <1>9. \A r \in Searching!Matching(a, q) :
          r.date \in Lies(a, Searching!Scope(q)) /\ r.in = placed[a][r.date]
    BY <1>3, <1>4
  <1>10. \A m \in Lies(a, Searching!Scope(q)) : \E r \in Searching!Matching(a, q) :
           r.conv = Searching!Conv(m) /\ r.date = m
    BY <1>3, <1>7
  <1> QED BY <1>5, <1>6, <1>8, <1>9, <1>10

(* Every folder of Exchange has answered.                                    *)
LEMMA EwsFinds ==
    ASSUME Stored \in Nat, MaxFound \in Nat, NEW q, NEW s \in SearchType(q), EwsOK(q, s), s.todo = {}
    PROVE  FoundOK("ews", q, Result(s.rows, s))
  <1>1. /\ s.rows \subseteq Row(q) /\ s.near \in SUBSET (1..Stored) /\ s.sure \in SUBSET (1..Stored)
        /\ Dated(s.rows)
    BY DEF SearchType, Row, Dated
  <1>2. Searching!Kept(s.rows) \subseteq s.rows
    BY <1>1, KeptAreRows
  <1>3. ASSUME NEW m \in s.sure PROVE Finds(Searching!Kept(s.rows), m) \/ Passed(m, s.near)
    <2>1. Finds(s.rows, m) /\ OfMails(s.rows) /\ \A r \in s.rows : r.date \in s.near
      BY DEF EwsOK
    <2> QED BY <1>1, <2>1, KeptShows
  <1>4. \A m \in s.sure : Finds(Searching!Kept(s.rows), m)
                            => \E r \in Searching!Kept(s.rows) : r.conv = Searching!Conv(m) /\ r.date >= m
    BY <1>1, <1>2 DEF Finds, Dated
  <1>5. \A m \in s.sure : Passed(m, s.near) => Missed("ews", m, s.near)
    BY DEF Passed, Missed
  <1> QED BY <1>1, <1>2, <1>3, <1>4, <1>5 DEF FoundOK, Result

(* Gmail has read what it listed.                                            *)
LEMMA GmailFinds ==
    ASSUME Stored \in Nat, MaxFound \in Nat, NEW q, NEW s \in SearchType(q), ReadingOK(q, s),
           s.todo = {}
    PROVE  FoundOK("gmail", q, Result(s.rows, s))
  <1>1. /\ s.rows \subseteq Row(q) /\ s.near \in SUBSET (1..Stored) /\ s.sure \in SUBSET (1..Stored)
        /\ Dated(s.rows)
    BY DEF SearchType, Row, Dated
  <1>2. s.todo \cup s.rows = s.rows
    OBVIOUS
  <1>3. IsFiniteSet(Convs(s.rows)) /\ Cardinality(Convs(s.rows)) <= MaxFound
    BY <1>2 DEF ReadingOK
  <1>4. /\ \A r \in s.rows : \E t \in Searching!Kept(s.rows) : t.conv = r.conv /\ r.date <= t.date
        /\ Searching!Kept(s.rows) \subseteq s.rows
    BY <1>1, <1>3, FewAreKept
  <1>5. ASSUME NEW m \in s.sure, Finds(s.rows, m)
        PROVE  \E r \in Searching!Kept(s.rows) : r.conv = Searching!Conv(m) /\ r.date >= m
    <2>1. PICK r \in s.rows : r.conv = Searching!Conv(m) /\ m <= r.date
      BY <1>5 DEF Finds
    <2>2. PICK t \in Searching!Kept(s.rows) : t.conv = r.conv /\ r.date <= t.date
      BY <1>4
    <2>3. m \in Nat /\ r.date \in Nat /\ t.date \in Nat
      BY <1>1, <1>4 DEF Dated
    <2> QED BY <2>1, <2>2, <2>3
  <1>6. \A m \in s.sure : Finds(s.rows, m) \/ Passed(m, s.near)
    BY DEF ReadingOK
  <1>7. \A m \in s.sure : Passed(m, s.near) => Missed("gmail", m, s.near)
    BY DEF Passed, Missed
  <1> QED BY <1>1, <1>4, <1>5, <1>6, <1>7 DEF FoundOK, Result

(* JMAP answers with its newest messages.                                    *)
LEMMA JmapFinds ==
    ASSUME Stored \in Nat, MaxFound \in Nat, NEW q, NEW s \in SearchType(q), AskedOK("jmap", q, s)
    PROVE  FoundOK("jmap", q, Result(Searching!Sorted(Searching!Matching("jmap", q)), s))
  <1>1. PICK all, rows : all = Searching!Matching("jmap", q) /\ rows = Searching!Sorted(all)
    OBVIOUS
  <1>2. /\ all \subseteq Row(q) /\ Dated(all) /\ \A r, t \in all : r.date = t.date => r = t
        /\ \A r \in all : r.date \in Lies("jmap", Searching!Scope(q))
        /\ \A m \in Lies("jmap", Searching!Scope(q)) : \E r \in all :
             r.conv = Searching!Conv(m) /\ r.date = m
    BY <1>1, MatchingIs
  <1>3. /\ s.near \in SUBSET (1..Stored) /\ s.sure \subseteq Lies("jmap", Searching!Scope(q))
        /\ Lies("jmap", Searching!Scope(q)) \subseteq s.near
    BY DEF AskedOK, SearchType
  <1>4. /\ rows \subseteq all
        /\ \A r \in all : r \in rows <=> Cardinality(Later(all, r)) < MaxFound
    BY <1>1, LeftOut
  <1>5. Dated(rows)
    BY <1>2, <1>4 DEF Dated
  <1>6. IsFiniteSet(rows) /\ Cardinality(rows) <= MaxFound /\ Cardinality(rows) \in Nat
    BY <1>1, <1>2, SortedFits
  <1>7. IsFiniteSet(Convs(rows)) /\ Cardinality(Convs(rows)) <= MaxFound
    BY <1>6, ConvsOf
  <1>8. /\ \A r \in rows : \E t \in Searching!Kept(rows) : t.conv = r.conv /\ r.date <= t.date
        /\ Searching!Kept(rows) \subseteq rows
    BY <1>5, <1>7, FewAreKept
  <1>9. ASSUME NEW m \in s.sure
        PROVE  \/ \E r \in Searching!Kept(rows) : r.conv = Searching!Conv(m) /\ r.date >= m
               \/ Missed("jmap", m, s.near)
    <2>1. PICK r \in all : r.conv = Searching!Conv(m) /\ r.date = m
      BY <1>2, <1>3
    <2>2. CASE r \in rows
      <3>1. PICK t \in Searching!Kept(rows) : t.conv = r.conv /\ r.date <= t.date
        BY <1>8, <2>2
      <3>2. r.date \in Nat /\ t.date \in Nat
        BY <1>5, <1>8, <2>2 DEF Dated
      <3> QED BY <2>1, <3>1, <3>2
    <2>3. CASE r \notin rows
      <3>1. PICK newer : newer = {n \in s.near : n > m}
        OBVIOUS
      <3>2. IsFiniteSet(newer)
        <4>1. IsFiniteSet(1..Stored)
          BY FS_Interval
        <4> QED BY <1>3, <3>1, <4>1, FS_Subset
      <3>3. PICK f : f = [t \in Later(all, r) |-> t.date]
        OBVIOUS
      <3>4. \A t \in Later(all, r) : t.date \in newer
        BY <1>2, <1>3, <2>1, <3>1 DEF Later
      <3>5. f \in Injection(Later(all, r), newer)
        BY <1>2, <3>3, <3>4 DEF Injection, IsInjective, Later
      <3>6. /\ Cardinality(Later(all, r)) <= Cardinality(newer)
            /\ Cardinality(Later(all, r)) \in Nat /\ Cardinality(newer) \in Nat
        BY <3>2, <3>5, FS_Injection, FS_CardinalityType
      <3>7. ~ (Cardinality(Later(all, r)) < MaxFound)
        BY <1>4, <2>3
      <3> QED BY <3>1, <3>6, <3>7 DEF Missed
    <2> QED BY <2>2, <2>3
  <1>10. Searching!Kept(rows) \subseteq Row(q)
    BY <1>2, <1>4, <1>8
  <1>11. PICK result : result = Result(rows, s)
    OBVIOUS
  <1>12. result.rows = Searching!Kept(rows) /\ result.sure = s.sure /\ result.near = s.near
    BY <1>11 DEF Result
  <1>13. FoundOK("jmap", q, result)
    BY <1>9, <1>10, <1>12 DEF FoundOK
  <1> QED BY <1>1, <1>11, <1>13

Table(f, as, qs) == f = [b \in as |-> [p \in qs |-> f[b][p]]]
Updated(f, g, a, q, t) == g = [f EXCEPT ![a][q] = t]

LEMMA OneIsUpdated ==
    ASSUME NEW as, NEW qs, NEW f, Table(f, as, qs), NEW a \in as, NEW q \in qs, NEW t, NEW g,
           Updated(f, g, a, q, t)
    PROVE  /\ Table(g, as, qs) /\ g[a][q] = t
           /\ \A b \in as, p \in qs : b # a \/ p # q => g[b][p] = f[b][p]
  <1> USE DEF Table, Updated
  <1>1. DOMAIN f = as /\ \A b \in as : f[b] = [p \in qs |-> f[b][p]]
    BY Zenon
  <1>2. PICK row : row = [f[a] EXCEPT ![q] = t]
    OBVIOUS
  <1>3. g = [f EXCEPT ![a] = row]
    BY <1>2
  <1>4. g[a] = row /\ \A b \in as : b # a => g[b] = f[b]
    BY <1>1, <1>3
  <1>5. /\ row = [p \in qs |-> row[p]] /\ row[q] = t /\ \A p \in qs : p # q => row[p] = f[a][p]
    BY <1>1, <1>2
  <1>6. \A b \in as : g[b] = [p \in qs |-> g[b][p]]
    BY <1>1, <1>4, <1>5
  <1>7. g = [b \in as |-> g[b]]
    BY <1>1, <1>3
  <1>8. g = [b \in as |-> [p \in qs |-> g[b][p]]]
    BY <1>6, <1>7
  <1> QED BY <1>4, <1>5, <1>8

(* One search changes, and what it found or not.                             *)
LEMMA SearchChanges ==
    ASSUME SearchingInv, NEW a \in Searching!Accounts, NEW q \in Searching!Queries, NEW then, NEW result,
           SearchOK(a, q, then), FoundOK(a, q, result), UNCHANGED <<placed, query>>,
           Updated(search, search', a, q, then),
           found' = found \/ Updated(found, found', a, q, result)
    PROVE  SearchingInv'
  <1>0. a \in Searching!Accounts /\ q \in Searching!Queries
    OBVIOUS
  <1>1. /\ search = [b \in Searching!Accounts |-> [p \in Searching!Queries |-> search[b][p]]]
        /\ found = [b \in Searching!Accounts |-> [p \in Searching!Queries |-> found[b][p]]]
        /\ \A b \in Searching!Accounts, p \in Searching!Queries :
             SearchOK(b, p, search[b][p]) /\ FoundOK(b, p, found[b][p])
    BY DEF SearchingInv
  <1>2. ASSUME NEW b, NEW p, NEW u, SearchOK(b, p, u) PROVE SearchOK(b, p, u)'
    BY <1>2 DEF SearchOK, EwsOK, AskedOK, ReadingOK, Lies
  <1>3. /\ search' = [b \in Searching!Accounts |-> [p \in Searching!Queries |-> search'[b][p]]]
        /\ search'[a][q] = then
        /\ \A b \in Searching!Accounts, p \in Searching!Queries :
             b # a \/ p # q => search'[b][p] = search[b][p]
    <2>1. search = [b \in Searching!Accounts |-> [p \in Searching!Queries |-> search[b][p]]]
      BY <1>1
    <2>2. /\ Table(search, Searching!Accounts, Searching!Queries)
          /\ Updated(search, search', a, q, then)
      BY <2>1, Zenon DEF Table
    <2>3. /\ Table(search', Searching!Accounts, Searching!Queries) /\ search'[a][q] = then
          /\ \A b \in Searching!Accounts, p \in Searching!Queries :
               b # a \/ p # q => search'[b][p] = search[b][p]
      BY <1>0, <2>2, OneIsUpdated
    <2> QED BY <2>3 DEF Table
  <1>4. /\ found' = [b \in Searching!Accounts |-> [p \in Searching!Queries |-> found'[b][p]]]
        /\ found'[a][q] \in {found[a][q], result}
        /\ \A b \in Searching!Accounts, p \in Searching!Queries :
             b # a \/ p # q => found'[b][p] = found[b][p]
    <2>1. CASE found' = found
      BY <1>1, <2>1
    <2>2. CASE Updated(found, found', a, q, result)
      <3>1. found = [b \in Searching!Accounts |-> [p \in Searching!Queries |-> found[b][p]]]
        BY <1>1
      <3>2. /\ Table(found, Searching!Accounts, Searching!Queries)
            /\ Updated(found, found', a, q, result)
        BY <2>2, <3>1, Zenon DEF Table
      <3>3. /\ Table(found', Searching!Accounts, Searching!Queries) /\ found'[a][q] = result
            /\ \A b \in Searching!Accounts, p \in Searching!Queries :
                 b # a \/ p # q => found'[b][p] = found[b][p]
        BY <1>0, <3>2, OneIsUpdated
      <3> QED BY <3>3 DEF Table
    <2> QED BY <2>1, <2>2
  <1>5. ASSUME NEW b \in Searching!Accounts, NEW p \in Searching!Queries
        PROVE  SearchOK(b, p, search[b][p])' /\ FoundOK(b, p, found[b][p])'
    <2>1. PICK t1, r1 : t1 = search'[b][p] /\ r1 = found'[b][p]
      OBVIOUS
    <2>2. SearchOK(b, p, t1) /\ FoundOK(b, p, r1)
      <3>1. CASE b = a /\ p = q
        BY <1>1, <1>3, <1>4, <2>1, <3>1
      <3>2. CASE b # a \/ p # q
        BY <1>1, <1>3, <1>4, <2>1, <3>2
      <3> QED BY <3>1, <3>2
    <2>3. SearchOK(b, p, t1)'
      BY <1>2, <2>2
    <2> QED BY <2>1, <2>2, <2>3
  <1>6. query' \in Searching!Queries
    BY DEF SearchingInv
  <1>7. placed' = [b \in Searching!Accounts |-> [m \in 1..Stored |-> placed'[b][m]]]
    BY DEF SearchingInv
  <1> QED BY <1>3, <1>4, <1>5, <1>6, <1>7 DEF SearchingInv

(* A search goes on, or leaves what it found.                                *)
LEMMA SearchGoesOn ==
    ASSUME SearchingInv, NEW a \in Searching!Accounts, NEW q \in Searching!Queries, NEW s,
           Searching!Step(a, q, s), UNCHANGED <<placed, query>>,
           s.todo # {} => SearchOK(a, q, s), s.todo = {} => FoundOK(a, q, Result(s.rows, s))
    PROVE  SearchingInv'
  <1>1. FoundOK(a, q, found[a][q])
    BY DEF SearchingInv
  <1>2. SearchOK(a, q, Searching!Idle)
    BY DEF SearchOK, SearchType, Searching!Idle
  <1>3. CASE s.todo # {}
    <2>1. Updated(search, search', a, q, s) /\ found' = found
      BY <1>3 DEF Searching!Step, Updated
    <2> QED BY <1>1, <1>3, <2>1, SearchChanges
  <1>4. CASE s.todo = {}
    <2>1. /\ Updated(search, search', a, q, Searching!Idle)
          /\ Updated(found, found', a, q, Result(s.rows, s))
      BY <1>4 DEF Searching!Step, Searching!Key, Result, Updated
    <2> QED BY <1>2, <1>4, <2>1, SearchChanges
  <1> QED BY <1>3, <1>4

LEMMA SearchesAre ==
    ASSUME SearchingInv, NEW a \in Searching!Accounts, NEW q \in Searching!Queries
    PROVE  /\ SearchOK(a, q, search[a][q]) /\ FoundOK(a, q, found[a][q])
           /\ search[a][q] \in SearchType(q)
  BY DEF SearchingInv, SearchOK

(* A search starts.                                                          *)
LEMMA SearchBegins ==
    ASSUME Stored \in Nat, SearchingInv, NEW a \in Searching!Accounts, Searching!Start(a)
    PROVE  SearchingInv'
  <1>1. query \in Searching!Queries
    BY DEF SearchingInv
  <1>2. PICK known \in {Searching!Folders, Searching!WellKnown} :
          /\ known = Searching!WellKnown => a = "ews" /\ query = "any"
          /\ search' = [search EXCEPT ![a][query] =
               [stage |-> IF a = "ews" THEN "reading" ELSE "asked",
                todo |-> IF a = "ews" THEN Searching!Scope(query) \cap known ELSE {}, rows |-> {},
                sure |-> Searching!In(a, Searching!Scope(query) \cap known),
                near |-> Searching!In(a, Searching!Scope(query) \cap known)]]
    BY DEF Searching!Start
  <1>3. UNCHANGED <<placed, query, found>>
    BY DEF Searching!Start
  <1>4. PICK there : there = Searching!Scope(query) \cap known
    OBVIOUS
  <1>5. PICK s : s = [stage |-> IF a = "ews" THEN "reading" ELSE "asked",
                      todo |-> IF a = "ews" THEN there ELSE {}, rows |-> {},
                      sure |-> Lies(a, there), near |-> Lies(a, there)]
    OBVIOUS
  <1>6. Updated(search, search', a, query, s)
    BY <1>2, <1>4, <1>5 DEF Updated, Lies, Searching!In, Searching!Mails
  <1>7. /\ s.stage = (IF a = "ews" THEN "reading" ELSE "asked")
        /\ s.todo = (IF a = "ews" THEN there ELSE {}) /\ s.rows = {}
        /\ s.sure = Lies(a, there) /\ s.near = Lies(a, there)
    BY <1>5
  <1>8. there \subseteq Searching!Folders /\ there \subseteq Searching!Scope(query)
    BY <1>1, <1>2, <1>4 DEF Searching!Scope, Searching!Folders, Searching!WellKnown, Searching!Queries
  <1>9. a # "ews" => there = Searching!Scope(query)
    <2>1. Searching!Scope(query) \subseteq Searching!Folders
      BY <1>1 DEF Searching!Scope, Searching!Folders, Searching!Queries
    <2>2. a # "ews" => known = Searching!Folders
      BY <1>2
    <2> QED BY <1>4, <2>1, <2>2
  <1>10. s \in SearchType(query)
    BY <1>5, <1>8 DEF SearchType, Lies
  <1>11. CASE a = "ews"
    <2>1. EwsOK(query, s)
      BY <1>7, <1>8, <1>11 DEF EwsOK, OfMails, Lies
    <2>2. SearchOK(a, query, s)
      BY <1>10, <1>11, <2>1 DEF SearchOK
    <2> QED BY <1>1, <1>3, <1>6, <2>2, SearchesAre, SearchChanges
  <1>12. CASE a # "ews"
    <2>1. AskedOK(a, query, s)
      BY <1>7, <1>9, <1>12 DEF AskedOK
    <2>2. SearchOK(a, query, s)
      BY <1>10, <1>12, <2>1 DEF SearchOK, Searching!Accounts
    <2> QED BY <1>1, <1>3, <1>6, <2>2, SearchesAre, SearchChanges
  <1> QED BY <1>11, <1>12

LEMMA EwsAnswers ==
    ASSUME Stored \in Nat, MaxFound \in Nat, SearchingInv, NEW q \in Searching!Queries,
           NEW f \in Searching!Folders, Searching!FolderAnswers(q, f)
    PROVE  SearchingInv'
  <1>1. PICK s : s = search["ews"][q]
    OBVIOUS
  <1>2. PICK more : more = {r \in Searching!Matching("ews", q) : r.in = f}
    OBVIOUS
  <1>3. PICK t : t = [s EXCEPT !.todo = @ \ {f}, !.rows = @ \cup more]
    OBVIOUS
  <1>4. /\ s.stage = "reading" /\ f \in s.todo /\ Searching!Step("ews", q, t)
        /\ UNCHANGED <<placed, query>>
    BY <1>1, <1>2, <1>3 DEF Searching!FolderAnswers
  <1>5. "ews" \in Searching!Accounts
    BY DEF Searching!Accounts
  <1>6. SearchOK("ews", q, s) /\ s \in SearchType(q)
    BY <1>1, <1>5, SearchesAre
  <1>7. EwsOK(q, s)
    BY <1>4, <1>6 DEF SearchOK
  <1>8. /\ t.stage = s.stage /\ t.todo = s.todo \ {f} /\ t.rows = s.rows \cup more
        /\ t.sure = s.sure /\ t.near = s.near
    BY <1>3, <1>6 DEF SearchType
  <1>9. /\ more \subseteq Row(q) /\ OfMails(more)
        /\ \A r \in more : r.date \in 1..Stored /\ placed["ews"][r.date] = f
        /\ \A m \in Lies("ews", Searching!Scope(q)) : placed["ews"][m] = f => Finds(more, m)
    <2>1. /\ Searching!Matching("ews", q) \subseteq Row(q) /\ OfMails(Searching!Matching("ews", q))
          /\ \A r \in Searching!Matching("ews", q) :
               r.date \in Lies("ews", Searching!Scope(q)) /\ r.in = placed["ews"][r.date]
          /\ \A m \in Lies("ews", Searching!Scope(q)) : \E r \in Searching!Matching("ews", q) :
               r.conv = Searching!Conv(m) /\ r.date = m
      BY MatchingIs
    <2>2. ASSUME NEW m \in Lies("ews", Searching!Scope(q)), placed["ews"][m] = f
          PROVE  Finds(more, m)
      <3>1. PICK r \in Searching!Matching("ews", q) : r.conv = Searching!Conv(m) /\ r.date = m
        BY <2>1
      <3>2. r \in more /\ m \in Nat
        BY <1>2, <2>1, <2>2, <3>1 DEF Lies
      <3> QED BY <3>1, <3>2 DEF Finds
    <2>3. more \subseteq Row(q) /\ OfMails(more)
      BY <1>2, <2>1 DEF OfMails
    <2>4. \A r \in more : r.date \in 1..Stored /\ placed["ews"][r.date] = f
      BY <1>2, <2>1 DEF Lies
    <2> QED BY <2>2, <2>3, <2>4
  <1>10. t \in SearchType(q)
    <2>1. /\ t.todo \in SUBSET (Searching!Folders \cup Row(q)) /\ t.rows \in SUBSET Row(q)
      BY <1>6, <1>8, <1>9 DEF SearchType
    <2> QED BY <1>3, <1>6, <1>8, <2>1 DEF SearchType
  <1>11. EwsOK(q, t)
    <2>1. \A r \in more : r.date \in s.near
      BY <1>4, <1>7, <1>9 DEF EwsOK, Lies
    <2>2. \A m \in s.sure : placed["ews"][m] \in t.todo \/ Finds(t.rows, m)
      <3> TAKE m \in s.sure
      <3>1. CASE Finds(s.rows, m)
        BY <1>8, <3>1 DEF Finds
      <3>2. CASE placed["ews"][m] = f
        <4>1. m \in Lies("ews", Searching!Scope(q))
          BY <1>4, <1>6, <1>7, <3>2 DEF Lies, EwsOK, SearchType
        <4>2. Finds(more, m)
          BY <1>9, <3>2, <4>1
        <4> QED BY <1>8, <4>2 DEF Finds
      <3>3. CASE placed["ews"][m] \in s.todo /\ placed["ews"][m] # f
        BY <1>8, <3>3
      <3> QED BY <1>7, <3>1, <3>2, <3>3 DEF EwsOK
    <2> QED BY <1>4, <1>7, <1>8, <1>9, <2>1, <2>2 DEF EwsOK, OfMails, Lies
  <1>12. SearchOK("ews", q, t)
    BY <1>10, <1>11 DEF SearchOK
  <1>13. t.todo = {} => FoundOK("ews", q, Result(t.rows, t))
    BY <1>10, <1>11, EwsFinds
  <1> QED BY <1>4, <1>5, <1>12, <1>13, SearchGoesOn

LEMMA JmapKeepsFound ==
    ASSUME Stored \in Nat, MaxFound \in Nat, SearchingInv, NEW q \in Searching!Queries,
           Searching!JmapAnswers(q)
    PROVE  SearchingInv'
  <1>1. PICK s : s = search["jmap"][q]
    OBVIOUS
  <1>2. PICK rows : rows = Searching!Sorted(Searching!Matching("jmap", q))
    OBVIOUS
  <1>3. PICK t : t = [s EXCEPT !.rows = rows]
    OBVIOUS
  <1>4. s.stage = "asked" /\ Searching!Step("jmap", q, t) /\ UNCHANGED <<placed, query>>
    BY <1>1, <1>2, <1>3 DEF Searching!JmapAnswers
  <1>5. "jmap" \in Searching!Accounts
    BY DEF Searching!Accounts
  <1>6. SearchOK("jmap", q, s) /\ s \in SearchType(q)
    BY <1>1, <1>5, SearchesAre
  <1>7. AskedOK("jmap", q, s)
    BY <1>4, <1>6 DEF SearchOK
  <1>8. t.todo = {} /\ t.rows = rows /\ t.sure = s.sure /\ t.near = s.near
    BY <1>3, <1>6, <1>7 DEF SearchType, AskedOK
  <1>9. FoundOK("jmap", q, Result(rows, s))
    BY <1>2, <1>6, <1>7, JmapFinds
  <1>10. Result(t.rows, t) = Result(rows, s)
    BY <1>8 DEF Result
  <1> QED BY <1>4, <1>5, <1>8, <1>9, <1>10, SearchGoesOn

LEMMA FewerConvs ==
    ASSUME MaxFound \in Nat, NEW more, IsFiniteSet(Convs(more)), Cardinality(Convs(more)) <= MaxFound,
           NEW rows, Convs(rows) \subseteq Convs(more)
    PROVE  IsFiniteSet(Convs(rows)) /\ Cardinality(Convs(rows)) <= MaxFound
  <1>1. IsFiniteSet(Convs(rows)) /\ Cardinality(Convs(rows)) <= Cardinality(Convs(more))
    BY FS_Subset, Zenon
  <1>2. Cardinality(Convs(rows)) \in Nat /\ Cardinality(Convs(more)) \in Nat
    BY <1>1, FS_CardinalityType
  <1> QED BY <1>1, <1>2

LEMMA GmailBegins ==
    ASSUME Stored \in Nat, MaxFound \in Nat, SearchingInv, NEW q \in Searching!Queries,
           Searching!GmailLists(q)
    PROVE  SearchingInv'
  <1>1. PICK s : s = search["gmail"][q]
    OBVIOUS
  <1>2. PICK all : all = Searching!Matching("gmail", q)
    OBVIOUS
  <1>3. PICK t : t = [s EXCEPT !.stage = "reading", !.todo = Searching!Kept(all)]
    OBVIOUS
  <1>4. s.stage = "asked" /\ Searching!Step("gmail", q, t) /\ UNCHANGED <<placed, query>>
    BY <1>1, <1>2, <1>3 DEF Searching!GmailLists
  <1>5. "gmail" \in Searching!Accounts
    BY DEF Searching!Accounts
  <1>6. SearchOK("gmail", q, s) /\ s \in SearchType(q)
    BY <1>1, <1>5, SearchesAre
  <1>7. AskedOK("gmail", q, s)
    BY <1>4, <1>6 DEF SearchOK, ReadingOK
  <1>8. /\ t.stage = "reading" /\ t.todo = Searching!Kept(all) /\ t.rows = {}
        /\ t.sure = s.sure /\ t.near = s.near
    BY <1>3, <1>6, <1>7 DEF SearchType, AskedOK
  <1>9. /\ all \subseteq Row(q) /\ Dated(all) /\ OfMails(all)
        /\ \A r, u \in all : r.date = u.date => r = u
        /\ \A r \in all : r.date \in Lies("gmail", Searching!Scope(q))
        /\ \A m \in Lies("gmail", Searching!Scope(q)) : \E r \in all :
             r.conv = Searching!Conv(m) /\ r.date = m
    BY <1>2, MatchingIs
  <1>10. /\ s.near \in SUBSET (1..Stored) /\ s.sure \subseteq Lies("gmail", Searching!Scope(q))
         /\ Lies("gmail", Searching!Scope(q)) \subseteq s.near
    BY <1>6, <1>7 DEF AskedOK, SearchType
  <1>11. PICK best : best = Searching!Newest(all)
    OBVIOUS
  <1>12. best \subseteq all
    BY <1>9, <1>11, NewestIs
  <1>13. Searching!Kept(all) = Searching!Sorted(best) /\ Searching!Kept(all) \subseteq best
    BY <1>11, LeftOut DEF Searching!Kept
  <1>14. Dated(best) /\ \A r, u \in best : r.date = u.date => r = u
    BY <1>9, <1>12 DEF Dated
  <1>15. /\ IsFiniteSet(Searching!Kept(all)) /\ Cardinality(Searching!Kept(all)) <= MaxFound
         /\ Cardinality(Searching!Kept(all)) \in Nat
    BY <1>13, <1>14, SortedFits
  <1>16. /\ IsFiniteSet(Convs(Searching!Kept(all)))
         /\ Cardinality(Convs(Searching!Kept(all))) <= MaxFound
    BY <1>15, ConvsOf
  <1>17. t \in SearchType(q) /\ t.todo \subseteq Row(q)
    <2>1. t.todo \in SUBSET Row(q)
      BY <1>8, <1>9, <1>12, <1>13
    <2>2. t.todo \in SUBSET (Searching!Folders \cup Row(q)) /\ t.rows \in SUBSET Row(q)
      BY <1>8, <2>1
    <2> QED BY <1>3, <1>6, <1>8, <2>1, <2>2 DEF SearchType
  <1>18. ASSUME NEW m \in s.sure
         PROVE  (\E r \in t.todo : r.conv = Searching!Conv(m)) \/ Passed(m, s.near)
    <2>1. PICK r \in all : r.conv = Searching!Conv(m) /\ r.date = m
      BY <1>9, <1>10
    <2>2. m \in 1..Stored /\ Finds(all, m)
      BY <1>10, <2>1 DEF Finds, Lies
    <2>3. \A u \in all : u.date \in s.near
      BY <1>9, <1>10
    <2>4. Finds(Searching!Kept(all), m) \/ Passed(m, s.near)
      BY <1>9, <1>10, <2>2, <2>3, KeptShows
    <2> QED BY <1>8, <2>4 DEF Finds
  <1>19. t.todo \cup t.rows = Searching!Kept(all)
    BY <1>8
  <1>20. ReadingOK(q, t)
    BY <1>8, <1>10, <1>16, <1>17, <1>18, <1>19 DEF ReadingOK
  <1>21. SearchOK("gmail", q, t)
    BY <1>17, <1>20 DEF SearchOK
  <1>22. t.todo = {} => FoundOK("gmail", q, Result(t.rows, t))
    BY <1>17, <1>20, GmailFinds
  <1> QED BY <1>4, <1>5, <1>21, <1>22, SearchGoesOn

(* A conversation is read, or not.                                           *)
LEMMA GmailReads ==
    ASSUME Stored \in Nat, MaxFound \in Nat, SearchingInv, NEW q \in Searching!Queries,
           NEW r \in search["gmail"][q].todo, Searching!Summary(q, r)
    PROVE  SearchingInv'
  <1>1. PICK s : s = search["gmail"][q]
    OBVIOUS
  <1>2. PICK mine : mine = {m \in Searching!In("gmail", Searching!Folders) : Searching!Conv(m) = r.conv}
    OBVIOUS
  <1>3. /\ s.stage = "reading" /\ r \in s.todo /\ UNCHANGED <<placed, query>>
        /\ \/ \E last \in mine :
                /\ \A m \in mine : m <= last
                /\ Searching!Step("gmail", q, [s EXCEPT !.todo = @ \ {r},
                                                        !.rows = @ \cup {[r EXCEPT !.date = last]}])
           \/ Searching!Step("gmail", q, [s EXCEPT !.todo = @ \ {r},
                                                   !.sure = {m \in @ : Searching!Conv(m) # r.conv}])
    BY <1>1, <1>2 DEF Searching!Summary
  <1>4. "gmail" \in Searching!Accounts
    BY DEF Searching!Accounts
  <1>5. SearchOK("gmail", q, s) /\ s \in SearchType(q)
    BY <1>1, <1>4, SearchesAre
  <1>6. ReadingOK(q, s)
    BY <1>3, <1>5 DEF SearchOK, AskedOK
  <1>7. r \in Row(q)
    BY <1>3, <1>6 DEF ReadingOK
  <1>8. ASSUME NEW t, Searching!Step("gmail", q, t), t \in SearchType(q), ReadingOK(q, t)
        PROVE  SearchingInv'
    <2>1. SearchOK("gmail", q, t)
      BY <1>8 DEF SearchOK
    <2>2. t.todo = {} => FoundOK("gmail", q, Result(t.rows, t))
      BY <1>8, GmailFinds
    <2> QED BY <1>3, <1>4, <1>8, <2>1, <2>2, SearchGoesOn
  <1>9. ASSUME NEW last \in mine, \A m \in mine : m <= last,
               Searching!Step("gmail", q, [s EXCEPT !.todo = @ \ {r},
                                                    !.rows = @ \cup {[r EXCEPT !.date = last]}])
        PROVE  SearchingInv'
    <2>1. PICK read : read = [r EXCEPT !.date = last]
      OBVIOUS
    <2>2. PICK t : t = [s EXCEPT !.todo = @ \ {r}, !.rows = @ \cup {read}]
      OBVIOUS
    <2>3. last \in 1..Stored
      BY <1>2 DEF Searching!In, Searching!Mails
    <2>4. read \in Row(q) /\ read.conv = r.conv /\ read.date = last
      BY <1>7, <2>1, <2>3 DEF Row
    <2>5. /\ t.stage = "reading" /\ t.todo = s.todo \ {r} /\ t.rows = s.rows \cup {read}
          /\ t.sure = s.sure /\ t.near = s.near
      BY <1>3, <1>5, <2>2 DEF SearchType
    <2>6. t \in SearchType(q) /\ t.todo \subseteq Row(q)
      <3>1. t.todo \in SUBSET (Searching!Folders \cup Row(q)) /\ t.rows \in SUBSET Row(q)
        BY <1>5, <2>4, <2>5 DEF SearchType
      <3>2. t.todo \subseteq Row(q)
        BY <1>6, <2>5 DEF ReadingOK
      <3> QED BY <1>5, <2>2, <2>5, <3>1, <3>2 DEF SearchType
    <2>7. /\ IsFiniteSet(Convs(t.todo \cup t.rows))
          /\ Cardinality(Convs(t.todo \cup t.rows)) <= MaxFound
      <3>1. Convs(t.todo \cup t.rows) \subseteq Convs(s.todo \cup s.rows)
        BY <1>3, <2>4, <2>5 DEF Convs
      <3>2. /\ IsFiniteSet(Convs(s.todo \cup s.rows))
            /\ Cardinality(Convs(s.todo \cup s.rows)) <= MaxFound
        BY <1>6 DEF ReadingOK
      <3> QED BY <3>1, <3>2, FewerConvs
    <2>8. ASSUME NEW m \in s.sure
          PROVE  \/ \E u \in t.todo : u.conv = Searching!Conv(m)
                 \/ Finds(t.rows, m) \/ Passed(m, t.near)
      <3>1. CASE r.conv = Searching!Conv(m)
        <4>1. m \in mine
          <5>1. m \in 1..Stored /\ placed["gmail"][m] \in Searching!Scope(q)
            BY <1>6 DEF ReadingOK, Lies
          <5>2. Searching!Scope(q) \subseteq Searching!Folders
            BY DEF Searching!Scope, Searching!Folders, Searching!Queries
          <5> QED BY <1>2, <3>1, <5>1, <5>2 DEF Searching!In, Searching!Mails
        <4>2. m <= read.date /\ read \in t.rows
          BY <1>9, <2>4, <2>5, <4>1
        <4> QED BY <2>4, <3>1, <4>2 DEF Finds
      <3>2. CASE r.conv # Searching!Conv(m)
        <4>1. \/ \E u \in s.todo : u.conv = Searching!Conv(m)
              \/ Finds(s.rows, m) \/ Passed(m, s.near)
          BY <1>6 DEF ReadingOK
        <4>2. Finds(s.rows, m) => Finds(t.rows, m)
          BY <2>5 DEF Finds
        <4> QED BY <2>5, <3>2, <4>1, <4>2
      <3> QED BY <3>1, <3>2
    <2>9. ReadingOK(q, t)
      BY <1>6, <2>5, <2>6, <2>7, <2>8 DEF ReadingOK
    <2>10. Searching!Step("gmail", q, t)
      BY <1>9, <2>1, <2>2
    <2> QED BY <1>8, <2>6, <2>9, <2>10
  <1>10. ASSUME Searching!Step("gmail", q, [s EXCEPT !.todo = @ \ {r},
                                                     !.sure = {m \in @ : Searching!Conv(m) # r.conv}])
         PROVE  SearchingInv'
    <2>1. PICK t : t = [s EXCEPT !.todo = @ \ {r}, !.sure = {m \in @ : Searching!Conv(m) # r.conv}]
      OBVIOUS
    <2>2. /\ t.stage = "reading" /\ t.todo = s.todo \ {r} /\ t.rows = s.rows
          /\ t.sure = {m \in s.sure : Searching!Conv(m) # r.conv} /\ t.near = s.near
      BY <1>3, <1>5, <2>1 DEF SearchType
    <2>3. t \in SearchType(q) /\ t.todo \subseteq Row(q)
      <3>1. t.todo \in SUBSET (Searching!Folders \cup Row(q)) /\ t.sure \in SUBSET (1..Stored)
        BY <1>5, <2>2 DEF SearchType
      <3>2. t.todo \subseteq Row(q)
        BY <1>6, <2>2 DEF ReadingOK
      <3> QED BY <1>5, <2>1, <2>2, <3>1, <3>2 DEF SearchType
    <2>4. /\ IsFiniteSet(Convs(t.todo \cup t.rows))
          /\ Cardinality(Convs(t.todo \cup t.rows)) <= MaxFound
      <3>1. Convs(t.todo \cup t.rows) \subseteq Convs(s.todo \cup s.rows)
        BY <2>2 DEF Convs
      <3>2. /\ IsFiniteSet(Convs(s.todo \cup s.rows))
            /\ Cardinality(Convs(s.todo \cup s.rows)) <= MaxFound
        BY <1>6 DEF ReadingOK
      <3> QED BY <3>1, <3>2, FewerConvs
    <2>5. ReadingOK(q, t)
      BY <1>6, <2>2, <2>3, <2>4 DEF ReadingOK
    <2>6. Searching!Step("gmail", q, t)
      BY <1>10, <2>1
    <2> QED BY <1>8, <2>3, <2>5, <2>6
  <1> QED BY <1>3, <1>9, <1>10

(* A message arrives or moves.                                               *)
LEMMA MovesKeeps ==
    ASSUME Stored \in Nat, MaxFound \in Nat, SearchingInv, NEW a \in Searching!Accounts,
           NEW m \in Searching!Mails, NEW f \in Searching!Folders, Searching!Moves(a, m, f)
    PROVE  SearchingInv'
  <1>1. /\ placed' = [placed EXCEPT ![a][m] = f]
        /\ search' = [search EXCEPT ![a] = [q \in Searching!Queries |->
             IF search[a][q].stage = "idle" THEN Searching!Idle
             ELSE [search[a][q] EXCEPT !.sure = @ \ {m},
                               !.near = IF f \in Searching!Scope(q) THEN @ \cup {m} ELSE @]]]
        /\ UNCHANGED <<query, found>>
    BY DEF Searching!Moves
  <1>2. m \in 1..Stored
    BY DEF Searching!Mails
  <1>3. /\ placed = [b \in Searching!Accounts |-> [n \in 1..Stored |-> placed[b][n]]]
        /\ search = [b \in Searching!Accounts |-> [q \in Searching!Queries |-> search[b][q]]]
        /\ found = [b \in Searching!Accounts |-> [q \in Searching!Queries |-> found[b][q]]]
        /\ query \in Searching!Queries
        /\ \A b \in Searching!Accounts, q \in Searching!Queries :
             SearchOK(b, q, search[b][q]) /\ FoundOK(b, q, found[b][q])
    BY DEF SearchingInv
  <1>4. /\ Table(placed, Searching!Accounts, Searching!Mails)
        /\ Updated(placed, placed', a, m, f)
    BY <1>1, <1>3, Zenon DEF Table, Updated, Searching!Mails
  <1>5. /\ Table(placed', Searching!Accounts, 1..Stored) /\ placed'[a][m] = f
        /\ \A b \in Searching!Accounts, n \in 1..Stored :
             b # a \/ n # m => placed'[b][n] = placed[b][n]
    <2>1. a \in Searching!Accounts /\ m \in Searching!Mails
      OBVIOUS
    <2>2. /\ Table(placed', Searching!Accounts, Searching!Mails) /\ placed'[a][m] = f
          /\ \A b \in Searching!Accounts, n \in Searching!Mails :
               b # a \/ n # m => placed'[b][n] = placed[b][n]
      <3>1. PICK old, new, on, all : /\ old = placed /\ new = placed'
                                     /\ on = Searching!Accounts /\ all = Searching!Mails
        OBVIOUS
      <3>2. a \in on /\ m \in all /\ Table(old, on, all) /\ Updated(old, new, a, m, f)
        BY <1>4, <2>1, <3>1, Zenon
      <3>3. /\ Table(new, on, all) /\ new[a][m] = f
            /\ \A b \in on, n \in all : b # a \/ n # m => new[b][n] = old[b][n]
        BY <3>2, OneIsUpdated
      <3> QED BY <3>1, <3>3, Zenon
    <2> QED BY <2>2, Zenon DEF Searching!Mails
  <1>6. DOMAIN search = Searching!Accounts
    BY <1>3
  <1>7. \A q \in Searching!Queries : search'[a][q] =
          IF search[a][q].stage = "idle" THEN Searching!Idle
          ELSE [search[a][q] EXCEPT !.sure = @ \ {m},
                  !.near = IF f \in Searching!Scope(q) THEN @ \cup {m} ELSE @]
    BY <1>1, <1>6
  <1>8. \A b \in Searching!Accounts : b # a => search'[b] = search[b]
    BY <1>1, <1>6
  <1>9. search' = [b \in Searching!Accounts |-> [q \in Searching!Queries |-> search'[b][q]]]
    <2>1. PICK row : row = [q \in Searching!Queries |->
                              IF search[a][q].stage = "idle" THEN Searching!Idle
                              ELSE [search[a][q] EXCEPT !.sure = @ \ {m},
                                      !.near = IF f \in Searching!Scope(q) THEN @ \cup {m} ELSE @]]
      OBVIOUS
    <2>2. search' = [search EXCEPT ![a] = row]
      BY <1>1, <2>1
    <2>3. \A b \in Searching!Accounts : search[b] = [q \in Searching!Queries |-> search[b][q]]
      BY <1>3, Zenon
    <2>4. row = [q \in Searching!Queries |-> row[q]]
      BY <2>1
    <2>5. \A b \in Searching!Accounts : search'[b] = IF b = a THEN row ELSE search[b]
      BY <1>6, <2>2
    <2>6. search' = [b \in Searching!Accounts |-> search'[b]]
      BY <1>6, <2>2
    <2>7. \A b \in Searching!Accounts : search'[b] = [q \in Searching!Queries |-> search'[b][q]]
      BY <2>3, <2>4, <2>5
    <2> QED BY <2>6, <2>7
  <1>10. ASSUME NEW b \in Searching!Accounts, b # a, NEW q, NEW s, SearchOK(b, q, s)
         PROVE  SearchOK(b, q, s)'
    <2>1. \A n \in 1..Stored : placed'[b][n] = placed[b][n]
      BY <1>5, <1>10
    <2>2. \A fs : Lies(b, fs)' = Lies(b, fs)
      BY <2>1 DEF Lies
    <2>3. b = "ews" /\ EwsOK(q, s) /\ s \in SearchType(q) => EwsOK(q, s)'
      BY <2>1, <2>2 DEF EwsOK, SearchType
    <2>4. AskedOK(b, q, s) => AskedOK(b, q, s)'
      BY <2>2 DEF AskedOK
    <2>5. b = "gmail" /\ ReadingOK(q, s) => ReadingOK(q, s)'
      BY <2>2 DEF ReadingOK
    <2> QED BY <1>10, <2>3, <2>4, <2>5 DEF SearchOK, Searching!Accounts
  <1>11. ASSUME NEW q \in Searching!Queries, NEW s, s = search[a][q], s.stage # "idle",
                NEW t, t = [s EXCEPT !.sure = @ \ {m},
                              !.near = IF f \in Searching!Scope(q) THEN @ \cup {m} ELSE @]
         PROVE  SearchOK(a, q, t)'
    <2>1. SearchOK(a, q, s) /\ s \in SearchType(q)
      BY <1>3, <1>11 DEF SearchOK
    <2>2. /\ t.stage = s.stage /\ t.todo = s.todo /\ t.rows = s.rows /\ t.sure = s.sure \ {m}
          /\ t.near = (IF f \in Searching!Scope(q) THEN s.near \cup {m} ELSE s.near)
      BY <1>11, <2>1 DEF SearchType
    <2>3. t \in SearchType(q)
      <3>1. t.sure \in SUBSET (1..Stored) /\ t.near \in SUBSET (1..Stored)
        BY <1>2, <2>1, <2>2 DEF SearchType
      <3> QED BY <1>11, <2>1, <2>2, <3>1 DEF SearchType
    <2>4. \A fs : /\ \A n \in Lies(a, fs) : n # m => n \in Lies(a, fs)'
                  /\ \A n \in Lies(a, fs)' : n \in Lies(a, fs) \/ (n = m /\ f \in fs)
      BY <1>5 DEF Lies
    <2>5. ASSUME a = "ews", EwsOK(q, s) PROVE EwsOK(q, t)'
      <3>1. Lies("ews", t.todo)' \subseteq t.near
        BY <2>2, <2>4, <2>5 DEF EwsOK
      <3>2. \A r \in t.rows : r.date \in t.near
        BY <2>2, <2>5 DEF EwsOK
      <3>3. \A n \in t.sure : placed'["ews"][n] = placed["ews"][n] /\ n \in s.sure
        BY <1>5, <2>1, <2>2, <2>5 DEF SearchType
      <3>4. \A n \in t.sure : placed'["ews"][n] \in t.todo \/ Finds(t.rows, n)
        BY <2>2, <2>5, <3>3 DEF EwsOK
      <3>5. t.stage = "reading" /\ t.todo \subseteq Searching!Scope(q) /\ OfMails(t.rows)
        BY <2>2, <2>5 DEF EwsOK
      <3> QED BY <3>1, <3>2, <3>4, <3>5 DEF EwsOK
    <2>6. ASSUME AskedOK(a, q, s) PROVE AskedOK(a, q, t)'
      BY <2>2, <2>4, <2>6 DEF AskedOK
    <2>7. ASSUME a = "gmail", ReadingOK(q, s) PROVE ReadingOK(q, t)'
      <3>1. t.sure \subseteq Lies("gmail", Searching!Scope(q))'
        BY <2>2, <2>4, <2>7 DEF ReadingOK
      <3>2. s.near \in SUBSET t.near /\ t.near \in SUBSET (1..Stored)
        BY <2>2, <2>3 DEF SearchType
      <3>3. \A n \in t.sure : Passed(n, s.near) => Passed(n, t.near)
        BY <3>2, PassedGrows
      <3>4. \A n \in t.sure : \/ \E r \in t.todo : r.conv = Searching!Conv(n)
                              \/ Finds(t.rows, n) \/ Passed(n, t.near)
        BY <2>2, <2>7, <3>3 DEF ReadingOK
      <3>5. /\ t.stage = "reading" /\ t.todo \subseteq Row(q)
            /\ IsFiniteSet(Convs(t.todo \cup t.rows))
            /\ Cardinality(Convs(t.todo \cup t.rows)) <= MaxFound
        BY <2>2, <2>7 DEF ReadingOK
      <3> QED BY <3>1, <3>4, <3>5 DEF ReadingOK
    <2> QED BY <1>11, <2>1, <2>2, <2>3, <2>5, <2>6, <2>7 DEF SearchOK, Searching!Accounts
  <1>12. ASSUME NEW b \in Searching!Accounts, NEW q \in Searching!Queries
         PROVE  SearchOK(b, q, search[b][q])' /\ FoundOK(b, q, found[b][q])'
    <2>1. PICK s, t, result : s = search[b][q] /\ t = search'[b][q] /\ result = found'[b][q]
      OBVIOUS
    <2>2. FoundOK(b, q, result)
      BY <1>1, <1>3, <2>1
    <2>3. SearchOK(b, q, t)'
      <3>1. CASE b # a
        BY <1>3, <1>8, <1>10, <2>1, <3>1
      <3>2. CASE b = a /\ s.stage = "idle"
        <4>1. t = Searching!Idle
          BY <1>7, <2>1, <3>2
        <4>2. t \in SearchType(q) /\ t.stage = "idle"
          BY <4>1 DEF SearchType, Searching!Idle
        <4> QED BY <4>2 DEF SearchOK
      <3>3. CASE b = a /\ s.stage # "idle"
        BY <1>7, <1>11, <2>1, <3>3
      <3> QED BY <3>1, <3>2, <3>3
    <2> QED BY <2>1, <2>2, <2>3
  <1>13. placed' = [b \in Searching!Accounts |-> [n \in 1..Stored |-> placed'[b][n]]]
    BY <1>5 DEF Table
  <1>14. found' = [b \in Searching!Accounts |-> [q \in Searching!Queries |-> found'[b][q]]]
         /\ query' \in Searching!Queries
    <2>1. found' = found /\ query' = query
      BY <1>1
    <2> QED BY <1>3, <2>1
  <1> QED BY <1>9, <1>12, <1>13, <1>14 DEF SearchingInv

LEMMA SearchingKeeps ==
    ASSUME Stored \in Nat, MaxFound \in Nat, SearchingInv, [Searching!Next]_(Searching!vars)
    PROVE  SearchingInv'
  <1>1. ASSUME NEW a \in Searching!Accounts, NEW q \in Searching!Queries, Searching!Refused(a, q)
        PROVE  SearchingInv'
    <2>1. Updated(search, search', a, q, Searching!Idle) /\ UNCHANGED <<placed, query, found>>
      BY <1>1 DEF Searching!Refused, Searching!GivesUp, Updated
    <2>2. SearchOK(a, q, Searching!Idle)
      BY DEF SearchOK, SearchType, Searching!Idle
    <2>3. FoundOK(a, q, found[a][q])
      BY SearchesAre
    <2> QED BY <2>1, <2>2, <2>3, SearchChanges
  <1>2. ASSUME UNCHANGED <<placed, search, found>>, query' \in Searching!Queries
        PROVE  SearchingInv'
    <2>1. ASSUME NEW a, NEW q, NEW s, SearchOK(a, q, s) PROVE SearchOK(a, q, s)'
      BY <1>2, <2>1 DEF SearchOK, EwsOK, AskedOK, ReadingOK, Lies
    <2>2. ASSUME NEW a \in Searching!Accounts, NEW q \in Searching!Queries
          PROVE  SearchOK(a, q, search[a][q])' /\ FoundOK(a, q, found[a][q])'
      <3>1. PICK s, result : s = search[a][q] /\ result = found[a][q]
        OBVIOUS
      <3>2. SearchOK(a, q, s)' /\ FoundOK(a, q, result)
        BY <2>1, <3>1, SearchesAre
      <3> QED BY <1>2, <3>1, <3>2
    <2> QED BY <1>2, <2>2 DEF SearchingInv
  <1>3. ASSUME NEW q \in Searching!Queries, Searching!HandleSearch(q)
        PROVE  SearchingInv'
    BY <1>2, <1>3 DEF Searching!HandleSearch
  <1>4. CASE UNCHANGED Searching!vars
    <2>1. UNCHANGED <<placed, search, found, query>>
      BY <1>4 DEF Searching!vars
    <2> QED BY <1>2, <2>1 DEF SearchingInv
  <1>5. ASSUME NEW q \in Searching!Queries,
               \/ \E f \in Searching!Folders : Searching!FolderAnswers(q, f)
               \/ Searching!JmapAnswers(q) \/ Searching!GmailLists(q)
               \/ \E r \in search["gmail"][q].todo : Searching!Summary(q, r)
        PROVE  SearchingInv'
    BY <1>5, EwsAnswers, JmapKeepsFound, GmailBegins, GmailReads
  <1>6. ASSUME NEW a \in Searching!Accounts, Searching!Start(a) PROVE SearchingInv'
    BY <1>6, SearchBegins
  <1>7. ASSUME NEW a \in Searching!Accounts, NEW m \in Searching!Mails, NEW f \in Searching!Folders,
               Searching!Moves(a, m, f)
        PROVE  SearchingInv'
    BY <1>7, MovesKeeps
  <1>8. Searching!Next \/ UNCHANGED Searching!vars
    OBVIOUS
  <1> QED BY <1>1, <1>3, <1>4, <1>5, <1>6, <1>7, <1>8, Zenon DEF Searching!Next

LEMMA SearchShows ==
    ASSUME Stored \in Nat, MaxFound \in Nat, SearchingInv
    PROVE  Searching!FindsWhatStays
  <1>1. ASSUME NEW a \in Searching!Accounts, NEW q \in Searching!Queries
        PROVE  FoundOK(a, q, found[a][q])
    BY DEF SearchingInv
  <1>2. query \in Searching!Queries
    BY DEF SearchingInv
  <1>3. \A r \in Searching!Shown : r.in \in Searching!Scope(query)
    BY <1>1, <1>2 DEF Searching!Shown, FoundOK, Row
  <1> QED BY <1>1, <1>3, SearchCounts DEF FoundOK, Missed, Searching!FindsWhatStays

(* Scrolling a folder that changes misses no conversation (MailPaging), and  *)
(* a search finds every conversation with a message that stayed where it    *)
(* looked (MailSearch), with the exceptions ListsAreWhole states: for pages  *)
(* and folders of any size, any limit, any number of messages, changes,     *)
(* requests and searches, whatever fails and in any order of the answers.   *)
THEOREM ListsMissNothing ==
    ASSUME Page \in Nat, First \in Nat, Stored \in Nat, MaxFound \in Nat
    PROVE  MCSpec => []ListsAreWhole
  <1> DEFINE Inv == /\ part = "paging" => PagingInv
                    /\ part = "search" => SearchingInv
  <1>1. MCInit => Inv
    BY PartsStart, PagingStarts, SearchStarts
  <1>2. Inv /\ [MCNext]_<<part, acting, reading>> => Inv'
    BY PartStays, PartsStep, PagingKeeps, SearchingKeeps
  <1>3. Inv => ListsAreWhole
    BY PagingShows, SearchShows DEF ListsAreWhole
  <1> HIDE DEF Inv
  <1> QED BY <1>1, <1>2, <1>3, PTL DEF MCSpec
----------------------------------------------------------------------------
(* ImapThreads: union-find, for any number of messages and subjects.  What   *)
(* a root is follows along the parents, from smaller numbers to larger ones. *)

(* What passes from smaller numbers to a number holds of all of them.        *)
LEMMA AllInTurn ==
    ASSUME NEW n \in Nat, NEW S, \A k \in 1..n : (\A j \in 1..n : j < k => j \in S) => k \in S
    PROVE  1..n \subseteq S
  <1> SUFFICES ASSUME (1..n) \ S # {} PROVE FALSE
    OBVIOUS
  <1>1. (1..n) \ S \in SUBSET Nat
    OBVIOUS
  <1>2. PICK k \in (1..n) \ S : \A j \in (1..n) \ S : k <= j
    BY <1>1, LeastExists
  <1>3. \A j \in 1..n : j < k => j \in S
    BY <1>2
  <1> QED BY <1>2, <1>3

(* The parents of a union-find: none is larger than its child.               *)
Parents(p) == p \in [Threads!Numbers -> Threads!Numbers] /\ \A i \in Threads!Numbers : p[i] <= i

(* A function that is defined along the parents exists.                      *)
Rooted(p, up) == up = [j \in Threads!Numbers |-> IF p[j] = j THEN j ELSE up[p[j]]]
LEMMA RootsExist ==
    ASSUME Size \in Nat, NEW p, Parents(p)
    PROVE  \E up : Rooted(p, up)
  <1> DEFINE Starts(g, n) == \A j \in 1..n : g[j] = IF p[j] = j THEN j ELSE g[p[j]]
             S == {n \in 1..Size : \E g : Starts(g, n)}
  <1>1. Threads!Numbers = 1..Size
    BY DEF Threads!Numbers
  <1>2. \A j \in 1..Size : p[j] \in 1..j
    BY <1>1 DEF Parents
  <1>3. ASSUME NEW k \in 1..Size, \A j \in 1..Size : j < k => j \in S PROVE k \in S
    <2>1. \E g : Starts(g, k - 1)
      <3>1. CASE k = 1
        BY <3>1
      <3>2. CASE k # 1
        <4>1. k - 1 \in 1..Size /\ k - 1 < k
          BY <3>2
        <4> QED BY <1>3, <4>1
      <3> QED BY <3>1, <3>2
    <2>2. PICK g : Starts(g, k - 1)
      BY <2>1
    <2>3. PICK h : h = [j \in 1..k |-> IF j < k THEN g[j] ELSE IF p[k] = k THEN k ELSE g[p[k]]]
      OBVIOUS
    <2>4. \A j \in 1..k - 1 : h[j] = g[j]
      BY <2>3
    <2>5. h[k] = IF p[k] = k THEN k ELSE g[p[k]]
      BY <2>3
    <2>6. \A j \in 1..k : p[j] # j => p[j] \in 1..k - 1
      BY <1>2
    <2>7. ASSUME NEW j \in 1..k PROVE h[j] = IF p[j] = j THEN j ELSE h[p[j]]
      <3>1. CASE j = k
        BY <2>4, <2>5, <2>6, <3>1
      <3>2. CASE j # k
        <4>1. j \in 1..k - 1
          BY <3>2
        <4> QED BY <2>2, <2>4, <2>6, <4>1
      <3> QED BY <3>1, <3>2
    <2>8. Starts(h, k)
      BY <2>7
    <2> QED BY <2>8
  <1>4. \E g : Starts(g, Size)
    <2> HIDE DEF Starts
    <2>1. CASE Size = 0
      BY <2>1 DEF Starts
    <2>2. CASE Size # 0
      <3>1. 1..Size \subseteq S
        <4> HIDE DEF S
        <4> QED BY <1>3, AllInTurn
      <3> QED BY <2>2, <3>1
    <2> QED BY <2>1, <2>2
  <1>5. PICK g : Starts(g, Size)
    BY <1>4
  <1>6. PICK up : up = [j \in Threads!Numbers |-> g[j]]
    OBVIOUS
  <1>7. \A j \in Threads!Numbers : p[j] \in Threads!Numbers
    BY DEF Parents
  <1>8. up = [j \in Threads!Numbers |-> IF p[j] = j THEN j ELSE up[p[j]]]
    BY <1>1, <1>5, <1>6, <1>7
  <1> QED BY <1>8 DEF Rooted

LEMMA RootIs ==
    ASSUME Size \in Nat, NEW p, Parents(p)
    PROVE  Rooted(p, Threads!Root(p))
  <1>1. Threads!Root(p) = CHOOSE up : Rooted(p, up)
    BY Zenon DEF Threads!Root, Rooted
  <1> QED BY <1>1, RootsExist, Zenon

(* What each number's root is.                                               *)
LEMMA RootStep ==
    ASSUME Size \in Nat, NEW p, Parents(p), NEW j \in Threads!Numbers
    PROVE  Threads!Root(p)[j] = IF p[j] = j THEN j ELSE Threads!Root(p)[p[j]]
  <1> DEFINE up == Threads!Root(p)
  <1>1. up = [i \in Threads!Numbers |-> IF p[i] = i THEN i ELSE up[p[i]]]
    BY RootIs, Zenon DEF Rooted
  <1> HIDE DEF up
  <1>2. up[j] = IF p[j] = j THEN j ELSE up[p[j]]
    BY <1>1
  <1> QED BY <1>2 DEF up

LEMMA RootOK ==
    ASSUME Size \in Nat, NEW p, Parents(p), NEW j \in Threads!Numbers
    PROVE  /\ Threads!Root(p)[j] \in Threads!Numbers /\ Threads!Root(p)[j] <= j
           /\ p[Threads!Root(p)[j]] = Threads!Root(p)[j]
  <1> DEFINE up == Threads!Root(p)
             S == {k \in 1..Size : up[k] \in 1..k /\ p[up[k]] = up[k]}
  <1>1. Threads!Numbers = 1..Size
    BY DEF Threads!Numbers
  <1>2. \A k \in 1..Size : up[k] = IF p[k] = k THEN k ELSE up[p[k]]
    BY <1>1, RootStep, Zenon
  <1>3. \A k \in 1..Size : p[k] \in 1..k
    BY <1>1 DEF Parents
  <1> HIDE DEF up
  <1>4. ASSUME NEW k \in 1..Size, \A i \in 1..Size : i < k => i \in S PROVE k \in S
    <2>1. CASE p[k] = k
      BY <1>2, <2>1
    <2>2. CASE p[k] # k
      <3>1. p[k] \in 1..Size /\ p[k] < k
        BY <1>3, <2>2
      <3>2. up[p[k]] \in 1..p[k] /\ p[up[p[k]]] = up[p[k]]
        BY <1>4, <3>1
      <3> QED BY <1>2, <2>2, <3>1, <3>2
    <2> QED BY <2>1, <2>2
  <1>5. 1..Size \subseteq S
    <2> HIDE DEF S
    <2> QED BY <1>4, AllInTurn
  <1>6. up[j] \in Threads!Numbers /\ up[j] <= j /\ p[up[j]] = up[j]
    BY <1>1, <1>5
  <1> QED BY <1>6 DEF up

LEMMA RootIsItsOwn ==
    ASSUME Size \in Nat, NEW p, Parents(p), NEW j \in Threads!Numbers
    PROVE  Threads!Root(p)[Threads!Root(p)[j]] = Threads!Root(p)[j]
  <1>1. Threads!Root(p)[j] \in Threads!Numbers /\ p[Threads!Root(p)[j]] = Threads!Root(p)[j]
    BY RootOK
  <1> QED BY <1>1, RootStep

(* The roots are the only function that goes up the parents.                 *)
LEMMA RootsAreThese ==
    ASSUME Size \in Nat, NEW p, Parents(p), NEW g,
           \A j \in Threads!Numbers : g[j] = IF p[j] = j THEN j ELSE g[p[j]]
    PROVE  \A j \in Threads!Numbers : Threads!Root(p)[j] = g[j]
  <1> DEFINE up == Threads!Root(p)
             S == {k \in 1..Size : up[k] = g[k]}
  <1>1. Threads!Numbers = 1..Size
    BY DEF Threads!Numbers
  <1>2. \A k \in 1..Size : up[k] = IF p[k] = k THEN k ELSE up[p[k]]
    BY <1>1, RootStep, Zenon
  <1>3. \A k \in 1..Size : p[k] \in 1..k
    BY <1>1 DEF Parents
  <1>4. \A k \in 1..Size : g[k] = IF p[k] = k THEN k ELSE g[p[k]]
    BY <1>1
  <1> HIDE DEF up
  <1>5. ASSUME NEW k \in 1..Size, \A i \in 1..Size : i < k => i \in S PROVE k \in S
    <2>1. CASE p[k] = k
      BY <1>2, <1>4, <2>1
    <2>2. CASE p[k] # k
      <3>1. p[k] \in 1..Size /\ p[k] < k
        BY <1>3, <2>2
      <3>2. up[p[k]] = g[p[k]]
        BY <1>5, <3>1
      <3> QED BY <1>2, <1>4, <2>2, <3>2
    <2> QED BY <2>1, <2>2
  <1>6. 1..Size \subseteq S
    <2> HIDE DEF S
    <2> QED BY <1>5, AllInTurn
  <1>7. \A j \in 1..Size : up[j] = g[j]
    BY <1>6
  <1> QED BY <1>1, <1>7 DEF up

(* The numbers on the way up have the same root.                             *)
Way(p, above) == above = [j \in Threads!Numbers |-> IF p[j] = j THEN {j} ELSE {j} \cup above[p[j]]]
LEMMA WaysExist ==
    ASSUME Size \in Nat, NEW p, Parents(p)
    PROVE  \E above : Way(p, above)
  <1> DEFINE Starts(g, n) == \A j \in 1..n : g[j] = IF p[j] = j THEN {j} ELSE {j} \cup g[p[j]]
             S == {n \in 1..Size : \E g : Starts(g, n)}
  <1>1. Threads!Numbers = 1..Size
    BY DEF Threads!Numbers
  <1>2. \A j \in 1..Size : p[j] \in 1..j
    BY <1>1 DEF Parents
  <1>3. ASSUME NEW k \in 1..Size, \A j \in 1..Size : j < k => j \in S PROVE k \in S
    <2>1. \E g : Starts(g, k - 1)
      <3>1. CASE k = 1
        BY <3>1
      <3>2. CASE k # 1
        <4>1. k - 1 \in 1..Size /\ k - 1 < k
          BY <3>2
        <4> QED BY <1>3, <4>1
      <3> QED BY <3>1, <3>2
    <2>2. PICK g : Starts(g, k - 1)
      BY <2>1
    <2>3. PICK h : h = [j \in 1..k |-> IF j < k THEN g[j] ELSE IF p[k] = k THEN {k} ELSE {k} \cup g[p[k]]]
      OBVIOUS
    <2>4. \A j \in 1..k - 1 : h[j] = g[j]
      BY <2>3
    <2>5. h[k] = IF p[k] = k THEN {k} ELSE {k} \cup g[p[k]]
      BY <2>3
    <2>6. \A j \in 1..k : p[j] # j => p[j] \in 1..k - 1
      BY <1>2
    <2>7. ASSUME NEW j \in 1..k PROVE h[j] = IF p[j] = j THEN {j} ELSE {j} \cup h[p[j]]
      <3>1. CASE j = k
        BY <2>4, <2>5, <2>6, <3>1
      <3>2. CASE j # k
        <4>1. j \in 1..k - 1
          BY <3>2
        <4> QED BY <2>2, <2>4, <2>6, <4>1
      <3> QED BY <3>1, <3>2
    <2>8. Starts(h, k)
      BY <2>7
    <2> QED BY <2>8
  <1>4. \E g : Starts(g, Size)
    <2> HIDE DEF Starts
    <2>1. CASE Size = 0
      BY <2>1 DEF Starts
    <2>2. CASE Size # 0
      <3>1. 1..Size \subseteq S
        <4> HIDE DEF S
        <4> QED BY <1>3, AllInTurn
      <3> QED BY <2>2, <3>1
    <2> QED BY <2>1, <2>2
  <1>5. PICK g : Starts(g, Size)
    BY <1>4
  <1>6. PICK above : above = [j \in Threads!Numbers |-> g[j]]
    OBVIOUS
  <1>7. \A j \in Threads!Numbers : p[j] \in Threads!Numbers
    BY DEF Parents
  <1>8. above = [j \in Threads!Numbers |-> IF p[j] = j THEN {j} ELSE {j} \cup above[p[j]]]
    BY <1>1, <1>5, <1>6, <1>7
  <1> QED BY <1>8 DEF Way

LEMMA WayHasOneRoot ==
    ASSUME Size \in Nat, NEW p, Parents(p), NEW above, Way(p, above), NEW i \in Threads!Numbers
    PROVE  /\ i \in above[i] /\ above[i] \subseteq Threads!Numbers
           /\ \A j \in above[i] : Threads!Root(p)[j] = Threads!Root(p)[i]
  <1> DEFINE up == Threads!Root(p)
             S == {k \in 1..Size : /\ k \in above[k] /\ above[k] \subseteq Threads!Numbers
                                   /\ \A j \in above[k] : up[j] = up[k]}
  <1>1. Threads!Numbers = 1..Size
    BY DEF Threads!Numbers
  <1>2. \A k \in 1..Size : up[k] = IF p[k] = k THEN k ELSE up[p[k]]
    BY <1>1, RootStep, Zenon
  <1>3. \A k \in 1..Size : p[k] \in 1..k
    BY <1>1 DEF Parents
  <1>4. \A k \in 1..Size : above[k] = IF p[k] = k THEN {k} ELSE {k} \cup above[p[k]]
    BY <1>1 DEF Way
  <1> HIDE DEF up
  <1>5. ASSUME NEW k \in 1..Size, \A j \in 1..Size : j < k => j \in S PROVE k \in S
    <2>1. CASE p[k] = k
      <3>1. above[k] = {k}
        BY <1>4, <2>1
      <3> QED BY <1>1, <3>1
    <2>2. CASE p[k] # k
      <3>1. p[k] \in 1..Size /\ p[k] < k
        BY <1>3, <2>2
      <3>2. /\ p[k] \in above[p[k]] /\ above[p[k]] \subseteq Threads!Numbers
            /\ \A j \in above[p[k]] : up[j] = up[p[k]]
        BY <1>5, <3>1
      <3>3. above[k] = {k} \cup above[p[k]]
        BY <1>4, <2>2
      <3>4. up[k] = up[p[k]]
        BY <1>2, <2>2
      <3>5. k \in above[k] /\ above[k] \subseteq Threads!Numbers
        BY <1>1, <3>2, <3>3
      <3>6. \A j \in above[k] : up[j] = up[k]
        <4> SUFFICES ASSUME NEW j \in above[k] PROVE up[j] = up[k]
          OBVIOUS
        <4>1. CASE j = k
          BY <4>1
        <4>2. CASE j \in above[p[k]]
          BY <3>2, <3>4, <4>2
        <4> QED BY <3>3, <4>1, <4>2
      <3> QED BY <3>5, <3>6
    <2> QED BY <2>1, <2>2
  <1>6. 1..Size \subseteq S
    <2> HIDE DEF S
    <2> QED BY <1>5, AllInTurn
  <1>7. /\ i \in above[i] /\ above[i] \subseteq Threads!Numbers
        /\ \A j \in above[i] : up[j] = up[i]
    BY <1>1, <1>6
  <1> QED BY <1>7 DEF up

(* uf_find: every root stays, and the number is hung under its own.          *)
LEMMA FoundIs ==
    ASSUME Size \in Nat, NEW p, Parents(p), NEW i \in Threads!Numbers
    PROVE  /\ Parents(Threads!Found(p, i))
           /\ Threads!Found(p, i)[i] = Threads!Root(p)[i]
           /\ \A j \in Threads!Numbers :
                /\ Threads!Root(Threads!Found(p, i))[j] = Threads!Root(p)[j]
                /\ Threads!Found(p, i)[j] \in {p[j], Threads!Root(p)[j]}
  <1>1. PICK above : /\ Way(p, above)
                     /\ Threads!Found(p, i) =
                          [j \in Threads!Numbers |-> IF j \in above[i] THEN Threads!Root(p)[i] ELSE p[j]]
    <2>1. \E above : Way(p, above)
      BY WaysExist
    <2>2. Threads!Found(p, i) =
            LET above == CHOOSE above : Way(p, above)
            IN  [j \in Threads!Numbers |-> IF j \in above[i] THEN Threads!Root(p)[i] ELSE p[j]]
      BY Zenon DEF Threads!Found, Way
    <2> QED BY <2>1, <2>2, Zenon
  <1>2. PICK q, up : q = Threads!Found(p, i) /\ up = Threads!Root(p)
    OBVIOUS
  <1>3. /\ i \in above[i] /\ above[i] \subseteq Threads!Numbers
        /\ \A j \in above[i] : up[j] = up[i]
    BY <1>1, <1>2, WayHasOneRoot, Zenon
  <1>4. q = [j \in Threads!Numbers |-> IF j \in above[i] THEN up[i] ELSE p[j]]
    BY <1>1, <1>2, Zenon
  <1>5. \A j \in Threads!Numbers :
          up[j] \in Threads!Numbers /\ up[j] <= j /\ p[up[j]] = up[j] /\ up[up[j]] = up[j]
    BY <1>2, RootOK, RootIsItsOwn, Zenon
  <1>6. \A j \in Threads!Numbers : up[j] = IF p[j] = j THEN j ELSE up[p[j]]
    BY <1>2, RootStep, Zenon
  <1>7. p \in [Threads!Numbers -> Threads!Numbers] /\ \A j \in Threads!Numbers : p[j] <= j
    BY DEF Parents
  <1>8. Parents(q)
    BY <1>3, <1>4, <1>5, <1>7 DEF Parents
  <1>9. q[i] = up[i] /\ \A j \in Threads!Numbers : q[j] \in {p[j], up[j]}
    BY <1>3, <1>4
  <1>10. \A j \in Threads!Numbers : up[j] = IF q[j] = j THEN j ELSE up[q[j]]
    <2> SUFFICES ASSUME NEW j \in Threads!Numbers PROVE up[j] = IF q[j] = j THEN j ELSE up[q[j]]
      OBVIOUS
    <2>1. CASE q[j] = p[j]
      BY <1>6, <2>1
    <2>2. CASE q[j] = up[j]
      BY <1>5, <2>2
    <2> QED BY <1>9, <2>1, <2>2
  <1>11. \A j \in Threads!Numbers : Threads!Root(q)[j] = up[j]
    BY <1>8, <1>10, RootsAreThese
  <1> QED BY <1>2, <1>8, <1>9, <1>11, Zenon

(* uf_union: what had the larger root has the smaller one.                   *)
Joined(p, a, b, q) ==
  LET lo == Threads!Smaller(Threads!Root(p)[a], Threads!Root(p)[b])
      hi == Threads!Larger(Threads!Root(p)[a], Threads!Root(p)[b])
  IN  \A j \in Threads!Numbers :
        Threads!Root(q)[j] = IF Threads!Root(p)[j] = hi THEN lo ELSE Threads!Root(p)[j]
LEMMA UnionIs ==
    ASSUME Size \in Nat, NEW p, Parents(p), NEW a \in Threads!Numbers, NEW b \in Threads!Numbers
    PROVE  Parents(Threads!Union(p, a, b)) /\ Joined(p, a, b, Threads!Union(p, a, b))
  <1>1. PICK p1, q, up : /\ p1 = Threads!Found(p, a) /\ q = Threads!Found(p1, b) /\ up = Threads!Root(p)
    OBVIOUS
  <1>2. /\ Parents(p1) /\ p1[a] = up[a]
        /\ \A j \in Threads!Numbers : Threads!Root(p1)[j] = up[j]
    BY <1>1, FoundIs, Zenon
  <1>3. /\ Parents(q) /\ q[b] = Threads!Root(p1)[b]
        /\ \A j \in Threads!Numbers : /\ Threads!Root(q)[j] = Threads!Root(p1)[j]
                                      /\ q[j] \in {p1[j], Threads!Root(p1)[j]}
    BY <1>1, <1>2, FoundIs, Zenon
  <1>4. q[a] = up[a] /\ q[b] = up[b]
    BY <1>2, <1>3
  <1>5. \A j \in Threads!Numbers : Threads!Root(q)[j] = up[j]
    BY <1>2, <1>3
  <1>6. PICK lo, hi, r : /\ lo = Threads!Smaller(up[a], up[b]) /\ hi = Threads!Larger(up[a], up[b])
                         /\ r = Threads!Union(p, a, b)
    OBVIOUS
  <1>7. r = [q EXCEPT ![hi] = lo]
    BY <1>1, <1>4, <1>6, Zenon DEF Threads!Union
  <1>8. /\ \A j \in Threads!Numbers : up[j] \in Threads!Numbers /\ up[j] <= j
        /\ \A j \in Threads!Numbers : up[j] = IF q[j] = j THEN j ELSE up[q[j]]
        /\ \A j \in Threads!Numbers : up[up[j]] = up[j]
    <2>1. \A j \in Threads!Numbers : up[j] \in Threads!Numbers /\ up[j] <= j /\ up[up[j]] = up[j]
      BY <1>1, RootOK, RootIsItsOwn, Zenon
    <2>2. q \in [Threads!Numbers -> Threads!Numbers]
      BY <1>3 DEF Parents
    <2>3. \A j \in Threads!Numbers : Threads!Root(q)[j] = IF q[j] = j THEN j ELSE Threads!Root(q)[q[j]]
      BY <1>3, RootStep, Zenon
    <2> QED BY <1>5, <2>1, <2>2, <2>3
  <1>9. /\ lo \in Threads!Numbers /\ hi \in Threads!Numbers /\ lo <= hi /\ up[lo] = lo /\ up[hi] = hi
        /\ Threads!Numbers = 1..Size
    BY <1>6, <1>8 DEF Threads!Smaller, Threads!Larger, Threads!Numbers
  <1>10. q \in [Threads!Numbers -> Threads!Numbers] /\ \A j \in Threads!Numbers : q[j] <= j
    BY <1>3 DEF Parents
  <1>11. Parents(r)
    BY <1>7, <1>9, <1>10 DEF Parents
  <1>12. PICK g : g = [j \in Threads!Numbers |-> IF up[j] = hi THEN lo ELSE up[j]]
    OBVIOUS
  <1>13. \A j \in Threads!Numbers : g[j] = IF r[j] = j THEN j ELSE g[r[j]]
    <2> SUFFICES ASSUME NEW j \in Threads!Numbers PROVE g[j] = IF r[j] = j THEN j ELSE g[r[j]]
      OBVIOUS
    <2>1. CASE j = hi
      BY <1>7, <1>9, <1>10, <1>12, <2>1
    <2>2. CASE j # hi
      <3>1. r[j] = q[j] /\ q[j] \in Threads!Numbers
        BY <1>7, <1>10, <2>2
      <3>2. CASE q[j] = j
        BY <1>8, <1>12, <2>2, <3>1, <3>2
      <3>3. CASE q[j] # j
        BY <1>8, <1>12, <3>1, <3>3
      <3> QED BY <3>2, <3>3
    <2> QED BY <2>1, <2>2
  <1>14. \A j \in Threads!Numbers : Threads!Root(r)[j] = g[j]
    BY <1>11, <1>13, RootsAreThese
  <1>15. \A j \in Threads!Numbers : Threads!Root(r)[j] = IF up[j] = hi THEN lo ELSE up[j]
    BY <1>12, <1>14
  <1> QED BY <1>1, <1>6, <1>11, <1>15, Zenon DEF Joined

(* A set that has a number if and only if it has its root.                   *)
Split(p, s) == \A j \in Threads!Numbers : Threads!Root(p)[j] \in s <=> j \in s

LEMMA UnionKeeps ==
    ASSUME Size \in Nat, NEW p, Parents(p), NEW a \in Threads!Numbers, NEW b \in Threads!Numbers,
           NEW q, Joined(p, a, b, q)
    PROVE  /\ Threads!Root(q)[a] = Threads!Root(q)[b]
           /\ \A i, j \in Threads!Numbers : Threads!Root(p)[i] = Threads!Root(p)[j]
                                            => Threads!Root(q)[i] = Threads!Root(q)[j]
           /\ \A s : Split(p, s) /\ (a \in s <=> b \in s) => Split(q, s)
  <1>1. PICK up, ra, rb : up = Threads!Root(p) /\ ra = up[a] /\ rb = up[b]
    OBVIOUS
  <1>2. PICK lo, hi : lo = Threads!Smaller(ra, rb) /\ hi = Threads!Larger(ra, rb)
    OBVIOUS
  <1>3. \A j \in Threads!Numbers : Threads!Root(q)[j] = IF up[j] = hi THEN lo ELSE up[j]
    BY <1>1, <1>2, Zenon DEF Joined
  <1>4. {lo, hi} = {ra, rb}
    BY <1>2 DEF Threads!Smaller, Threads!Larger
  <1>5. Threads!Root(q)[a] = Threads!Root(q)[b]
    BY <1>1, <1>3, <1>4
  <1>6. ASSUME NEW s, Split(p, s), a \in s <=> b \in s PROVE Split(q, s)
    <2>1. \A j \in Threads!Numbers : up[j] \in s <=> j \in s
      BY <1>1, <1>6 DEF Split
    <2>2. lo \in s <=> hi \in s
      <3>1. ra \in s <=> rb \in s
        BY <1>1, <1>6, <2>1
      <3>2. CASE lo = ra
        BY <1>4, <3>1, <3>2
      <3>3. CASE lo = rb
        BY <1>4, <3>1, <3>3
      <3> QED BY <1>4, <3>2, <3>3
    <2>3. \A j \in Threads!Numbers : Threads!Root(q)[j] \in s <=> j \in s
      BY <1>3, <2>1, <2>2
    <2> QED BY <2>3 DEF Split
  <1> QED BY <1>1, <1>3, <1>5, <1>6

(* While the links are followed: a set that no link leaves is a union of     *)
(* groups, and what was linked so far is in one group.                       *)
OneGroup(i, j) == Threads!Root(parent)[i] = Threads!Root(parent)[j]
ThreadTypes == /\ metas \in [Threads!Numbers -> Threads!Meta] /\ Parents(parent)
               /\ subjRoot \in [1..Subjects -> 0..Size] /\ next \in 1..2 * Size + 1
NotTooFar == \A s \in SUBSET Threads!Numbers : Threads!Closed(s) => Split(parent, s)
Answered == \A j \in Threads!Numbers : j < next => \A i \in Threads!MidMap(metas[j].irt) : OneGroup(i, j)
Titled == \A i \in Threads!Numbers : i + Size < next /\ metas[i].subj # 0 =>
            subjRoot[metas[i].subj] # 0 /\ OneGroup(i, subjRoot[metas[i].subj])
Titles == \A t \in 1..Subjects : subjRoot[t] # 0 =>
            \E i \in Threads!Numbers : /\ metas[i].subj = t
                                       /\ \A s \in SUBSET Threads!Numbers : Threads!Closed(s) =>
                                            (i \in s <=> subjRoot[t] \in s)
ThreadsInv == ThreadTypes /\ NotTooFar /\ Answered /\ Titled /\ Titles

LEMMA ThreadsStart ==
    ASSUME Size \in Nat, Threads!Init
    PROVE  ThreadsInv
  <1>1. /\ metas \in [Threads!Numbers -> Threads!Meta] /\ parent = [i \in Threads!Numbers |-> i]
        /\ subjRoot = [s \in 1..Subjects |-> 0] /\ next = 1
    BY DEF Threads!Init
  <1>2. Threads!Numbers = 1..Size
    BY DEF Threads!Numbers
  <1>3. Parents(parent)
    BY <1>1, <1>2 DEF Parents
  <1>4. \A j \in Threads!Numbers : Threads!Root(parent)[j] = j
    BY <1>1, <1>3, RootStep
  <1>5. ThreadTypes
    BY <1>1, <1>3 DEF ThreadTypes
  <1>6. NotTooFar
    BY <1>4 DEF NotTooFar, Split
  <1>7. Answered /\ Titled /\ Titles
    BY <1>1, <1>2 DEF Answered, Titled, Titles
  <1> QED BY <1>5, <1>6, <1>7 DEF ThreadsInv

LEMMA LinksStay ==
    ASSUME metas' = metas
    PROVE  /\ \A s : Threads!Closed(s)' <=> Threads!Closed(s)
           /\ \A id : Threads!MidMap(id)' = Threads!MidMap(id)
  BY DEF Threads!Closed, Threads!Linked, Threads!MidMap

LEMMA ByAnswerKeeps ==
    ASSUME Size \in Nat, ThreadsInv, Threads!ByAnswer
    PROVE  ThreadsInv'
  <1>1. /\ next <= Size /\ next' = next + 1 /\ metas' = metas /\ subjRoot' = subjRoot
        /\ parent' = IF Threads!MidMap(metas[next].irt) = {} THEN parent
                     ELSE Threads!Union(parent, CHOOSE i \in Threads!MidMap(metas[next].irt) : TRUE, next)
    BY DEF Threads!ByAnswer
  <1>2. /\ metas \in [Threads!Numbers -> Threads!Meta] /\ Parents(parent)
        /\ subjRoot \in [1..Subjects -> 0..Size] /\ next \in 1..2 * Size + 1
    BY DEF ThreadsInv, ThreadTypes
  <1>3. Threads!Numbers = 1..Size /\ next \in Threads!Numbers
    BY <1>1, <1>2 DEF Threads!Numbers
  <1>4. \A id : /\ Threads!MidMap(id) \subseteq Threads!Numbers
                /\ \A i, j \in Threads!MidMap(id) : i = j
    BY <1>3 DEF Threads!MidMap
  <1>5. /\ Parents(parent')
        /\ \A i \in Threads!MidMap(metas[next].irt) : Threads!Root(parent')[i] = Threads!Root(parent')[next]
        /\ \A i, j \in Threads!Numbers : OneGroup(i, j) => Threads!Root(parent')[i] = Threads!Root(parent')[j]
        /\ \A s \in SUBSET Threads!Numbers : Threads!Closed(s) => Split(parent', s)
    <2>1. CASE Threads!MidMap(metas[next].irt) = {}
      BY <1>1, <1>2, <2>1 DEF OneGroup, ThreadsInv, NotTooFar
    <2>2. CASE Threads!MidMap(metas[next].irt) # {}
      <3>1. PICK a \in Threads!MidMap(metas[next].irt) : parent' = Threads!Union(parent, a, next)
        BY <1>1, <2>2, Zenon
      <3>2. a \in Threads!Numbers
        BY <1>4
      <3>3. Parents(parent') /\ Joined(parent, a, next, parent')
        BY <1>2, <1>3, <3>1, <3>2, UnionIs, Zenon
      <3>4. PICK then : then = parent'
        OBVIOUS
      <3>5. /\ Threads!Root(then)[a] = Threads!Root(then)[next]
            /\ \A i, j \in Threads!Numbers : Threads!Root(parent)[i] = Threads!Root(parent)[j]
                                             => Threads!Root(then)[i] = Threads!Root(then)[j]
            /\ \A s : Split(parent, s) /\ (a \in s <=> next \in s) => Split(then, s)
        BY <1>2, <1>3, <3>2, <3>3, <3>4, UnionKeeps
      <3>6. \A s \in SUBSET Threads!Numbers : Threads!Closed(s) => (a \in s <=> next \in s)
        BY <1>3, <3>2 DEF Threads!Closed, Threads!Linked
      <3>7. \A s \in SUBSET Threads!Numbers : Threads!Closed(s) => Split(parent, s)
        BY DEF ThreadsInv, NotTooFar
      <3>8. \A i \in Threads!MidMap(metas[next].irt) : i = a
        BY <1>4
      <3>9. \A s \in SUBSET Threads!Numbers : Threads!Closed(s) => Split(then, s)
        BY <3>5, <3>6, <3>7
      <3> QED BY <3>3, <3>4, <3>5, <3>8, <3>9, Zenon DEF OneGroup
    <2> QED BY <2>1, <2>2
  <1>6. ThreadTypes'
    BY <1>1, <1>2, <1>3, <1>5 DEF ThreadTypes
  <1>7. NotTooFar'
    BY <1>1, <1>5, LinksStay DEF NotTooFar
  <1>8. Answered'
    <2> SUFFICES ASSUME NEW j \in Threads!Numbers, (j < next)', NEW i \in Threads!MidMap(metas[j].irt)'
                 PROVE  OneGroup(i, j)'
      BY Zenon DEF Answered
    <2>1. j < next + 1
      BY <1>1
    <2>2. i \in Threads!MidMap(metas[j].irt)
      BY <1>1, LinksStay
    <2>3. CASE j = next
      <3>1. Threads!Root(parent')[i] = Threads!Root(parent')[j]
        BY <1>5, <2>2, <2>3
      <3> QED BY <3>1 DEF OneGroup
    <2>4. CASE j # next
      <3>1. j < next /\ i \in Threads!Numbers
        BY <1>2, <1>3, <1>4, <2>1, <2>2, <2>4
      <3>2. OneGroup(i, j)
        BY <2>2, <3>1 DEF ThreadsInv, Answered
      <3>3. Threads!Root(parent')[i] = Threads!Root(parent')[j]
        BY <1>5, <3>1, <3>2
      <3> QED BY <3>3 DEF OneGroup
    <2> QED BY <2>3, <2>4
  <1>9. Titled'
    BY <1>1, <1>2, <1>3 DEF Titled
  <1>10. Titles'
    <2>1. Titles
      BY DEF ThreadsInv
    <2> QED BY <1>1, <2>1, LinksStay DEF Titles
  <1> QED BY <1>6, <1>7, <1>8, <1>9, <1>10 DEF ThreadsInv

LEMMA BySubjectKeeps ==
    ASSUME Size \in Nat, Subjects \in Nat, ThreadsInv, Threads!BySubject
    PROVE  ThreadsInv'
  <1>1. PICK i, t, p : /\ i = next - Size /\ t = metas[i].subj /\ p = Threads!Found(parent, i)
                       /\ next \in Size + 1 .. 2 * Size
                       /\ \/ t = 0 /\ UNCHANGED <<parent, subjRoot>>
                          \/ /\ t # 0 /\ subjRoot[t] = 0
                             /\ parent' = p /\ subjRoot' = [subjRoot EXCEPT ![t] = p[i]]
                          \/ /\ t # 0 /\ subjRoot[t] # 0
                             /\ parent' = Threads!Union(p, subjRoot[t], p[i]) /\ subjRoot' = subjRoot
                       /\ next' = next + 1 /\ metas' = metas
    BY DEF Threads!BySubject
  <1>2. /\ metas \in [Threads!Numbers -> Threads!Meta] /\ Parents(parent)
        /\ subjRoot \in [1..Subjects -> 0..Size] /\ next \in 1..2 * Size + 1
    BY DEF ThreadsInv, ThreadTypes
  <1>3. Threads!Numbers = 1..Size /\ i \in Threads!Numbers /\ next = i + Size
    BY <1>1, <1>2 DEF Threads!Numbers
  <1>4. t # 0 => t \in 1..Subjects
    BY <1>1, <1>2, <1>3 DEF Threads!Meta
  <1>5. PICK up : up = Threads!Root(parent)
    OBVIOUS
  <1>6. up[i] \in Threads!Numbers /\ up[up[i]] = up[i]
    BY <1>2, <1>3, <1>5, RootOK, RootIsItsOwn
  <1>7. Parents(p) /\ p[i] = up[i] /\ \A j \in Threads!Numbers : Threads!Root(p)[j] = up[j]
    BY <1>1, <1>2, <1>3, <1>5, FoundIs
  <1>8. \A s \in SUBSET Threads!Numbers : Threads!Closed(s) => (up[i] \in s <=> i \in s)
    BY <1>3, <1>5 DEF ThreadsInv, NotTooFar, Split
  <1>9. \A s \in SUBSET Threads!Numbers : Threads!Closed(s) => Split(p, s)
    BY <1>5, <1>7 DEF ThreadsInv, NotTooFar, Split
  <1>10. /\ Parents(parent')
         /\ \A k, j \in Threads!Numbers : OneGroup(k, j) => Threads!Root(parent')[k] = Threads!Root(parent')[j]
         /\ \A s \in SUBSET Threads!Numbers : Threads!Closed(s) => Split(parent', s)
         /\ t # 0 => subjRoot'[t] # 0 /\ Threads!Root(parent')[i] = Threads!Root(parent')[subjRoot'[t]]
         /\ subjRoot' \in [1..Subjects -> 0..Size]
         /\ \A u \in 1..Subjects : subjRoot[u] # 0 => subjRoot'[u] = subjRoot[u]
         /\ Titles'
    <2>1. CASE t = 0
      BY <1>1, <1>2, <2>1, LinksStay DEF OneGroup, ThreadsInv, NotTooFar, Titles
    <2>2. CASE t # 0 /\ subjRoot[t] = 0
      <3>1. parent' = p /\ subjRoot' = [subjRoot EXCEPT ![t] = up[i]]
        BY <1>1, <1>7, <2>2
      <3>2. /\ \A u \in 1..Subjects : subjRoot'[u] = IF u = t THEN up[i] ELSE subjRoot[u]
            /\ subjRoot' \in [1..Subjects -> 0..Size]
        <4>1. up[i] \in 0..Size
          BY <1>3, <1>6
        <4>2. subjRoot \in [1..Subjects -> 0..Size] /\ t \in 1..Subjects
          BY <1>2, <1>4, <2>2
        <4>3. PICK root : root = up[i]
          OBVIOUS
        <4>4. subjRoot' = [subjRoot EXCEPT ![t] = root] /\ root \in 0..Size
          BY <3>1, <4>1, <4>3
        <4> QED BY <4>2, <4>3, <4>4
      <3>3. up[i] # 0
        BY <1>3, <1>6
      <3>4. Titles'
        <4> SUFFICES ASSUME NEW u \in 1..Subjects, subjRoot'[u] # 0
                     PROVE  \E k \in Threads!Numbers : /\ metas[k].subj = u
                               /\ \A s \in SUBSET Threads!Numbers : Threads!Closed(s) =>
                                    (k \in s <=> subjRoot'[u] \in s)
          BY <1>1, LinksStay DEF Titles
        <4>1. CASE u = t
          BY <1>1, <1>3, <1>8, <3>2, <4>1
        <4>2. CASE u # t
          BY <3>2, <4>2 DEF ThreadsInv, Titles
        <4> QED BY <4>1, <4>2
      <3>5. Threads!Root(p)[i] = Threads!Root(p)[up[i]]
        BY <1>3, <1>6, <1>7
      <3>6. subjRoot'[t] = up[i]
        BY <1>4, <2>2, <3>2
      <3>7. \A u \in 1..Subjects : subjRoot[u] # 0 => subjRoot'[u] = subjRoot[u]
        BY <2>2, <3>2
      <3>8. \A k, j \in Threads!Numbers : OneGroup(k, j) => Threads!Root(p)[k] = Threads!Root(p)[j]
        BY <1>5, <1>7 DEF OneGroup
      <3> QED BY <1>7, <1>9, <3>1, <3>2, <3>3, <3>4, <3>5, <3>6, <3>7, <3>8, Zenon
    <2>3. CASE t # 0 /\ subjRoot[t] # 0
      <3>1. PICK r : r = subjRoot[t] /\ r \in Threads!Numbers
        BY <1>2, <1>3, <1>4, <2>3
      <3>2. parent' = Threads!Union(p, r, up[i]) /\ subjRoot' = subjRoot
        BY <1>1, <1>7, <2>3, <3>1
      <3>3. PICK then : then = parent'
        OBVIOUS
      <3>4. Parents(then) /\ Joined(p, r, up[i], then)
        BY <1>6, <1>7, <3>1, <3>2, <3>3, UnionIs
      <3>5. /\ Threads!Root(then)[r] = Threads!Root(then)[up[i]]
            /\ \A k, j \in Threads!Numbers : Threads!Root(p)[k] = Threads!Root(p)[j]
                                             => Threads!Root(then)[k] = Threads!Root(then)[j]
            /\ \A s : Split(p, s) /\ (r \in s <=> up[i] \in s) => Split(then, s)
        BY <1>6, <1>7, <3>1, <3>4, UnionKeeps
      <3>6. \A s \in SUBSET Threads!Numbers : Threads!Closed(s) => (r \in s <=> up[i] \in s)
        <4>1. PICK k \in Threads!Numbers : /\ metas[k].subj = t
                                           /\ \A s \in SUBSET Threads!Numbers : Threads!Closed(s) =>
                                                (k \in s <=> r \in s)
          BY <1>4, <2>3, <3>1 DEF ThreadsInv, Titles
        <4>2. Threads!Linked(k, i) /\ Threads!Linked(i, k)
          BY <1>1, <2>3, <4>1 DEF Threads!Linked
        <4>3. \A s : Threads!Closed(s) => (k \in s <=> i \in s)
          BY <1>3, <4>2 DEF Threads!Closed
        <4> QED BY <1>8, <4>1, <4>3
      <3>7. \A s \in SUBSET Threads!Numbers : Threads!Closed(s) => Split(then, s)
        BY <1>9, <3>5, <3>6
      <3>8. \A k, j \in Threads!Numbers : OneGroup(k, j) => Threads!Root(then)[k] = Threads!Root(then)[j]
        BY <1>5, <1>7, <3>5 DEF OneGroup
      <3>9. Threads!Root(then)[i] = Threads!Root(then)[r]
        BY <1>3, <1>6, <1>7, <3>5
      <3>10. Titles'
        BY <1>1, <3>2, LinksStay DEF ThreadsInv, Titles
      <3> QED BY <1>2, <2>3, <3>1, <3>2, <3>3, <3>4, <3>7, <3>8, <3>9, <3>10, Zenon
    <2> QED BY <1>1, <2>1, <2>2, <2>3
  <1>11. ThreadTypes'
    <2>1. next' \in 1..2 * Size + 1
      BY <1>1
    <2> QED BY <1>1, <1>2, <1>10, <2>1 DEF ThreadTypes
  <1>12. NotTooFar'
    BY <1>1, <1>10, LinksStay DEF NotTooFar
  <1>13. Answered'
    <2>1. \A k \in Threads!Numbers : k < next
      BY <1>1, <1>3
    <2>2. \A k \in Threads!Numbers : \A j \in Threads!MidMap(metas[k].irt) : j \in Threads!Numbers /\ OneGroup(j, k)
      BY <2>1 DEF ThreadsInv, Answered, Threads!MidMap
    <2>3. \A k \in Threads!Numbers : \A j \in Threads!MidMap(metas[k].irt) :
            Threads!Root(parent')[j] = Threads!Root(parent')[k]
      BY <1>10, <2>2
    <2> QED BY <1>1, <2>3, LinksStay DEF Answered, OneGroup
  <1>14. Titled'
    <2> SUFFICES ASSUME NEW k \in Threads!Numbers, k + Size < next + 1, metas[k].subj # 0
                 PROVE  /\ subjRoot'[metas[k].subj] # 0
                        /\ Threads!Root(parent')[k] = Threads!Root(parent')[subjRoot'[metas[k].subj]]
      BY <1>1 DEF Titled, OneGroup
    <2>1. CASE k = i
      BY <1>1, <1>10, <2>1
    <2>2. CASE k # i
      <3>1. k + Size < next
        BY <1>3, <2>2
      <3>2. metas[k].subj \in 1..Subjects
        BY <1>2 DEF Threads!Meta
      <3>3. subjRoot[metas[k].subj] # 0 /\ OneGroup(k, subjRoot[metas[k].subj])
        BY <3>1 DEF ThreadsInv, Titled
      <3>4. subjRoot[metas[k].subj] \in Threads!Numbers
        BY <1>2, <1>3, <3>2, <3>3
      <3> QED BY <1>10, <3>2, <3>3, <3>4
    <2> QED BY <2>1, <2>2
  <1> QED BY <1>10, <1>11, <1>12, <1>13, <1>14 DEF ThreadsInv

LEMMA GroupingKeeps ==
    ASSUME Size \in Nat, Subjects \in Nat, ThreadsInv, [Threads!Next]_(Threads!vars)
    PROVE  ThreadsInv'
  <1>1. CASE Threads!Next
    BY <1>1, ByAnswerKeeps, BySubjectKeeps DEF Threads!Next
  <1>2. CASE UNCHANGED Threads!vars
    <2>1. UNCHANGED <<metas, parent, subjRoot, next>>
      BY <1>2 DEF Threads!vars
    <2> QED BY <2>1, LinksStay DEF ThreadsInv, ThreadTypes, NotTooFar, Answered, Titled, Titles, OneGroup
  <1> QED BY <1>1, <1>2

LEMMA ThreadsGroup ==
    ASSUME Size \in Nat, ThreadsInv
    PROVE  Threads!GroupsAreComponents
  <1> SUFFICES ASSUME next > 2 * Size, NEW i \in Threads!Numbers, NEW j \in Threads!Numbers
               PROVE  Threads!Root(parent)[i] = Threads!Root(parent)[j] <=> Threads!Together(i, j)
    BY DEF Threads!GroupsAreComponents
  <1>1. ASSUME OneGroup(i, j) PROVE Threads!Together(i, j)
    <2> SUFFICES ASSUME NEW s \in SUBSET Threads!Numbers, i \in s, Threads!Closed(s) PROVE j \in s
      BY DEF Threads!Together
    <2>1. Split(parent, s)
      BY DEF ThreadsInv, NotTooFar
    <2> QED BY <1>1, <2>1 DEF Split, OneGroup
  <1>2. ASSUME Threads!Together(i, j) PROVE OneGroup(i, j)
    <2>1. PICK s : s = {k \in Threads!Numbers : OneGroup(i, k)}
      OBVIOUS
    <2>2. i \in s /\ s \in SUBSET Threads!Numbers
      BY <2>1 DEF OneGroup
    <2>3. ASSUME NEW k \in Threads!Numbers, NEW l \in Threads!Numbers, Threads!Linked(k, l)
          PROVE  OneGroup(k, l)
      <3>1. next \in 1..2 * Size + 1 /\ Threads!Numbers = 1..Size
        BY DEF ThreadsInv, ThreadTypes, Threads!Numbers
      <3>2. k < next /\ l < next /\ k + Size < next /\ l + Size < next
        BY <3>1
      <3>3. CASE k \in Threads!MidMap(metas[l].irt)
        BY <3>2, <3>3 DEF ThreadsInv, Answered
      <3>4. CASE l \in Threads!MidMap(metas[k].irt)
        <4>1. OneGroup(l, k)
          BY <3>2, <3>4 DEF ThreadsInv, Answered
        <4> QED BY <4>1 DEF OneGroup
      <3>5. CASE metas[k].subj = metas[l].subj /\ metas[k].subj # 0
        <4>1. OneGroup(k, subjRoot[metas[k].subj]) /\ OneGroup(l, subjRoot[metas[l].subj])
          BY <3>2, <3>5 DEF ThreadsInv, Titled
        <4> QED BY <3>5, <4>1 DEF OneGroup
      <3> QED BY <2>3, <3>3, <3>4, <3>5 DEF Threads!Linked
    <2>4. Threads!Closed(s)
      BY <2>1, <2>3 DEF Threads!Closed, OneGroup
    <2>5. j \in s
      BY <1>2, <2>2, <2>4 DEF Threads!Together
    <2> QED BY <2>1, <2>5
  <1> QED BY <1>1, <1>2 DEF OneGroup

(* The conversations of an IMAP folder are the connected components of       *)
(* "answers" and "has the same subject", whatever ids, answers and subjects  *)
(* its messages have: union-find joins neither more nor less (ImapThreads).  *)
THEOREM ConversationsAreComponents ==
    ASSUME Size \in Nat, Subjects \in Nat
    PROVE  MCSpec => []GroupsAreComponents
  <1> DEFINE Inv == part = "threads" => ThreadsInv
  <1>1. MCInit => Inv
    BY PartsStart, ThreadsStart
  <1>2. Inv /\ [MCNext]_<<part, acting, reading>> => Inv'
    BY PartStays, PartsStep, GroupingKeeps
  <1>3. Inv => GroupsAreComponents
    BY ThreadsGroup DEF GroupsAreComponents
  <1> HIDE DEF Inv
  <1> QED BY <1>1, <1>2, <1>3, PTL DEF MCSpec
=============================================================================
