-------------------------- MODULE MailActionsProofs --------------------------
(***************************************************************************)
(* The undo toast keeps its contract and rows stay away or come back as    *)
(* they should: for any conversations, accounts, sizes and gestures.       *)
(***************************************************************************)
EXTENDS MailActions, FiniteSetTheorems, TLAPS

AtMostOne(S) == \A x, y \in S : x = y

Types == /\ left \in [Conversations -> 0..Size]
         /\ cache \subseteq Conversations /\ hidden \subseteq Conversations
         /\ snoozed \subseteq Conversations
         /\ removed \subseteq Conversations /\ stranded \subseteq Conversations
         /\ revived \subseteq Conversations
         /\ fetch \subseteq SUBSET Conversations /\ AtMostOne(fetch)
         /\ pending \subseteq Actions /\ AtMostOne(pending)
         /\ timers = pending
         /\ jobs \subseteq Jobs
         /\ gestures \in 0..MaxGestures
         /\ pending # {} => gestures > 0

----------------------------------------------------------------------------
(* Calling mutations.  Those under way stay what they are but for being     *)
(* observed.                                                                *)

Like(x, j) == x.convs = j.convs /\ x.kind = j.kind /\ x.hides = j.hides /\ x.phase = j.phase

Adds(new) == /\ jobs' \subseteq Jobs
             /\ \A j \in jobs : \E x \in jobs' : Like(x, j)
             /\ new \subseteq jobs'
             /\ \A x \in jobs' : x \in new \/ \E j \in jobs : Like(x, j)

Started(as) == {Call(gestures, a.kind, {a.conv}, TRUE, TRUE) : a \in as}

LEMMA CallsAdd ==
    ASSUME Types, NEW kind, NEW new \in SUBSET Jobs, jobs' = Calls(jobs, kind, new)
    PROVE  Adds(new)
  <1> DEFINE still(j) == [j EXCEPT !.observed = @ /\ j.kind # kind]
  <1>1. jobs' = {still(j) : j \in jobs} \cup new
    BY DEF Calls
  <1>2. \A j \in jobs : still(j) \in Jobs /\ Like(still(j), j)
    <2> TAKE j \in jobs
    <2>1. j \in Jobs
      BY DEF Types
    <2>2. (j.observed /\ j.kind # kind) \in BOOLEAN
      OBVIOUS
    <2> QED BY <2>1, <2>2 DEF Jobs, Like
  <1> HIDE DEF still
  <1> QED BY <1>1, <1>2 DEF Adds

LEMMA ExecuteAdds ==
    ASSUME Types, NEW as \in SUBSET Actions, AtMostOne(as), as # {} => gestures > 0, Execute(as)
    PROVE  /\ Adds(Started(as)) /\ Started(as) \subseteq Jobs
           /\ cache' = cache \ {a.conv : a \in as}
           /\ fetch' \subseteq fetch
  <1>1. Started(as) \subseteq Jobs
    <2> SUFFICES ASSUME NEW a \in as PROVE Call(gestures, a.kind, {a.conv}, TRUE, TRUE) \in Jobs
      BY DEF Started
    <2>1. a.kind \in Kinds /\ a.conv \in Conversations
      BY DEF Actions
    <2>2. gestures \in 1..MaxGestures /\ cache \in SUBSET Conversations
      <3>1. as # {}
        OBVIOUS
      <3>2. gestures > 0
        BY <3>1
      <3> QED BY <3>2, GestureAssumption DEF Types
    <2> QED BY <2>1, <2>2 DEF Call, Jobs
  <1>2. CASE as = {}
    BY <1>1, <1>2 DEF Execute, Started, Adds, Like, Types
  <1>3. CASE as # {}
    <2>1. jobs' = Calls(jobs, (CHOOSE a \in as : TRUE).kind, Started(as))
      BY <1>3 DEF Execute, Started
    <2>2. Adds(Started(as))
      BY <1>1, <2>1, CallsAdd
    <2> QED BY <1>1, <2>2 DEF Execute, Cancelled
  <1> QED BY <1>2, <1>3

(* What a bulk action calls: one mutation per account of its conversations.  *)
Owners(convs) == {AccountOf[c] : c \in convs}
Owned(convs, a) == {c \in convs : AccountOf[c] = a}
BulkCalls(kind, convs, last) ==
  {Call(gestures + 1, kind, Owned(convs, a), TRUE, a = last) : a \in Owners(convs)}
SnoozeCalls(convs, last) ==
  {Call(gestures + 1, "snooze", {c}, FALSE, c = last) : c \in convs}

LEMMA BulkAdds ==
    ASSUME Types, NEW kind \in BulkKinds, NEW convs \in SUBSET Conversations, Bulk(kind, convs)
    PROVE  \E last : /\ Adds(BulkCalls(kind, convs, last))
                     /\ BulkCalls(kind, convs, last) \subseteq Jobs
  <1>1. PICK last : jobs' = Calls(jobs, kind, BulkCalls(kind, convs, last))
    BY DEF Bulk, BulkCalls, Owners, Owned
  <1>2. gestures + 1 \in 1..MaxGestures
    BY GestureAssumption DEF Bulk, Types
  <1>3. BulkCalls(kind, convs, last) \subseteq Jobs
    <2> SUFFICES ASSUME NEW a \in Owners(convs)
                 PROVE  Call(gestures + 1, kind, Owned(convs, a), TRUE, a = last) \in Jobs
      BY DEF BulkCalls
    <2>1. Owned(convs, a) \in SUBSET Conversations /\ (a = last) \in BOOLEAN
      BY DEF Owned
    <2>2. cache \in SUBSET Conversations
      BY DEF Types
    <2> QED BY <1>2, <2>1, <2>2 DEF Call, Jobs
  <1> QED BY <1>1, <1>3, CallsAdd

LEMMA BulkSnoozeAdds ==
    ASSUME Types, NEW convs \in SUBSET Conversations, HandleBulkSnooze(convs)
    PROVE  \E last : Adds(SnoozeCalls(convs, last)) /\ SnoozeCalls(convs, last) \subseteq Jobs
  <1>1. PICK last : jobs' = Calls(jobs, "snooze", SnoozeCalls(convs, last))
    BY DEF HandleBulkSnooze, SnoozeCalls
  <1>2. gestures + 1 \in 1..MaxGestures
    BY GestureAssumption DEF HandleBulkSnooze, Types
  <1>3. SnoozeCalls(convs, last) \subseteq Jobs
    <2> SUFFICES ASSUME NEW c \in convs
                 PROVE  Call(gestures + 1, "snooze", {c}, FALSE, c = last) \in Jobs
      BY DEF SnoozeCalls
    <2>1. {c} \in SUBSET Conversations /\ (c = last) \in BOOLEAN
      OBVIOUS
    <2>2. cache \in SUBSET Conversations
      BY DEF Types
    <2> QED BY <1>2, <2>1, <2>2 DEF Call, Jobs, Kinds
  <1> QED BY <1>1, <1>3, CallsAdd

----------------------------------------------------------------------------
(* The types of the variables.                                              *)

LEMMA OneIsFew ==
    ASSUME NEW S, AtMostOne(S) PROVE Cardinality(S) <= 1
  <1>1. CASE S = {}
    BY <1>1, FS_EmptySet
  <1>2. CASE S # {}
    <2>1. PICK x : x \in S
      BY <1>2
    <2>2. S = {x}
      BY <2>1 DEF AtMostOne
    <2>3. Cardinality(S) = 1
      BY <2>2, FS_Singleton
    <2> QED BY <2>3
  <1> QED BY <1>1, <1>2

LEMMA TypesAreTyped == Types => TypeOK
  BY OneIsFew DEF Types, TypeOK

LEMMA TypesInit == Init => Types
  <1> SUFFICES ASSUME Init PROVE Types
    OBVIOUS
  <1>1. left \in [Conversations -> 0..Size] /\ 0 \in 0..MaxGestures
    BY SizeAssumption, GestureAssumption DEF Init
  <1> QED BY <1>1 DEF Init, Types, AtMostOne

(* The three gestures on one conversation are offers.                       *)
Gesture(c) == MoveToTrash(c) \/ HandleMove(c) \/ HandleSnooze(c)

LEMMA GestureOffers ==
    ASSUME NEW c, Gesture(c)
    PROVE  \E kind \in Kinds : /\ Offer(c, kind)
                              /\ snoozed' = snoozed \cup (IF kind = "snooze" THEN {c} ELSE {})
  <1>1. CASE MoveToTrash(c)
    <2>1. "trash" \in Kinds /\ Offer(c, "trash") /\ snoozed' = snoozed
      BY <1>1 DEF MoveToTrash, Kinds
    <2> QED BY <2>1
  <1>2. CASE HandleMove(c)
    <2>1. "move" \in Kinds /\ Offer(c, "move") /\ snoozed' = snoozed
      BY <1>2 DEF HandleMove, Kinds
    <2> QED BY <2>1
  <1>3. CASE HandleSnooze(c)
    <2>1. "snooze" \in Kinds /\ Offer(c, "snooze") /\ snoozed' = snoozed \cup {c}
      BY <1>3 DEF HandleSnooze, Kinds
    <2> QED BY <2>1
  <1> QED BY <1>1, <1>2, <1>3 DEF Gesture

(* An offer calls what was pending; an expired timer calls its own action.   *)
LEMMA OfferAdds ==
    ASSUME Types, NEW c \in Conversations, NEW kind \in Kinds, Offer(c, kind)
    PROVE  /\ Adds(Started(pending)) /\ Started(pending) \subseteq Jobs
           /\ cache' = cache \ {a.conv : a \in pending} /\ fetch' \subseteq fetch
           /\ pending' = {[conv |-> c, kind |-> kind]} /\ timers' = pending'
  <1>1. Execute(pending) /\ pending' = {[conv |-> c, kind |-> kind]} /\ timers' = pending'
    BY DEF Offer, Flushed, Types
  <1>2. pending \in SUBSET Actions /\ AtMostOne(pending) /\ (pending # {} => gestures > 0)
    BY DEF Types
  <1> QED BY <1>1, <1>2, ExecuteAdds

LEMMA ExpireAdds ==
    ASSUME Types, NEW a \in timers, Expire(a)
    PROVE  /\ Adds(Started({a})) /\ Started({a}) \subseteq Jobs
           /\ cache' = cache \ {b.conv : b \in {a}} /\ fetch' \subseteq fetch
           /\ pending = {a} /\ pending' = {} /\ timers' = {}
           /\ a \in Actions
  <1>1. pending = {a} /\ a \in Actions /\ gestures > 0
    BY DEF Types, AtMostOne
  <1>2. Execute({a}) /\ pending' = {} /\ timers' = {}
    BY <1>1 DEF Expire, Types
  <1>3. {a} \in SUBSET Actions /\ AtMostOne({a})
    BY <1>1 DEF AtMostOne
  <1> QED BY <1>1, <1>2, <1>3, ExecuteAdds

(* A request of a mutation leaves less of one of its conversations.          *)
LEMMA WorkRemoves ==
    ASSUME Types, NEW j \in jobs, Work(j)
    PROVE  /\ \E c \in j.convs : \E n \in 0..left[c] : left' = [left EXCEPT ![c] = n]
           /\ j.convs \subseteq Conversations
           /\ UNCHANGED <<cache, fetch, hidden, pending, timers, jobs, snoozed, gestures, history>>
  <1>1. PICK rest \in {OneLess, NoneLeft} : Request(j, rest)
    BY DEF Work, MoveToTrashFn, SnoozeThreadFn, MoveThreadFn, BulkFn
  <1>2. PICK c \in j.convs : left[c] > 0 /\ left' = [left EXCEPT ![c] = rest[@]]
    BY <1>1 DEF Request
  <1>3. j.convs \subseteq Conversations
    BY DEF Types, Jobs
  <1>4. left[c] \in 0..Size
    BY <1>3 DEF Types
  <1>5. rest[left[c]] \in 0..left[c]
    BY <1>2, <1>4, SizeAssumption DEF OneLess, NoneLeft
  <1>6. left' = [left EXCEPT ![c] = rest[left[c]]]
    BY <1>2
  <1> QED BY <1>1, <1>3, <1>5, <1>6 DEF Request

LEMMA TypesStep == Types /\ [Next]_vars => Types'
  <1> SUFFICES ASSUME Types, [Next]_vars PROVE Types'
    OBVIOUS
  <1> USE GestureAssumption DEF history
  <1>1. ASSUME NEW c \in Conversations, Gesture(c) PROVE Types'
    <2>1. PICK kind \in Kinds : /\ Offer(c, kind)
                               /\ snoozed' = snoozed \cup (IF kind = "snooze" THEN {c} ELSE {})
      BY <1>1, GestureOffers
    <2>2. /\ jobs' \subseteq Jobs /\ cache' \subseteq cache /\ fetch' \subseteq fetch
          /\ pending' = {[conv |-> c, kind |-> kind]} /\ timers' = pending'
      BY <2>1, OfferAdds DEF Adds
    <2>3. pending' \subseteq Actions /\ AtMostOne(pending')
      BY <2>2 DEF Actions, AtMostOne
    <2>4. hidden' \subseteq Conversations
      BY <2>1 DEF Offer, Rehidden, Types, Actions
    <2>5. gestures' \in 0..MaxGestures /\ gestures' > 0
      BY <2>1 DEF Offer, Types
    <2>6. AtMostOne(fetch') /\ fetch' \subseteq SUBSET Conversations
      BY <2>2 DEF Types, AtMostOne
    <2> QED BY <2>1, <2>2, <2>3, <2>4, <2>5, <2>6 DEF Offer, Types
  <1>2. ASSUME NEW a \in timers, Expire(a) PROVE Types'
    <2>1. /\ jobs' \subseteq Jobs /\ cache' \subseteq cache /\ fetch' \subseteq fetch
          /\ pending' = {} /\ timers' = {} /\ a \in Actions
      BY <1>2, ExpireAdds DEF Adds
    <2>2. hidden' \subseteq Conversations
      BY <1>2, <2>1 DEF Expire, Rehidden, Types, Actions
    <2>3. AtMostOne(fetch') /\ AtMostOne(pending')
      BY <2>1 DEF Types, AtMostOne
    <2> QED BY <1>2, <2>1, <2>2, <2>3 DEF Expire, Types
  <1>3. CASE Undo
    BY <1>3 DEF Undo, RolledBack, Types, AtMostOne
  <1>4. ASSUME NEW convs \in SUBSET Conversations, NEW kind \in BulkKinds, Bulk(kind, convs)
        PROVE  Types'
    <2>1. jobs' \subseteq Jobs
      BY <1>4, BulkAdds DEF Adds
    <2>2. gestures' \in 0..MaxGestures /\ gestures' > 0
      BY <1>4 DEF Bulk, Types
    <2> QED BY <1>4, <2>1, <2>2 DEF Bulk, Cancelled, Types, AtMostOne
  <1>5. ASSUME NEW convs \in SUBSET Conversations, HandleBulkSnooze(convs) PROVE Types'
    <2>1. jobs' \subseteq Jobs
      BY <1>5, BulkSnoozeAdds DEF Adds
    <2>2. gestures' \in 0..MaxGestures /\ gestures' > 0
      BY <1>5 DEF HandleBulkSnooze, Types
    <2> QED BY <1>5, <2>1, <2>2 DEF HandleBulkSnooze, Cancelled, Types, AtMostOne
  <1>6. ASSUME NEW j \in jobs, Work(j) PROVE Types'
    <2>1. left' \in [Conversations -> 0..Size]
      <3>1. PICK c \in j.convs : \E n \in 0..left[c] : left' = [left EXCEPT ![c] = n]
        BY <1>6, WorkRemoves
      <3>2. c \in Conversations /\ left[c] \in 0..Size
        BY <1>6, WorkRemoves DEF Types
      <3>3. PICK n \in 0..left[c] : left' = [left EXCEPT ![c] = n]
        BY <3>1
      <3>4. n \in 0..Size
        BY <3>2, SizeAssumption
      <3> QED BY <3>3, <3>4 DEF Types
    <2> QED BY <1>6, <2>1, WorkRemoves DEF Types
  <1>7. ASSUME NEW j \in jobs, Clean(j) PROVE Types'
    <2>1. [j EXCEPT !.phase = "cleaned"] \in Jobs /\ j.convs \subseteq Conversations
      BY DEF Types, Jobs
    <2> QED BY <1>7, <2>1 DEF Clean, Cancelled, Types, AtMostOne
  <1>8. ASSUME NEW j \in jobs, Settle(j) \/ Fail(j) PROVE Types'
    <2>1. j.convs \subseteq Conversations /\ j.before \subseteq Conversations
      BY DEF Types, Jobs
    <2>2. cache' \subseteq Conversations /\ revived' \subseteq Conversations
      BY <1>8, <2>1 DEF Settle, Fail, Restored, Types
    <2> QED BY <1>8, <2>1, <2>2 DEF Settle, Fail, Unhidden, Unmarked, StrandedBy, Types
  <1>9. CASE Ask \/ Answer \/ SelectAccount \/ Close
    BY <1>9 DEF Ask, Answer, SelectAccount, Close, Listing, Types, AtMostOne
  <1>10. CASE UNCHANGED vars
    BY <1>10 DEF vars, Types
  <1> QED
    BY <1>1, <1>2, <1>3, <1>4, <1>5, <1>6, <1>7, <1>8, <1>9, <1>10
       DEF Next, Gesture, HandleBulkDelete, HandleBulkMove, BulkKinds

(* Every variable keeps its type, at most one action waits for its undo, and *)
(* the armed timers are exactly those of the waiting action.                *)
THEOREM TypeCorrect == Spec => []TypeOK
  BY TypesInit, TypesStep, TypesAreTyped, PTL DEF Spec

----------------------------------------------------------------------------
(* Rows are hidden, and conversations marked as snoozed, for a reason: the   *)
(* action that is waiting, or a mutation whose end takes the row or the mark *)
(* back.  A mutation of another kind is no reason, although Busy counts it.  *)
HiddenBy(c) == \E j \in jobs : c \in j.convs /\ j.hides
MarkedBy(c) == \E j \in jobs : c \in j.convs /\ j.kind = "snooze"
Waiting(c) == \E a \in pending : a.conv = c
Snoozing(c) == \E a \in pending : a.conv = c /\ a.kind = "snooze"
Emptied == \A j \in jobs : j.phase = "cleaned" => \A c \in j.convs : left[c] = 0

Reasons == /\ \A c \in hidden : Waiting(c) \/ HiddenBy(c) \/ c \in stranded
           /\ \A c \in snoozed : left[c] = 0 \/ Snoozing(c) \/ MarkedBy(c) \/ c \in stranded
           /\ Emptied

LEMMA ReasonsSuffice == Reasons => MarksHaveReason
  BY DEF Reasons, MarksHaveReason, Busy, Waiting, HiddenBy, Snoozing, MarkedBy

LEMMA AddsKeepsReasons ==
    ASSUME NEW new, Adds(new)
    PROVE  /\ \A c : HiddenBy(c) => HiddenBy(c)'
           /\ \A c : MarkedBy(c) => MarkedBy(c)'
  BY DEF Adds, Like, HiddenBy, MarkedBy

LEMMA AddsKeepsEmptied ==
    ASSUME NEW new, Adds(new), Emptied, UNCHANGED left, \A x \in new : x.phase = "running"
    PROVE  Emptied'
  <1> SUFFICES ASSUME NEW x \in jobs', x.phase = "cleaned", NEW c \in x.convs
               PROVE  left[c] = 0
    BY DEF Emptied
  <1>1. PICK j \in jobs : Like(x, j)
    BY DEF Adds
  <1> QED BY <1>1 DEF Like, Emptied

(* What was waiting goes on as a mutation: the reasons it gave remain.       *)
LEMMA StartedKeepsReasons ==
    ASSUME Types, Reasons, pending \in SUBSET Actions, Adds(Started(pending)), UNCHANGED left
    PROVE  /\ \A c : Waiting(c) \/ HiddenBy(c) => HiddenBy(c)'
           /\ \A c : Snoozing(c) \/ MarkedBy(c) => MarkedBy(c)'
           /\ \A c \in Rehidden(pending) : HiddenBy(c)'
           /\ Emptied'
  <1>1. \A a \in pending : \E x \in Started(pending) :
           x.convs = {a.conv} /\ x.hides /\ x.kind = a.kind
    <2> TAKE a \in pending
    <2> DEFINE x == Call(gestures, a.kind, {a.conv}, TRUE, TRUE)
    <2>1. x \in Started(pending)
      BY DEF Started
    <2>2. x.convs = {a.conv} /\ x.hides /\ x.kind = a.kind
      BY DEF Call
    <2> QED BY <2>1, <2>2
  <1>2. \A x \in Started(pending) : x.phase = "running"
    BY DEF Started, Call
  <1>3. \A c : Waiting(c) => HiddenBy(c)'
    <2> SUFFICES ASSUME NEW c, NEW a \in pending, a.conv = c PROVE HiddenBy(c)'
      BY DEF Waiting
    <2>1. PICK x \in Started(pending) : x.convs = {a.conv} /\ x.hides /\ x.kind = a.kind
      BY <1>1
    <2>2. c \in x.convs
      BY <2>1
    <2> QED BY <2>1, <2>2 DEF Adds, HiddenBy
  <1>4. \A c : Snoozing(c) => MarkedBy(c)'
    <2> SUFFICES ASSUME NEW c, NEW a \in pending, a.conv = c, a.kind = "snooze" PROVE MarkedBy(c)'
      BY DEF Snoozing
    <2>1. PICK x \in Started(pending) : x.convs = {a.conv} /\ x.hides /\ x.kind = a.kind
      BY <1>1
    <2>2. c \in x.convs
      BY <2>1
    <2> QED BY <2>1, <2>2 DEF Adds, MarkedBy
  <1>5. Emptied'
    BY <1>2, AddsKeepsEmptied DEF Reasons
  <1>6. \A c \in Rehidden(pending) : Waiting(c)
    BY DEF Rehidden, Waiting
  <1> QED BY <1>3, <1>4, <1>5, <1>6, AddsKeepsReasons

LEMMA ReasonsInit == Init => Reasons
  BY DEF Init, Reasons, Emptied

LEMMA ReasonsStep == Types /\ Reasons /\ [Next]_vars => Reasons'
  <1> SUFFICES ASSUME Types, Reasons, [Next]_vars PROVE Reasons'
    OBVIOUS
  <1> USE DEF history
  <1>1. ASSUME NEW c \in Conversations, Gesture(c) PROVE Reasons'
    <2>1. PICK kind \in Kinds : /\ Offer(c, kind)
                               /\ snoozed' = snoozed \cup (IF kind = "snooze" THEN {c} ELSE {})
      BY <1>1, GestureOffers
    <2>2. /\ Adds(Started(pending)) /\ pending \in SUBSET Actions
          /\ pending' = {[conv |-> c, kind |-> kind]}
      BY <2>1, OfferAdds DEF Types
    <2>3. UNCHANGED <<left, stranded>> /\ hidden' = hidden \cup Rehidden(pending) \cup {c}
      BY <2>1 DEF Offer
    <2>4. Waiting(c)' /\ (kind = "snooze" => Snoozing(c)')
      BY <2>2 DEF Waiting, Snoozing
    <2>5. /\ \A d : Waiting(d) \/ HiddenBy(d) => HiddenBy(d)'
          /\ \A d : Snoozing(d) \/ MarkedBy(d) => MarkedBy(d)'
          /\ \A d \in Rehidden(pending) : HiddenBy(d)'
          /\ Emptied'
      BY <2>2, <2>3, StartedKeepsReasons
    <2>6. \A d \in hidden' : Waiting(d)' \/ HiddenBy(d)' \/ d \in stranded'
      BY <2>3, <2>4, <2>5 DEF Reasons
    <2>7. \A d \in snoozed' : left'[d] = 0 \/ Snoozing(d)' \/ MarkedBy(d)' \/ d \in stranded'
      BY <2>1, <2>3, <2>4, <2>5 DEF Reasons
    <2> QED BY <2>5, <2>6, <2>7 DEF Reasons
  <1>2. ASSUME NEW a \in timers, Expire(a) PROVE Reasons'
    <2>1. /\ Adds(Started(pending)) /\ pending \in SUBSET Actions /\ pending = {a}
      BY <1>2, ExpireAdds DEF Types
    <2>2. UNCHANGED <<left, stranded, snoozed>> /\ hidden' = hidden \cup Rehidden(pending)
      BY <1>2, <2>1 DEF Expire
    <2>3. /\ \A d : Waiting(d) \/ HiddenBy(d) => HiddenBy(d)'
          /\ \A d : Snoozing(d) \/ MarkedBy(d) => MarkedBy(d)'
          /\ \A d \in Rehidden(pending) : HiddenBy(d)'
          /\ Emptied'
      BY <2>1, <2>2, StartedKeepsReasons
    <2>4. \A d \in hidden' : HiddenBy(d)' \/ d \in stranded'
      BY <2>2, <2>3 DEF Reasons
    <2>5. \A d \in snoozed' : left'[d] = 0 \/ MarkedBy(d)' \/ d \in stranded'
      BY <2>2, <2>3 DEF Reasons
    <2> QED BY <2>3, <2>4, <2>5 DEF Reasons
  <1>3. CASE Undo
    <2>1. UNCHANGED <<left, jobs, stranded>>
      BY <1>3 DEF Undo
    <2>2. \A d : (HiddenBy(d)' <=> HiddenBy(d)) /\ (MarkedBy(d)' <=> MarkedBy(d))
      BY <2>1 DEF HiddenBy, MarkedBy
    <2>3. \A d \in hidden' : d \in hidden /\ ~Waiting(d)
      BY <1>3 DEF Undo, RolledBack, Waiting
    <2>4. \A d \in snoozed' : d \in snoozed /\ ~Snoozing(d)
      BY <1>3 DEF Undo, RolledBack, Snoozing, Rehidden
    <2>5. Emptied'
      BY <2>1 DEF Reasons, Emptied
    <2> QED BY <2>1, <2>2, <2>3, <2>4, <2>5 DEF Reasons
  <1>4. ASSUME NEW convs \in SUBSET Conversations, NEW kind \in BulkKinds, Bulk(kind, convs)
        PROVE  Reasons'
    <2>1. PICK last : Adds(BulkCalls(kind, convs, last))
      BY <1>4, BulkAdds
    <2>2. /\ UNCHANGED <<left, pending, snoozed, stranded>> /\ hidden' = hidden \cup convs
      BY <1>4 DEF Bulk
    <2>3. \A x \in BulkCalls(kind, convs, last) : x.phase = "running" /\ x.hides
      BY DEF BulkCalls, Call
    <2>4. \A c \in convs : \E x \in BulkCalls(kind, convs, last) : c \in x.convs
      <3> TAKE c \in convs
      <3>1. AccountOf[c] \in Owners(convs) /\ c \in Owned(convs, AccountOf[c])
        BY DEF Owners, Owned
      <3>2. Call(gestures + 1, kind, Owned(convs, AccountOf[c]), TRUE, AccountOf[c] = last)
              \in BulkCalls(kind, convs, last)
        BY <3>1 DEF BulkCalls
      <3> QED BY <3>1, <3>2 DEF Call
    <2>5. \A c \in convs : HiddenBy(c)'
      <3>1. \A x \in BulkCalls(kind, convs, last) : \A c \in x.convs : x.hides => HiddenBy(c)'
        BY <2>1 DEF Adds, HiddenBy
      <3> QED BY <2>3, <2>4, <3>1
    <2>6. Emptied'
      BY <2>1, <2>2, <2>3, AddsKeepsEmptied DEF Reasons
    <2>7. \A c : (Waiting(c)' <=> Waiting(c)) /\ (Snoozing(c)' <=> Snoozing(c))
      BY <2>2 DEF Waiting, Snoozing
    <2> QED BY <2>1, <2>2, <2>5, <2>6, <2>7, AddsKeepsReasons DEF Reasons
  <1>5. ASSUME NEW convs \in SUBSET Conversations, HandleBulkSnooze(convs) PROVE Reasons'
    <2>1. PICK last : Adds(SnoozeCalls(convs, last))
      BY <1>5, BulkSnoozeAdds
    <2>2. /\ UNCHANGED <<left, pending, hidden, stranded>> /\ snoozed' = snoozed \cup convs
      BY <1>5 DEF HandleBulkSnooze
    <2>3. \A x \in SnoozeCalls(convs, last) : x.phase = "running" /\ x.kind = "snooze"
      BY DEF SnoozeCalls, Call
    <2>4. \A c \in convs : \E x \in SnoozeCalls(convs, last) : c \in x.convs
      <3> TAKE c \in convs
      <3>1. Call(gestures + 1, "snooze", {c}, FALSE, c = last) \in SnoozeCalls(convs, last)
        BY DEF SnoozeCalls
      <3> QED BY <3>1 DEF Call
    <2>5. \A c \in convs : MarkedBy(c)'
      <3>1. \A x \in SnoozeCalls(convs, last) :
              \A c \in x.convs : x.kind = "snooze" => MarkedBy(c)'
        BY <2>1 DEF Adds, MarkedBy
      <3> QED BY <2>3, <2>4, <3>1
    <2>6. Emptied'
      BY <2>1, <2>2, <2>3, AddsKeepsEmptied DEF Reasons
    <2>7. \A c : (Waiting(c)' <=> Waiting(c)) /\ (Snoozing(c)' <=> Snoozing(c))
      BY <2>2 DEF Waiting, Snoozing
    <2> QED BY <2>1, <2>2, <2>5, <2>6, <2>7, AddsKeepsReasons DEF Reasons
  <1>6. ASSUME NEW j \in jobs, Work(j) PROVE Reasons'
    <2>1. /\ \E c \in j.convs : \E n \in 0..left[c] : left' = [left EXCEPT ![c] = n]
          /\ UNCHANGED <<hidden, pending, jobs, snoozed, stranded>>
      BY <1>6, WorkRemoves
    <2>2. \A c \in Conversations : left[c] = 0 => left'[c] = 0
      BY <2>1 DEF Types
    <2>3. \A i \in jobs : i.convs \subseteq Conversations
      BY DEF Types, Jobs
    <2>4. \A c : /\ Waiting(c)' <=> Waiting(c)
                 /\ Snoozing(c)' <=> Snoozing(c)
                 /\ HiddenBy(c)' <=> HiddenBy(c)
                 /\ MarkedBy(c)' <=> MarkedBy(c)
      BY <2>1 DEF Waiting, Snoozing, HiddenBy, MarkedBy
    <2>5. Emptied'
      BY <2>1, <2>2, <2>3 DEF Reasons, Emptied
    <2>6. snoozed \subseteq Conversations
      BY DEF Types
    <2> QED BY <2>1, <2>2, <2>4, <2>5, <2>6 DEF Reasons
  <1>7. ASSUME NEW j \in jobs, Clean(j) PROVE Reasons'
    <2> DEFINE k == [j EXCEPT !.phase = "cleaned"]
    <2>1. k.convs = j.convs /\ k.hides = j.hides /\ k.kind = j.kind
      BY DEF Types, Jobs
    <2>2. /\ UNCHANGED <<left, hidden, pending, snoozed, stranded>>
          /\ \A c \in j.convs : left[c] = 0
          /\ jobs' = (jobs \ {j}) \cup {k}
      BY <1>7 DEF Clean
    <2> HIDE DEF k
    <2>3. \A c : /\ Waiting(c)' <=> Waiting(c)
                 /\ Snoozing(c)' <=> Snoozing(c)
                 /\ HiddenBy(c) => HiddenBy(c)'
                 /\ MarkedBy(c) => MarkedBy(c)'
      BY <2>1, <2>2 DEF Waiting, Snoozing, HiddenBy, MarkedBy
    <2>4. Emptied'
      BY <2>1, <2>2 DEF Reasons, Emptied
    <2> QED BY <2>2, <2>3, <2>4 DEF Reasons
  <1>8. ASSUME NEW j \in jobs, Settle(j) \/ Fail(j) PROVE Reasons'
    <2>1. /\ UNCHANGED <<left, pending>> /\ jobs' = jobs \ {j}
          /\ hidden' = Unhidden(j) /\ stranded' = stranded \cup StrandedBy(j)
      BY <1>8 DEF Settle, Fail
    <2>2. Emptied'
      BY <2>1 DEF Reasons, Emptied
    <2>3. \A c : (Waiting(c)' <=> Waiting(c)) /\ (Snoozing(c)' <=> Snoozing(c))
      BY <2>1 DEF Waiting, Snoozing
    <2>4. \A c \in hidden' : Waiting(c)' \/ HiddenBy(c)' \/ c \in stranded'
      <3> SUFFICES ASSUME NEW c \in hidden' PROVE Waiting(c)' \/ HiddenBy(c)' \/ c \in stranded'
        OBVIOUS
      <3>1. c \in hidden /\ (c \in j.convs => ~(j.observed /\ j.hides))
        BY <2>1 DEF Unhidden
      <3>2. CASE c \in j.convs /\ ~j.observed
        BY <2>1, <3>2 DEF StrandedBy
      <3>3. CASE ~(c \in j.convs /\ j.hides)
        BY <2>1, <2>3, <3>1, <3>3 DEF Reasons, HiddenBy
      <3> QED BY <3>1, <3>2, <3>3
    <2>5. \A c \in snoozed' : left'[c] = 0 \/ Snoozing(c)' \/ MarkedBy(c)' \/ c \in stranded'
      <3> SUFFICES ASSUME NEW c \in snoozed'
                   PROVE  left[c] = 0 \/ Snoozing(c)' \/ MarkedBy(c)' \/ c \in stranded'
        BY <2>1
      <3>1. c \in snoozed
        BY <1>8 DEF Settle, Fail, Unmarked
      <3>2. CASE c \in j.convs /\ ~j.observed
        BY <2>1, <3>2 DEF StrandedBy
      <3>3. CASE ~(c \in j.convs /\ j.kind = "snooze")
        BY <2>1, <2>3, <3>1, <3>3 DEF Reasons, MarkedBy
      <3>4. CASE c \in j.convs /\ j.kind = "snooze" /\ j.observed
        <4>1. ~Fail(j)
          BY <3>4 DEF Fail, Unmarked
        <4>2. j.phase = "cleaned"
          BY <1>8, <4>1 DEF Settle
        <4> QED BY <3>4, <4>2 DEF Reasons, Emptied
      <3> QED BY <3>2, <3>3, <3>4
    <2> QED BY <2>2, <2>4, <2>5 DEF Reasons
  <1>9. CASE Ask \/ Answer \/ SelectAccount
    <2>1. UNCHANGED <<left, pending, jobs, snoozed, stranded>> /\ hidden' \subseteq hidden
      BY <1>9 DEF Ask, Answer, SelectAccount
    <2> QED BY <2>1 DEF Reasons, Emptied, Waiting, Snoozing, HiddenBy, MarkedBy
  <1>10. CASE Close
    <2>1. /\ hidden' = {} /\ jobs' = {} /\ UNCHANGED <<left, snoozed>>
          /\ stranded' = stranded \cup {c \in Conversations : Busy(c)}
      BY <1>10 DEF Close
    <2>2. \A c \in snoozed : Snoozing(c) \/ MarkedBy(c) => c \in stranded'
      BY <2>1 DEF Snoozing, MarkedBy, Busy, Types
    <2>3. Emptied'
      BY <2>1 DEF Emptied
    <2> QED BY <2>1, <2>2, <2>3 DEF Reasons
  <1>11. CASE UNCHANGED vars
    BY <1>11 DEF vars, Reasons, Emptied, Waiting, Snoozing, HiddenBy, MarkedBy
  <1> QED
    BY <1>1, <1>2, <1>3, <1>4, <1>5, <1>6, <1>7, <1>8, <1>9, <1>10, <1>11
       DEF Next, Gesture, HandleBulkDelete, HandleBulkMove, BulkKinds

(* A row is hidden only while its action waits or is carried out, and a      *)
(* conversation marked as snoozed has left the folder or is about to, except *)
(* for what a dropped callback or a closed page left behind.                 *)
THEOREM MarksAreJustified == Spec => []MarksHaveReason
  BY TypesInit, TypesStep, ReasonsInit, ReasonsStep, ReasonsSuffice, PTL DEF Spec

----------------------------------------------------------------------------
(* Rows of removed conversations come back by a snapshot only: no answer     *)
(* under way to the list query has them, because the end of each mutation    *)
(* cancels the requests sent before it.                                      *)
Gone == /\ removed \cap cache \subseteq revived
        /\ \A listed \in fetch : listed \cap removed = {}
        /\ \A c \in removed : left[c] = 0

LEMMA GoneSuffices == Gone => RemovedNotShown
  BY DEF Gone, RemovedNotShown, Shown

LEMMA GoneInit == Init => Gone
  BY DEF Init, Gone

LEMMA GoneStep == Types /\ Gone /\ [Next]_vars => Gone'
  <1> SUFFICES ASSUME Types, Gone, [Next]_vars PROVE Gone'
    OBVIOUS
  <1> USE DEF history
  <1>1. ASSUME NEW c \in Conversations, Gesture(c) PROVE Gone'
    <2>1. PICK kind \in Kinds : Offer(c, kind)
      BY <1>1, GestureOffers
    <2>2. cache' \subseteq cache /\ fetch' \subseteq fetch
      BY <2>1, OfferAdds
    <2> QED BY <2>1, <2>2 DEF Offer, Gone
  <1>2. ASSUME NEW a \in timers, Expire(a) PROVE Gone'
    <2>1. cache' \subseteq cache /\ fetch' \subseteq fetch
      BY <1>2, ExpireAdds
    <2> QED BY <1>2, <2>1 DEF Expire, Gone
  <1>3. CASE Undo \/ SelectAccount \/ Close
    BY <1>3 DEF Undo, SelectAccount, Close, Gone
  <1>4. ASSUME NEW convs \in SUBSET Conversations, NEW kind \in BulkKinds,
               Bulk(kind, convs) \/ HandleBulkSnooze(convs)
        PROVE  Gone'
    BY <1>4 DEF Bulk, HandleBulkSnooze, Cancelled, Gone
  <1>5. ASSUME NEW j \in jobs, Work(j) PROVE Gone'
    <2>1. /\ \E c \in j.convs : \E n \in 0..left[c] : left' = [left EXCEPT ![c] = n]
          /\ UNCHANGED <<cache, fetch, removed, revived>>
      BY <1>5, WorkRemoves
    <2>2. \A c \in Conversations : left[c] = 0 => left'[c] = 0
      BY <2>1 DEF Types
    <2> QED BY <2>1, <2>2 DEF Gone, Types
  <1>6. ASSUME NEW j \in jobs, Clean(j) PROVE Gone'
    BY <1>6 DEF Clean, Cancelled, Gone
  <1>7. ASSUME NEW j \in jobs, Settle(j) PROVE Gone'
    BY <1>7 DEF Settle, Gone
  <1>8. ASSUME NEW j \in jobs, Fail(j) PROVE Gone'
    <2>1. /\ UNCHANGED <<left, fetch, removed>> /\ cache' = Restored(j)
          /\ revived' = revived \cup ((Restored(j) \ cache) \cap removed)
      BY <1>8 DEF Fail
    <2> QED BY <2>1 DEF Gone
  <1>9. CASE Ask
    BY <1>9 DEF Ask, Listing, Gone
  <1>10. CASE Answer
    BY <1>10 DEF Answer, Gone
  <1>11. CASE UNCHANGED vars
    BY <1>11 DEF vars, Gone
  <1> QED
    BY <1>1, <1>2, <1>3, <1>4, <1>5, <1>6, <1>7, <1>8, <1>9, <1>10, <1>11
       DEF Next, Gesture, HandleBulkDelete, HandleBulkMove, BulkKinds

(* A conversation removed by a mutation is not shown again, whatever answers *)
(* the list query had under way, except by a snapshot a failed bulk action   *)
(* put back.                                                                 *)
THEOREM RemovedStaysAway == Spec => []RemovedNotShown
  BY TypesInit, TypesStep, GoneInit, GoneStep, GoneSuffices, PTL DEF Spec

----------------------------------------------------------------------------
(* The window implements UndoContract: its steps are those of the contract   *)
(* or leave the offer, what is carried out and the server as they are.       *)

offers == {a.conv : a \in pending}
runs == UNION {j.convs : j \in jobs}

LEMMA AddsRuns ==
    ASSUME NEW new, Adds(new)
    PROVE  runs' = runs \cup UNION {x.convs : x \in new}
  BY DEF Adds, Like, runs

LEMMA StartedRuns ==
    ASSUME NEW as, Adds(Started(as))
    PROVE  runs' = runs \cup {a.conv : a \in as}
  <1>1. UNION {x.convs : x \in Started(as)} = {a.conv : a \in as}
    <2>1. \A a : Call(gestures, a.kind, {a.conv}, TRUE, TRUE).convs = {a.conv}
      BY DEF Call
    <2>2. \A x \in Started(as) : \E a \in as : x.convs = {a.conv}
      BY <2>1 DEF Started
    <2>3. \A a \in as : \E x \in Started(as) : x.convs = {a.conv}
      BY <2>1 DEF Started
    <2>4. \A x \in Started(as) : x.convs \subseteq {a.conv : a \in as}
      BY <2>2
    <2>5. \A a \in as : \E x \in Started(as) : a.conv \in x.convs
      BY <2>3
    <2> QED BY <2>4, <2>5
  <1> QED BY <1>1, AddsRuns

LEMMA ContractInit == Init => Contract!Init
  <1> SUFFICES ASSUME Init PROVE Contract!Init
    OBVIOUS
  <1>1. left \in [Conversations -> Nat \ {0}]
    BY SizeAssumption DEF Init
  <1> QED BY <1>1 DEF Init, Contract!Init

LEMMA ContractStep == Types /\ [Next]_vars => [Contract!Next]_(Contract!contractVars)
  <1> SUFFICES ASSUME Types, [Next]_vars
               PROVE  Contract!Next \/ UNCHANGED <<gestures, offers, runs, left>>
    BY DEF Contract!contractVars, offers, runs
  <1> USE DEF history
  <1>1. ASSUME NEW c \in Conversations, Gesture(c) PROVE Contract!Offer
    <2>1. PICK kind \in Kinds : Offer(c, kind)
      BY <1>1, GestureOffers
    <2>2. Adds(Started(pending)) /\ pending' = {[conv |-> c, kind |-> kind]}
      BY <2>1, OfferAdds
    <2>3. offers' = {c} /\ runs' = runs \cup offers
      BY <2>2, StartedRuns DEF offers
    <2> QED BY <2>1, <2>3 DEF Contract!Offer, Offer, offers, runs
  <1>2. ASSUME NEW a \in timers, Expire(a) PROVE Contract!CarryOut
    <2>1. Adds(Started({a})) /\ pending = {a} /\ pending' = {}
      BY <1>2, ExpireAdds
    <2>2. offers = {a.conv} /\ offers' = {} /\ runs' = runs \cup offers
      BY <2>1, StartedRuns DEF offers
    <2> QED BY <1>2, <2>2 DEF Contract!CarryOut, Expire, offers, runs
  <1>3. CASE Undo
    <2>1. offers # {} /\ offers' = {} /\ runs' = runs
      BY <1>3 DEF Undo, offers, runs
    <2> QED BY <1>3, <2>1 DEF Contract!Undo, Contract!Next, Undo, offers, runs
  <1>4. ASSUME NEW convs \in SUBSET Conversations, NEW kind \in BulkKinds, Bulk(kind, convs)
        PROVE  Contract!Several
    <2>1. PICK last : Adds(BulkCalls(kind, convs, last))
      BY <1>4, BulkAdds
    <2>2. UNION {x.convs : x \in BulkCalls(kind, convs, last)} = convs
      <3>1. \A a : Call(gestures + 1, kind, Owned(convs, a), TRUE, a = last).convs
                    = Owned(convs, a)
        BY DEF Call
      <3>2. \A x \in BulkCalls(kind, convs, last) : x.convs \subseteq convs
        <4> TAKE x \in BulkCalls(kind, convs, last)
        <4>1. PICK a \in Owners(convs) :
                x = Call(gestures + 1, kind, Owned(convs, a), TRUE, a = last)
          BY DEF BulkCalls
        <4>2. x.convs = Owned(convs, a)
          BY <4>1 DEF Call
        <4> QED BY <4>2 DEF Owned
      <3>3. \A c \in convs : \E x \in BulkCalls(kind, convs, last) : c \in x.convs
        <4> TAKE c \in convs
        <4>1. Call(gestures + 1, kind, Owned(convs, AccountOf[c]), TRUE, AccountOf[c] = last)
                \in BulkCalls(kind, convs, last)
          BY DEF BulkCalls, Owners
        <4> QED BY <3>1, <4>1 DEF Owned
      <3> QED BY <3>2, <3>3
    <2>3. offers' = offers /\ runs' = runs \cup convs
      BY <1>4, <2>1, <2>2, AddsRuns DEF Bulk, offers
    <2> QED BY <1>4, <2>3 DEF Contract!Several, Bulk, offers, runs
  <1>5. ASSUME NEW convs \in SUBSET Conversations, HandleBulkSnooze(convs)
        PROVE  Contract!Several
    <2>1. PICK last : Adds(SnoozeCalls(convs, last))
      BY <1>5, BulkSnoozeAdds
    <2>2. UNION {x.convs : x \in SnoozeCalls(convs, last)} = convs
      <3>1. \A c : Call(gestures + 1, "snooze", {c}, FALSE, c = last).convs = {c}
        BY DEF Call
      <3>2. \A x \in SnoozeCalls(convs, last) : \E c \in convs : x.convs = {c}
        BY <3>1 DEF SnoozeCalls
      <3>3. \A c \in convs : \E x \in SnoozeCalls(convs, last) : x.convs = {c}
        BY <3>1 DEF SnoozeCalls
      <3> QED BY <3>2, <3>3
    <2>3. offers' = offers /\ runs' = runs \cup convs
      BY <1>5, <2>1, <2>2, AddsRuns DEF HandleBulkSnooze, offers
    <2> QED BY <1>5, <2>3 DEF Contract!Several, HandleBulkSnooze, offers, runs
  <1>6. ASSUME NEW j \in jobs, Work(j) PROVE Contract!Remove
    <2>1. /\ \E c \in j.convs : \E n \in 0..left[c] : left' = [left EXCEPT ![c] = n]
          /\ UNCHANGED <<gestures, pending, jobs>>
      BY <1>6, WorkRemoves
    <2>2. j.convs \subseteq runs /\ offers' = offers /\ runs' = runs
      BY <2>1 DEF offers, runs
    <2> QED BY <2>1, <2>2 DEF Contract!Remove, offers, runs
  <1>7. ASSUME NEW j \in jobs, Clean(j) PROVE UNCHANGED <<gestures, offers, runs, left>>
    <2>1. [j EXCEPT !.phase = "cleaned"].convs = j.convs
      BY DEF Types, Jobs
    <2>2. runs' = runs
      BY <1>7, <2>1 DEF Clean, runs
    <2> QED BY <1>7, <2>2 DEF Clean, offers
  <1>8. ASSUME NEW j \in jobs, Settle(j) \/ Fail(j) PROVE Contract!End
    <2>1. UNCHANGED <<gestures, left, pending>> /\ jobs' = jobs \ {j}
      BY <1>8 DEF Settle, Fail
    <2>2. offers' = offers /\ runs' \subseteq runs
      BY <2>1 DEF offers, runs
    <2>3. runs' = runs \ (runs \ runs') /\ (runs \ runs') \in SUBSET runs
      BY <2>2
    <2> QED BY <2>1, <2>2, <2>3 DEF Contract!End, offers, runs
  <1>9. CASE Ask \/ Answer \/ SelectAccount \/ UNCHANGED vars
    BY <1>9 DEF Ask, Answer, SelectAccount, vars, offers, runs
  <1>10. CASE Close
    <2>1. offers' = {} /\ runs' = {} /\ UNCHANGED <<gestures, left>>
      BY <1>10 DEF Close, offers, runs
    <2> QED BY <2>1 DEF Contract!Close, Contract!Next, offers, runs
  <1> QED
    BY <1>1, <1>2, <1>3, <1>4, <1>5, <1>6, <1>7, <1>8, <1>9, <1>10
       DEF Next, Contract!Next, Gesture, HandleBulkDelete, HandleBulkMove, BulkKinds

(* The undo toast keeps its promise: nothing changes on the server while an  *)
(* action is offered for undo, one that is undone was never sent, and one    *)
(* that is not undone is carried out once.                                   *)
THEOREM UndoIsKept == Spec => KeepsUndoContract
  BY TypesInit, TypesStep, ContractInit, ContractStep, PTL
     DEF Spec, KeepsUndoContract, Contract!Spec
=============================================================================
