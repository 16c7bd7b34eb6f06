-------------------------- MODULE OfflineMailProofs --------------------------
(* Theorems about OfflineMailCache, for every set of conversations, bounds   *)
(* and number of messages.                                                   *)
EXTENDS OfflineMailCache, FiniteSetTheorems, TLAPS

----------------------------------------------------------------------------
(* What the helpers on partial functions return.                            *)

LEMMA PartialFunction ==
    ASSUME NEW S, NEW T, NEW f
    PROVE  f \in Partial(S, T) <=>
             /\ f = [x \in DOMAIN f |-> f[x]] /\ DOMAIN f \subseteq S
             /\ \A x \in DOMAIN f : f[x] \in T
  <1>1. ASSUME f \in Partial(S, T)
        PROVE  f = [x \in DOMAIN f |-> f[x]] /\ DOMAIN f \subseteq S
               /\ \A x \in DOMAIN f : f[x] \in T
    BY <1>1 DEF Partial
  <1>2. ASSUME f = [x \in DOMAIN f |-> f[x]], DOMAIN f \subseteq S,
               \A x \in DOMAIN f : f[x] \in T
        PROVE  f \in Partial(S, T)
    <2>1. f \in [DOMAIN f -> T]
      BY <1>2
    <2> QED BY <1>2, <2>1 DEF Partial
  <1> QED BY <1>1, <1>2

LEMMA PutTyped ==
    ASSUME NEW S, NEW T, NEW f \in Partial(S, T), NEW x \in S, NEW y \in T
    PROVE  Put(f, x, y) \in Partial(S, T)
           /\ DOMAIN Put(f, x, y) = DOMAIN f \union {x}
  BY PartialFunction DEF Put

LEMMA PutOver ==
    ASSUME NEW S, NEW T, NEW f \in Partial(S, T), NEW x \in DOMAIN f, NEW y \in T
    PROVE  Put(f, x, y) \in Partial(S, T) /\ DOMAIN Put(f, x, y) = DOMAIN f
  BY PartialFunction DEF Put

LEMMA RestrictTyped ==
    ASSUME NEW S, NEW T, NEW f \in Partial(S, T), NEW D \in SUBSET DOMAIN f
    PROVE  Restrict(f, D) \in Partial(S, T) /\ DOMAIN Restrict(f, D) = D
  BY PartialFunction DEF Restrict

LEMMA DropTyped ==
    ASSUME NEW S, NEW T, NEW f \in Partial(S, T), NEW x
    PROVE  Drop(f, x) \in Partial(S, T) /\ DOMAIN Drop(f, x) = DOMAIN f \ {x}
  BY RestrictTyped DEF Drop

LEMMA EmptyTyped ==
    ASSUME NEW S, NEW T
    PROVE  Empty \in Partial(S, T) /\ DOMAIN Empty = {}
  <1>1. DOMAIN Empty = {} /\ Empty \in [{} -> T]
    BY DEF Empty
  <1>2. {} \in SUBSET S
    OBVIOUS
  <1> QED BY <1>1, <1>2 DEF Partial

LEMMA NoSyncTyped == NoSync \in SyncStates /\ DOMAIN NoSync.list = {}
                     /\ NoSync.todo = {} /\ DOMAIN NoSync.fetched = {}
  BY EmptyTyped DEF NoSync, SyncStates

----------------------------------------------------------------------------
(* Mail and rows.                                                           *)

LEMMA MessagesFinite ==
    /\ IsFiniteSet(Messages) /\ Cardinality(Messages) = MaxMessages
    /\ \A D \in SUBSET Messages :
        /\ IsFiniteSet(D) /\ Cardinality(D) \in 0..MaxMessages
        /\ D # {} => Cardinality(D) \in Messages
  <1>1. IsFiniteSet(Messages) /\ Cardinality(Messages) = MaxMessages
    BY FS_Interval, BoundsAssumption DEF Messages
  <1>2. ASSUME NEW D \in SUBSET Messages
        PROVE  /\ IsFiniteSet(D) /\ Cardinality(D) \in 0..MaxMessages
               /\ D # {} => Cardinality(D) \in Messages
    <2>1. IsFiniteSet(D) /\ Cardinality(D) <= MaxMessages
      BY <1>1, FS_Subset
    <2>2. Cardinality(D) \in Nat /\ (Cardinality(D) = 0 <=> D = {})
      BY <2>1, FS_CardinalityType, FS_EmptySet
    <2>3. Cardinality(D) \in 0..MaxMessages
      BY <2>1, <2>2, BoundsAssumption
    <2>4. D # {} => Cardinality(D) \in 1..MaxMessages
      BY <2>2, <2>3, BoundsAssumption
    <2> QED BY <2>1, <2>3, <2>4 DEF Messages
  <1> QED BY <1>1, <1>2

LEMMA MarkedTyped ==
    ASSUME NEW m \in Mails, NEW ids, NEW read \in BOOLEAN
    PROVE  Marked(m, ids, read) \in Mails
           /\ DOMAIN Marked(m, ids, read) = DOMAIN m
  BY PartialFunction DEF Marked, Mails

LEMMA FlippedTyped ==
    ASSUME NEW m \in Mails, NEW n
    PROVE  [m EXCEPT ![n] = ~@] \in Mails
           /\ DOMAIN [m EXCEPT ![n] = ~@] = DOMAIN m
  <1>1. m \in [DOMAIN m -> BOOLEAN] /\ DOMAIN m \in SUBSET Messages
    BY PartialFunction DEF Mails
  <1>2. [m EXCEPT ![n] = ~@] \in [DOMAIN m -> BOOLEAN]
    BY <1>1
  <1> QED BY <1>1, <1>2 DEF Mails, Partial

LEMMA DeliveredTyped ==
    ASSUME NEW m \in Mails, NEW n \in Messages
    PROVE  Put(m, n, FALSE) \in Mails /\ n \in DOMAIN Put(m, n, FALSE)
  <1>1. m \in [DOMAIN m -> BOOLEAN] /\ DOMAIN m \in SUBSET Messages
    BY PartialFunction DEF Mails
  <1>2. Put(m, n, FALSE) \in [DOMAIN m \union {n} -> BOOLEAN]
    BY <1>1 DEF Put
  <1>3. DOMAIN m \union {n} \in SUBSET Messages
    BY <1>1
  <1> QED BY <1>2, <1>3 DEF Mails, Partial

LEMMA ThreadOfTyped ==
    ASSUME NEW m \in Mails, DOMAIN m # {}
    PROVE  ThreadOf(m) \in Threads
  <1>1. DOMAIN m \in (SUBSET Messages) \ {{}}
    BY PartialFunction DEF Mails
  <1>2. Max(DOMAIN m) \in Latest
    BY <1>1 DEF Latest
  <1>3. {n \in DOMAIN m : ~m[n]} \in SUBSET Messages
    BY <1>1
  <1> QED BY <1>1, <1>2, <1>3, MessagesFinite DEF ThreadOf, Threads

LEMMA UpdatedTyped ==
    ASSUME NEW m \in Mails, NEW thread \in Threads
    PROVE  Updated(thread, m) \in Threads
  BY ThreadOfTyped DEF Updated

LEMMA WithFlagTyped ==
    ASSUME NEW thread \in Threads, NEW read \in BOOLEAN
    PROVE  WithFlag(thread, read) \in Threads
  BY BoundsAssumption DEF WithFlag, Threads, Messages

LEMMA OneLessTyped ==
    ASSUME NEW thread \in Threads
    PROVE  OneLess(thread) \in Threads
  BY BoundsAssumption DEF OneLess, Threads, Messages

LEMMA InThreadsTyped ==
    ASSUME threads \in Partial(Conversations, Threads), NEW c \in Conversations,
           NEW thread, c \in DOMAIN threads => thread \in Threads
    PROVE  InThreads(c, thread) \in Partial(Conversations, Threads)
           /\ DOMAIN InThreads(c, thread) = DOMAIN threads
  BY PutTyped DEF InThreads

----------------------------------------------------------------------------
(* The types.                                                               *)

LEMMA TypeInit == Init => TypeOK
  <1> SUFFICES ASSUME Init PROVE TypeOK
    OBVIOUS
  <1> USE BoundsAssumption DEF Init
  <1>1. mail \in [Conversations -> Mails]
        /\ \A c \in Conversations : DOMAIN mail[c] # {}
    <2>1. ASSUME NEW m \in [{1} -> BOOLEAN] PROVE m \in Mails /\ DOMAIN m # {}
      BY PartialFunction DEF Mails, Messages
    <2> QED BY <2>1
  <1>2. delivered \in [Conversations -> Messages]
    BY DEF Messages
  <1>3. syncs \in [Syncs -> SyncStates]
    BY NoSyncTyped
  <1>4. pending \in [Conversations -> Mutations]
    BY DEF NoMutation, Mutations, Kinds
  <1> QED BY <1>1, <1>2, <1>3, <1>4, EmptyTyped DEF TypeOK

(* A mutation that starts uses up a change and leaves its trace.            *)
LEMMA BeginTyped ==
    ASSUME TypeOK, NEW c \in Conversations, NEW mutation \in Mutations,
           Begin(c, mutation)
    PROVE  /\ pending' \in [Conversations -> Mutations]
           /\ changes' \in 0..MaxChanges /\ toggles' \in 0..MaxToggles
  BY BoundsAssumption DEF TypeOK, Begin, Change

LEMMA ChangeTyped ==
    ASSUME TypeOK, Change
    PROVE  changes' \in 0..MaxChanges /\ toggles' \in 0..MaxToggles
  BY BoundsAssumption DEF TypeOK, Change

(* What the mailbox does.                                                   *)
LEMMA ElsewhereTyped ==
    ASSUME TypeOK, NEW c \in Conversations,
           \/ Deliver(c) \/ MoveElsewhere(c)
           \/ \E n \in Messages : DeleteElsewhere(c, n) \/ MarkElsewhere(c, n)
    PROVE  TypeOK'
  <1> USE DEF TypeOK, copy
  <1>1. CASE Deliver(c)
    <2>1. delivered' \in [Conversations -> Messages]
      BY <1>1, BoundsAssumption DEF Deliver, Messages
    <2>2. Put(mail[c], delivered'[c], FALSE) \in Mails
          /\ delivered'[c] \in DOMAIN Put(mail[c], delivered'[c], FALSE)
      BY <2>1, DeliveredTyped
    <2> QED BY <1>1, <2>1, <2>2, ChangeTyped DEF Deliver
  <1>2. CASE MoveElsewhere(c)
    BY <1>2, ChangeTyped DEF MoveElsewhere
  <1>3. ASSUME NEW n \in Messages, DeleteElsewhere(c, n) PROVE TypeOK'
    <2>1. Drop(mail[c], n) \in Mails
      BY DropTyped DEF Mails
    <2> QED BY <1>3, <2>1, ChangeTyped DEF DeleteElsewhere, history
  <1>4. ASSUME NEW n \in Messages, MarkElsewhere(c, n) PROVE TypeOK'
    <2>1. [mail[c] EXCEPT ![n] = ~@] \in Mails
          /\ DOMAIN [mail[c] EXCEPT ![n] = ~@] = DOMAIN mail[c]
      BY FlippedTyped
    <2>2. mail' = [mail EXCEPT ![c] = [mail[c] EXCEPT ![n] = ~@]]
      BY <1>4 DEF MarkElsewhere
    <2>3. pending' \in [Conversations -> Mutations]
      BY <1>4 DEF MarkElsewhere, Mutations
    <2> QED BY <1>4, <2>1, <2>2, <2>3, ChangeTyped DEF MarkElsewhere
  <1> QED BY <1>1, <1>2, <1>3, <1>4

(* What the user does, on the server.                                       *)
LEMMA OwnTyped ==
    ASSUME TypeOK, NEW c \in Conversations,
           \/ Remove(c) \/ MoveIn(c)
           \/ \E n \in Messages : Delete(c, n)
           \/ \E ids \in SUBSET Messages, read \in BOOLEAN : Mark(c, ids, read)
    PROVE  TypeOK'
  <1> USE DEF TypeOK, copy, history
  <1>1. CASE Remove(c)
    <2>1. [NoMutation EXCEPT !.kind = "remove"] \in Mutations
      BY DEF NoMutation, Mutations, Kinds
    <2> QED BY <1>1, <2>1, BeginTyped DEF Remove
  <1>2. CASE MoveIn(c)
    <2>1. [NoMutation EXCEPT !.kind = "moveIn"] \in Mutations
      BY DEF NoMutation, Mutations, Kinds
    <2> QED BY <1>2, <2>1, BeginTyped DEF MoveIn
  <1>3. ASSUME NEW n \in Messages, Delete(c, n) PROVE TypeOK'
    <2>1. [NoMutation EXCEPT !.kind = "delete", !.ids = {n}] \in Mutations
      BY DEF NoMutation, Mutations, Kinds
    <2>2. Drop(mail[c], n) \in Mails
      BY DropTyped DEF Mails
    <2> QED BY <1>3, <2>1, <2>2, BeginTyped DEF Delete
  <1>4. ASSUME NEW ids \in SUBSET Messages, NEW read \in BOOLEAN,
               Mark(c, ids, read)
        PROVE  TypeOK'
    <2>1. DOMAIN mail[c] \subseteq Messages
      BY PartialFunction DEF Mails
    <2>2. [kind |-> "mark", read |-> read, ids |-> ids,
           ours |-> IF ids = {} THEN DOMAIN mail[c] ELSE ids] \in Mutations
      BY <2>1 DEF Mutations, Kinds
    <2>3. Marked(mail[c], ids, read) \in Mails
          /\ DOMAIN Marked(mail[c], ids, read) = DOMAIN mail[c]
      BY MarkedTyped
    <2> QED BY <1>4, <2>2, <2>3, BeginTyped DEF Mark
  <1> QED BY <1>1, <1>2, <1>3, <1>4

(* What the copy becomes: its types, and whose rows, messages and           *)
(* tombstones it holds.                                                     *)
CopyTyped ==
    /\ threads \in Partial(Conversations, Threads)
    /\ cached \in Partial(Conversations, Mails)
    /\ removals \subseteq Conversations
    /\ overlays \in Partial(Conversations, Overlays)

LEMMA ForgetCopy ==
    ASSUME CopyTyped, NEW c \in Conversations, Forget(c)
    PROVE  /\ CopyTyped'
           /\ DOMAIN threads' = DOMAIN threads \ {c}
           /\ DOMAIN cached' = DOMAIN cached \ {c}
           /\ removals' = removals \union {c}
  <1>1. threads' \in Partial(Conversations, Threads)
        /\ DOMAIN threads' = DOMAIN threads \ {c}
    <2>1. threads \in Partial(Conversations, Threads) /\ threads' = Drop(threads, c)
      BY DEF CopyTyped, Forget
    <2> QED BY <2>1, DropTyped
  <1>2. cached' \in Partial(Conversations, Mails)
        /\ DOMAIN cached' = DOMAIN cached \ {c}
    <2>1. cached \in Partial(Conversations, Mails) /\ cached' = Drop(cached, c)
      BY DEF CopyTyped, Forget
    <2> QED BY <2>1, DropTyped
  <1>3. overlays' \in Partial(Conversations, Overlays)
    <2>1. overlays \in Partial(Conversations, Overlays)
          /\ overlays' = Drop(overlays, c)
      BY DEF CopyTyped, Forget
    <2> QED BY <2>1, DropTyped
  <1> QED BY <1>1, <1>2, <1>3 DEF CopyTyped, Forget

LEMMA MarkCopy ==
    ASSUME CopyTyped, NEW c \in Conversations,
           pending[c] \in Mutations, CommitMark(c)
    PROVE  /\ CopyTyped'
           /\ DOMAIN threads' = DOMAIN threads
           /\ DOMAIN cached' = DOMAIN cached
           /\ removals' = removals
  <1> DEFINE p == pending[c]
             marked == Marked(cached[c], p.ids, p.read)
             row == IF HasMessages(c) THEN Updated(threads[c], marked)
                    ELSE WithFlag(threads[c], p.read)
  <1>1. p.read \in BOOLEAN /\ p.ids \in SUBSET Messages
    BY DEF Mutations
  <1>2. HasMessages(c) => c \in DOMAIN cached /\ marked \in Mails
    BY <1>1, PartialFunction, MarkedTyped DEF HasMessages, CopyTyped
  <1>3. c \in DOMAIN threads => threads[c] \in Threads
    BY PartialFunction DEF CopyTyped
  <1>4. c \in DOMAIN threads => row \in Threads
    BY <1>1, <1>2, <1>3, UpdatedTyped, WithFlagTyped
  <1> HIDE DEF marked, row
  <1>5. threads' = InThreads(c, row)
    BY DEF CommitMark, row, marked
  <1>6. threads' \in Partial(Conversations, Threads)
        /\ DOMAIN threads' = DOMAIN threads
    BY <1>4, <1>5, InThreadsTyped DEF CopyTyped
  <1>7. cached' = IF HasMessages(c) THEN Put(cached, c, marked) ELSE cached
    BY DEF CommitMark, marked
  <1>8. cached' \in Partial(Conversations, Mails)
        /\ DOMAIN cached' = DOMAIN cached
    <2>1. cached \in Partial(Conversations, Mails)
      BY DEF CopyTyped
    <2>2. CASE HasMessages(c)
      <3>1. cached' = Put(cached, c, marked) /\ c \in DOMAIN cached
            /\ marked \in Mails
        BY <2>2, <1>2, <1>7
      <3> QED BY <2>1, <3>1, PutOver
    <2>3. CASE ~HasMessages(c)
      BY <2>1, <2>3, <1>7
    <2> QED BY <2>2, <2>3
  <1>9. [read |-> p.read, ids |-> p.ids] \in Overlays
    BY <1>1 DEF Overlays
  <1>10. overlays' \in Partial(Conversations, Overlays)
    <2>1. overlays' = Put(overlays, c, [read |-> p.read, ids |-> p.ids])
      BY DEF CommitMark
    <2> HIDE DEF p
    <2> QED BY <1>9, <2>1, PutTyped DEF CopyTyped
  <1>11. removals' = removals
    BY DEF CommitMark
  <1> QED BY <1>6, <1>8, <1>10, <1>11 DEF CopyTyped

(* A deletion either forgets the conversation or keeps whose rows and       *)
(* messages there are.                                                      *)
LEMMA DeleteCopy ==
    ASSUME CopyTyped, NEW c \in Conversations, CommitDelete(c), ~Forget(c)
    PROVE  /\ CopyTyped'
           /\ DOMAIN threads' = DOMAIN threads
           /\ DOMAIN cached' = DOMAIN cached
           /\ UNCHANGED <<removals, overlays, gone>>
  <1> DEFINE remaining == Restrict(cached[c], DOMAIN cached[c] \ pending[c].ids)
             row == IF HasMessages(c) THEN Updated(threads[c], remaining)
                    ELSE OneLess(threads[c])
  <1>1. HasMessages(c) => c \in DOMAIN cached /\ remaining \in Mails
    <2>1. SUFFICES ASSUME HasMessages(c) PROVE remaining \in Mails
      BY DEF HasMessages
    <2>2. cached[c] \in Mails
      BY <2>1, PartialFunction DEF HasMessages, CopyTyped
    <2>3. DOMAIN cached[c] \ pending[c].ids \in SUBSET DOMAIN cached[c]
      OBVIOUS
    <2> QED BY <2>2, <2>3, RestrictTyped DEF Mails
  <1>2. c \in DOMAIN threads => threads[c] \in Threads
    BY PartialFunction DEF CopyTyped
  <1>3. c \in DOMAIN threads => row \in Threads
    BY <1>1, <1>2, UpdatedTyped, OneLessTyped
  <1> HIDE DEF remaining, row
  <1>4. /\ cached' = IF HasMessages(c) THEN Put(cached, c, remaining) ELSE cached
        /\ threads' = InThreads(c, row)
        /\ UNCHANGED <<removals, overlays, gone>>
    BY DEF CommitDelete, remaining, row
  <1>5. threads' \in Partial(Conversations, Threads)
        /\ DOMAIN threads' = DOMAIN threads
    BY <1>3, <1>4, InThreadsTyped DEF CopyTyped
  <1>6. cached' \in Partial(Conversations, Mails)
        /\ DOMAIN cached' = DOMAIN cached
    <2>1. cached \in Partial(Conversations, Mails)
      BY DEF CopyTyped
    <2>2. CASE HasMessages(c)
      <3>1. cached' = Put(cached, c, remaining) /\ c \in DOMAIN cached
            /\ remaining \in Mails
        BY <2>2, <1>1, <1>4
      <3> QED BY <2>1, <3>1, PutOver
    <2>3. CASE ~HasMessages(c)
      BY <2>1, <2>3, <1>4
    <2> QED BY <2>2, <2>3
  <1> QED BY <1>4, <1>5, <1>6 DEF CopyTyped

(* A synchronisation fetches only what it listed.                           *)
FetchesItsList ==
    \A s \in Syncs : DOMAIN syncs[s].fetched \subseteq DOMAIN syncs[s].list
                     /\ syncs[s].todo \subseteq DOMAIN syncs[s].list

LEMMA ListedTyped ==
    ASSUME TypeOK
    PROVE  LET list == [c \in inbox |-> ThreadOf(mail[c])]
           IN  list \in Partial(Conversations, Threads) /\ DOMAIN list = inbox
  <1>1. \A c \in inbox : ThreadOf(mail[c]) \in Threads
    BY ThreadOfTyped DEF TypeOK
  <1>2. inbox \subseteq Conversations
    BY DEF TypeOK
  <1> QED BY <1>1, <1>2, PartialFunction

(* Storing a list replaces the rows, the tombstones, and the messages of    *)
(* what was fetched.                                                        *)
LEMMA StoreCopy ==
    ASSUME TypeOK, FetchesItsList, NEW s \in Syncs, Store(s)
    PROVE  LET list == syncs[s].list
               safe == DOMAIN list \ ActiveRemovals(list)
               stored == DOMAIN syncs[s].fetched \ ActiveRemovals(list)
           IN  /\ CopyTyped'
               /\ DOMAIN threads' = safe
               /\ DOMAIN cached' = Remaining(safe) \union stored
               /\ stored \subseteq safe
               /\ removals' = ActiveRemovals(list)
  <1> DEFINE list == syncs[s].list
             fetched == syncs[s].fetched
             active == ActiveRemovals(list)
             safe == DOMAIN list \ active
             stored == DOMAIN fetched \ active
             retained == {c \in safe \intersect DOMAIN overlays :
                            ~Confirmed(c, fetched)}
             Effective(c) ==
                IF c \in retained
                THEN Marked(fetched[c], overlays[c].ids, overlays[c].read)
                ELSE fetched[c]
             Row(c) == IF c \notin retained THEN list[c]
                       ELSE IF c \in DOMAIN fetched
                       THEN Updated(list[c], Effective(c))
                       ELSE IF overlays[c].ids = {}
                       THEN WithFlag(list[c], overlays[c].read) ELSE list[c]
  <1>1. /\ list \in Partial(Conversations, Threads)
        /\ fetched \in Partial(Conversations, Mails)
        /\ DOMAIN fetched \subseteq DOMAIN list
    BY DEF TypeOK, SyncStates, FetchesItsList
  <1>2. retained \in SUBSET DOMAIN overlays /\ stored \subseteq safe
    BY <1>1
  <1>3. \A c \in retained : overlays[c].read \in BOOLEAN
    <2>1. overlays \in Partial(Conversations, Overlays)
      BY DEF TypeOK
    <2>2. \A c \in DOMAIN overlays : overlays[c] \in Overlays
      BY <2>1, PartialFunction
    <2> HIDE DEF retained
    <2> QED BY <1>2, <2>2 DEF Overlays
  <1>4. \A c \in DOMAIN fetched : Effective(c) \in Mails
    <2>1. \A c \in DOMAIN fetched : fetched[c] \in Mails
      BY <1>1, PartialFunction
    <2> HIDE DEF retained, fetched
    <2> QED BY <2>1, <1>3, MarkedTyped
  <1>5. \A c \in safe : Row(c) \in Threads
    <2>1. \A c \in safe : list[c] \in Threads
      BY <1>1, PartialFunction
    <2> HIDE DEF retained, fetched, list, safe, Effective
    <2> QED BY <2>1, <1>3, <1>4, UpdatedTyped, WithFlagTyped
  <1>6. /\ threads' = [c \in safe |-> Row(c)]
        /\ removals' = active
        /\ overlays' = Restrict(overlays, retained)
        /\ cached' = [c \in Remaining(safe) \union stored |->
                        IF c \in stored THEN Effective(c) ELSE cached[c]]
    BY DEF Store
  <1> HIDE DEF retained, Effective, Row
  <1>7. threads' \in Partial(Conversations, Threads) /\ DOMAIN threads' = safe
    <2>1. safe \subseteq Conversations
      BY <1>1, PartialFunction
    <2> HIDE DEF safe
    <2> QED BY <1>5, <1>6, <2>1, PartialFunction
  <1>8. cached' \in Partial(Conversations, Mails)
        /\ DOMAIN cached' = Remaining(safe) \union stored
    <2>1. Remaining(safe) \subseteq DOMAIN cached
      BY DEF Remaining
    <2>2. \A c \in Remaining(safe) : c \in Conversations /\ cached[c] \in Mails
      BY <2>1, PartialFunction DEF TypeOK
    <2>3. \A c \in stored : c \in Conversations /\ Effective(c) \in Mails
      BY <1>1, <1>4, PartialFunction
    <2> HIDE DEF safe, stored
    <2> QED BY <1>6, <2>2, <2>3, PartialFunction
  <1>9. overlays' \in Partial(Conversations, Overlays)
    <2>1. overlays \in Partial(Conversations, Overlays)
      BY DEF TypeOK
    <2> QED BY <1>2, <1>6, <2>1, RestrictTyped
  <1>10. removals' \subseteq Conversations
    BY <1>6 DEF TypeOK, ActiveRemovals
  <1> QED BY <1>2, <1>6, <1>7, <1>8, <1>9, <1>10 DEF CopyTyped

SyncStep(s) ==
    \/ List(s) \/ FailList(s) \/ Compare(s) \/ Store(s)
    \/ \E c \in Conversations : Fetch(s, c) \/ FailFetch(s, c)

(* One synchronisation changes and stays within its list.                   *)
LEMMA OneSyncTyped ==
    ASSUME TypeOK, FetchesItsList, NEW s \in Syncs,
           NEW sync \in SyncStates,
           DOMAIN sync.fetched \subseteq DOMAIN sync.list,
           sync.todo \subseteq DOMAIN sync.list,
           syncs' = [syncs EXCEPT ![s] = sync]
    PROVE  syncs' \in [Syncs -> SyncStates] /\ FetchesItsList'
  BY DEF TypeOK, FetchesItsList

LEMMA SyncTyped ==
    ASSUME TypeOK, FetchesItsList, NEW s \in Syncs, SyncStep(s)
    PROVE  syncs' \in [Syncs -> SyncStates] /\ FetchesItsList'
  <1> DEFINE sync == syncs[s]
  <1>1. sync \in SyncStates /\ DOMAIN sync.fetched \subseteq DOMAIN sync.list
        /\ sync.todo \subseteq DOMAIN sync.list
    BY DEF TypeOK, FetchesItsList
  <1> SUFFICES \E new \in SyncStates :
                 /\ DOMAIN new.fetched \subseteq DOMAIN new.list
                 /\ new.todo \subseteq DOMAIN new.list
                 /\ syncs' = [syncs EXCEPT ![s] = new]
    BY OneSyncTyped
  <1>2. CASE List(s)
    <2> DEFINE list == [c \in inbox |-> ThreadOf(mail[c])]
               new == [NoSync EXCEPT !.step = "compare", !.list = list]
    <2>1. list \in Partial(Conversations, Threads)
      BY ListedTyped
    <2> HIDE DEF list
    <2>2. new \in SyncStates /\ new.fetched = NoSync.fetched
          /\ new.todo = NoSync.todo
      BY <2>1, NoSyncTyped DEF SyncStates
    <2>3. syncs' = [syncs EXCEPT ![s] = new]
      BY <1>2 DEF List, list
    <2> HIDE DEF new
    <2> QED BY <2>2, <2>3, NoSyncTyped
  <1>3. CASE FailList(s) \/ Store(s)
    BY <1>3, NoSyncTyped DEF FailList, Store
  <1>4. CASE Compare(s)
    <2> DEFINE new == [sync EXCEPT !.step = "fetch", !.todo = Changed(sync.list)]
    <2>1. Changed(sync.list) \subseteq DOMAIN sync.list
      BY DEF Changed
    <2>2. DOMAIN sync.list \subseteq Conversations
      BY <1>1, PartialFunction DEF SyncStates
    <2>3. new \in SyncStates /\ new.fetched = sync.fetched
          /\ new.list = sync.list /\ new.todo = Changed(sync.list)
      BY <1>1, <2>1, <2>2 DEF SyncStates
    <2>4. syncs' = [syncs EXCEPT ![s] = new]
      BY <1>4 DEF Compare
    <2> HIDE DEF new
    <2> QED BY <1>1, <2>1, <2>3, <2>4
  <1>5. ASSUME NEW c \in Conversations, Fetch(s, c)
        PROVE  \E new \in SyncStates :
                 /\ DOMAIN new.fetched \subseteq DOMAIN new.list
                 /\ new.todo \subseteq DOMAIN new.list
                 /\ syncs' = [syncs EXCEPT ![s] = new]
    <2> DEFINE got == Put(sync.fetched, c, mail[c])
               new == [sync EXCEPT !.todo = @ \ {c}, !.fetched = got]
    <2>1. sync.fetched \in Partial(Conversations, Mails) /\ mail[c] \in Mails
      BY <1>1 DEF SyncStates, TypeOK
    <2>2. got \in Partial(Conversations, Mails)
          /\ DOMAIN got = DOMAIN sync.fetched \union {c}
      <3> DEFINE f == sync.fetched
                 m == mail[c]
      <3>1. f \in Partial(Conversations, Mails) /\ m \in Mails
        BY <2>1
      <3> HIDE DEF f, m
      <3>2. Put(f, c, m) \in Partial(Conversations, Mails)
            /\ DOMAIN Put(f, c, m) = DOMAIN f \union {c}
        BY <3>1, PartialFunction DEF Put
      <3> QED BY <3>2 DEF f, m
    <2>3. c \in sync.todo /\ syncs' = [syncs EXCEPT ![s] = new]
      BY <1>5 DEF Fetch
    <2> HIDE DEF got
    <2>4. new \in SyncStates /\ new.fetched = got
          /\ new.list = sync.list /\ new.todo = sync.todo \ {c}
      BY <1>1, <2>2 DEF SyncStates
    <2> HIDE DEF new
    <2> QED BY <1>1, <2>2, <2>3, <2>4
  <1>6. ASSUME NEW c \in Conversations, FailFetch(s, c)
        PROVE  \E new \in SyncStates :
                 /\ DOMAIN new.fetched \subseteq DOMAIN new.list
                 /\ new.todo \subseteq DOMAIN new.list
                 /\ syncs' = [syncs EXCEPT ![s] = new]
    <2> DEFINE new == [sync EXCEPT !.todo = @ \ {c}]
    <2>1. new \in SyncStates /\ new.fetched = sync.fetched
          /\ new.list = sync.list /\ new.todo = sync.todo \ {c}
      BY <1>1 DEF SyncStates
    <2>2. syncs' = [syncs EXCEPT ![s] = new]
      BY <1>6 DEF FailFetch
    <2> HIDE DEF new
    <2> QED BY <1>1, <2>1, <2>2
  <1> QED BY <1>2, <1>3, <1>4, <1>5, <1>6 DEF SyncStep

----------------------------------------------------------------------------
(* The stores of the copy agree.                                            *)

IInv == TypeOK /\ FetchesItsList /\ CopyConsistent

(* A mutation that reaches the copy: whose rows, messages and tombstones    *)
(* are left, or all untouched.                                              *)
LEMMA CommitCopy ==
    ASSUME IInv, NEW c \in Conversations,
           CommitRemove(c) \/ CommitMark(c) \/ CommitDelete(c)
    PROVE  CopyTyped' /\ CopyConsistent'
  <1>1. CopyTyped /\ pending[c] \in Mutations /\ CopyConsistent
    BY DEF IInv, TypeOK, CopyTyped
  <1>2. CASE Forget(c)
    BY <1>1, <1>2, ForgetCopy DEF CopyConsistent
  <1>3. CASE CommitMark(c)
    BY <1>1, <1>3, MarkCopy DEF CopyConsistent
  <1>4. CASE CommitDelete(c) /\ ~Forget(c)
    BY <1>1, <1>4, DeleteCopy DEF CopyConsistent
  <1> QED BY <1>2, <1>3, <1>4 DEF CommitRemove

LEMMA InvInit == Init => IInv
  <1> SUFFICES ASSUME Init PROVE IInv
    OBVIOUS
  <1>1. TypeOK
    BY TypeInit
  <1>2. FetchesItsList
    BY NoSyncTyped DEF Init, FetchesItsList
  <1>3. DOMAIN cached = {} /\ DOMAIN threads = {}
    BY EmptyTyped DEF Init
  <1> QED BY <1>1, <1>2, <1>3 DEF IInv, CopyConsistent

LEMMA InvStep == IInv /\ [Next]_vars => IInv'
  <1> SUFFICES ASSUME IInv, [Next]_vars PROVE IInv'
    OBVIOUS
  <1>0. TypeOK /\ FetchesItsList /\ CopyConsistent
    BY DEF IInv
  <1>1. ASSUME NEW c \in Conversations,
               \/ Deliver(c) \/ MoveElsewhere(c)
               \/ \E n \in Messages : DeleteElsewhere(c, n) \/ MarkElsewhere(c, n)
        PROVE  IInv'
    <2>1. TypeOK'
      BY <1>0, <1>1, ElsewhereTyped
    <2>2. UNCHANGED <<copy, syncs>>
      BY <1>1 DEF Deliver, MoveElsewhere, DeleteElsewhere, MarkElsewhere
    <2> QED BY <1>0, <2>1, <2>2 DEF IInv, copy, FetchesItsList, CopyConsistent
  <1>2. ASSUME NEW c \in Conversations,
               \/ Remove(c) \/ MoveIn(c)
               \/ \E n \in Messages : Delete(c, n)
               \/ \E ids \in SUBSET Messages, read \in BOOLEAN :
                    Mark(c, ids, read)
        PROVE  IInv'
    <2>1. TypeOK'
      BY <1>0, <1>2, OwnTyped
    <2>2. UNCHANGED <<copy, syncs>>
      BY <1>2 DEF Remove, MoveIn, Delete, Mark
    <2> QED BY <1>0, <2>1, <2>2 DEF IInv, copy, FetchesItsList, CopyConsistent
  <1>3. ASSUME NEW c \in Conversations,
               CommitRemove(c) \/ CommitMark(c) \/ CommitDelete(c)
        PROVE  IInv'
    <2>1. CopyTyped' /\ CopyConsistent'
      BY <1>3, CommitCopy
    <2>2. /\ UNCHANGED <<server, enabled, bounds, syncs>>
          /\ pending' = [pending EXCEPT ![c] = NoMutation]
      BY <1>3 DEF CommitRemove, CommitMark, CommitDelete, Commit
    <2>3. NoMutation \in Mutations
      BY DEF NoMutation, Mutations, Kinds
    <2> QED
      BY <1>0, <2>1, <2>2, <2>3
      DEF IInv, TypeOK, CopyTyped, FetchesItsList, server, bounds
  <1>4. ASSUME NEW c \in Conversations, CommitMoveIn(c) \/ Skip(c)
        PROVE  IInv'
    <2>1. NoMutation \in Mutations
      BY DEF NoMutation, Mutations, Kinds
    <2>2. /\ pending' = [pending EXCEPT ![c] = NoMutation]
          /\ UNCHANGED <<server, enabled, bounds, threads, cached, overlays>>
          /\ removals' \subseteq removals
      BY <1>4 DEF CommitMoveIn, Skip, Commit, copy
    <2>3. syncs' \in [Syncs -> SyncStates] /\ FetchesItsList'
      <3>1. CASE Skip(c)
        BY <1>0, <3>1 DEF Skip, TypeOK, FetchesItsList
      <3>2. CASE CommitMoveIn(c)
        <4> DEFINE new == [NoSync EXCEPT !.step = "list"]
        <4>1. new \in SyncStates /\ new.fetched = NoSync.fetched
              /\ new.list = NoSync.list /\ new.todo = NoSync.todo
          BY NoSyncTyped DEF SyncStates
        <4>2. syncs' = [syncs EXCEPT !["afterMove"] = new]
          BY <3>2 DEF CommitMoveIn
        <4> HIDE DEF new
        <4> QED
          BY <1>0, <4>1, <4>2, NoSyncTyped DEF TypeOK, FetchesItsList
      <3> QED BY <1>4, <3>1, <3>2
    <2> QED
      BY <1>0, <2>1, <2>2, <2>3
      DEF IInv, TypeOK, CopyConsistent, server, bounds
  <1>5. ASSUME NEW s \in Syncs, SyncStep(s) PROVE IInv'
    <2>1. syncs' \in [Syncs -> SyncStates] /\ FetchesItsList'
      BY <1>0, <1>5, SyncTyped
    <2>2. UNCHANGED <<server, enabled, pending, bounds>>
      BY <1>5 DEF SyncStep, List, FailList, Compare, Store, Fetch, FailFetch
    <2>3. CopyTyped' /\ CopyConsistent'
      <3>1. CASE Store(s)
        BY <1>0, <3>1, StoreCopy DEF CopyConsistent, Remaining, ActiveRemovals
      <3>2. CASE ~Store(s)
        <4>1. UNCHANGED copy
          BY <1>5, <3>2 DEF SyncStep, List, FailList, Compare, Fetch, FailFetch
        <4> QED BY <1>0, <4>1 DEF copy, CopyTyped, TypeOK, CopyConsistent
      <3> QED BY <3>1, <3>2
    <2> QED
      BY <1>0, <2>1, <2>2, <2>3 DEF IInv, TypeOK, CopyTyped, server, bounds
  <1>6. CASE Toggle
    <2>1. /\ UNCHANGED <<server, syncs, pending, changes>>
          /\ toggles' \in 0..MaxToggles /\ enabled' \in BOOLEAN
      BY <1>0, <1>6, BoundsAssumption DEF Toggle, TypeOK
    <2>2. CopyTyped' /\ CopyConsistent'
      <3>1. CASE enabled
        <4>1. threads' = Empty /\ cached' = Empty /\ removals' = {}
              /\ overlays' = Empty
          BY <1>6, <3>1 DEF Toggle
        <4> QED BY <4>1, EmptyTyped DEF CopyTyped, CopyConsistent
      <3>2. CASE ~enabled
        BY <1>0, <1>6, <3>2 DEF Toggle, CopyTyped, TypeOK, CopyConsistent
      <3> QED BY <3>1, <3>2
    <2> QED
      BY <1>0, <2>1, <2>2
      DEF IInv, TypeOK, CopyTyped, FetchesItsList, server
  <1>7. CASE Close
    <2>1. syncs' \in [Syncs -> SyncStates] /\ FetchesItsList'
      BY <1>7, NoSyncTyped DEF Close, FetchesItsList
    <2>2. pending' \in [Conversations -> Mutations]
      BY <1>7 DEF Close, NoMutation, Mutations, Kinds
    <2>3. changes' \in 0..MaxChanges /\ toggles' \in 0..MaxToggles
      BY <1>0, <1>7, ChangeTyped DEF Close
    <2>4. UNCHANGED <<server, enabled, copy>>
      BY <1>7 DEF Close
    <2> QED
      BY <1>0, <2>1, <2>2, <2>3, <2>4
      DEF IInv, TypeOK, CopyConsistent, server, copy
  <1>8. CASE UNCHANGED vars
    BY <1>0, <1>8
    DEF vars, IInv, TypeOK, FetchesItsList, CopyConsistent, server, copy, bounds
  <1> QED
    BY <1>1, <1>2, <1>3, <1>4, <1>5, <1>6, <1>7, <1>8
    DEF Next, CommitAny, SyncStep

(* Every variable keeps its type.                                           *)
THEOREM TypeCorrect == Spec => []TypeOK
  BY InvInit, InvStep, PTL DEF Spec, IInv

(* Whatever overlaps, the copy keeps messages only for the conversations it *)
(* lists and lists none it has a tombstone of (offlineMailCache.ts:83-311). *)
THEOREM CopyStaysConsistent == Spec => []CopyConsistent
  BY InvInit, InvStep, PTL DEF Spec, IInv

----------------------------------------------------------------------------
(* Without the synchronisation that follows a move into the inbox, what was *)
(* removed stays hidden.  The list a synchronisation holds may be older     *)
(* than the removal; the tombstone is what it must then meet, and the list  *)
(* that drops the tombstone is one that no longer names the conversation.   *)

HiddenBy(c) ==
    /\ c \notin inbox /\ c \notin DOMAIN threads
    /\ c \in removals \/ \A s \in Syncs : c \notin DOMAIN syncs[s].list

HiddenInv ==
    /\ \A c \in gone : HiddenBy(c)
    /\ \A c \in Conversations : pending[c].kind # "moveIn"

LEMMA HiddenInit == Init => HiddenInv
  BY DEF Init, HiddenInv, NoMutation

(* Only a move by the user waits to be followed by a synchronisation.       *)
LEMMA NoMovePending ==
    ASSUME "afterMove" \notin Syncs, IInv, HiddenInv, Next
    PROVE  \A c \in Conversations : pending'[c].kind # "moveIn"
  <1>1. pending \in [Conversations -> Mutations] /\ NoMutation.kind = "none"
        /\ \A c \in Conversations : pending[c].kind # "moveIn"
    BY DEF IInv, TypeOK, HiddenInv, NoMutation
  <1>2. ASSUME NEW c \in Conversations, NEW mutation, mutation.kind # "moveIn",
               pending' = [pending EXCEPT ![c] = mutation]
        PROVE  \A d \in Conversations : pending'[d].kind # "moveIn"
    BY <1>1, <1>2
  <1>3. ASSUME NEW c \in Conversations,
               Remove(c) \/ \E n \in Messages : Delete(c, n)
        PROVE  \A d \in Conversations : pending'[d].kind # "moveIn"
    <2>1. CASE Remove(c)
      <3> DEFINE mutation == [NoMutation EXCEPT !.kind = "remove"]
      <3>1. mutation.kind = "remove"
        BY DEF NoMutation
      <3>2. pending' = [pending EXCEPT ![c] = mutation]
        BY <2>1 DEF Remove, Begin
      <3> HIDE DEF mutation
      <3> QED BY <1>2, <3>1, <3>2
    <2>2. ASSUME NEW n \in Messages, Delete(c, n)
          PROVE  \A d \in Conversations : pending'[d].kind # "moveIn"
      <3> DEFINE mutation == [NoMutation EXCEPT !.kind = "delete", !.ids = {n}]
      <3>1. mutation.kind = "delete"
        BY DEF NoMutation
      <3>2. pending' = [pending EXCEPT ![c] = mutation]
        BY <2>2 DEF Delete, Begin
      <3> HIDE DEF mutation
      <3> QED BY <1>2, <3>1, <3>2
    <2> QED BY <1>3, <2>1, <2>2
  <1>4. ASSUME NEW c \in Conversations, NEW ids \in SUBSET Messages,
               NEW read \in BOOLEAN, Mark(c, ids, read)
        PROVE  \A d \in Conversations : pending'[d].kind # "moveIn"
    <2> DEFINE mutation == [kind |-> "mark", read |-> read, ids |-> ids,
                 ours |-> IF ids = {} THEN DOMAIN mail[c] ELSE ids]
    <2>1. mutation.kind = "mark"
      OBVIOUS
    <2>2. pending' = [pending EXCEPT ![c] = mutation]
      BY <1>4 DEF Mark, Begin
    <2> HIDE DEF mutation
    <2> QED BY <1>2, <2>1, <2>2
  <1>5. ASSUME NEW c \in Conversations, CommitAny(c)
        PROVE  \A d \in Conversations : pending'[d].kind # "moveIn"
    <2>1. pending' = [pending EXCEPT ![c] = NoMutation]
      BY <1>5 DEF CommitAny, CommitRemove, CommitMoveIn, CommitMark,
                  CommitDelete, Skip, Commit
    <2> QED BY <1>1, <1>2, <2>1
  <1>6. ASSUME NEW c \in Conversations, NEW n \in Messages, MarkElsewhere(c, n)
        PROVE  \A d \in Conversations : pending'[d].kind # "moveIn"
    BY <1>1, <1>6 DEF MarkElsewhere, Mutations
  <1>7. CASE Close
    BY <1>1, <1>7 DEF Close
  <1>8. ASSUME UNCHANGED pending
        PROVE  \A d \in Conversations : pending'[d].kind # "moveIn"
    BY <1>1, <1>8
  <1>9. \A c \in Conversations : ~MoveIn(c)
    BY DEF MoveIn
  <1>10. ASSUME NEW c \in Conversations,
                \/ Deliver(c) \/ MoveElsewhere(c)
                \/ \E n \in Messages : DeleteElsewhere(c, n)
         PROVE  UNCHANGED pending
    BY <1>10 DEF Deliver, MoveElsewhere, DeleteElsewhere
  <1>11. ASSUME NEW s \in Syncs, SyncStep(s) PROVE UNCHANGED pending
    BY <1>11 DEF SyncStep, List, FailList, Compare, Store, Fetch, FailFetch
  <1>12. Toggle => UNCHANGED pending
    BY DEF Toggle
  <1> QED
    BY <1>3, <1>4, <1>5, <1>6, <1>7, <1>8, <1>9, <1>10, <1>11, <1>12
    DEF Next, SyncStep

LEMMA HiddenStep ==
    ASSUME "afterMove" \notin Syncs, IInv, HiddenInv, Next
    PROVE  \A c \in gone' : HiddenBy(c)'
  <1>0. TypeOK /\ FetchesItsList /\ CopyTyped
        /\ \A c \in gone : HiddenBy(c)
    BY DEF IInv, HiddenInv, TypeOK, CopyTyped
  <1>2. ASSUME NEW c \in Conversations,
               \/ Deliver(c) \/ MoveElsewhere(c) \/ Remove(c)
               \/ \E n \in Messages :
                    DeleteElsewhere(c, n) \/ MarkElsewhere(c, n) \/ Delete(c, n)
               \/ \E ids \in SUBSET Messages, read \in BOOLEAN :
                    Mark(c, ids, read)
        PROVE  \A d \in gone' : HiddenBy(d)'
    <2>1. UNCHANGED <<copy, syncs>>
      BY <1>2 DEF Deliver, MoveElsewhere, Remove, DeleteElsewhere,
                  MarkElsewhere, Delete, Mark
    <2>2. \/ inbox' \subseteq inbox /\ gone' \subseteq gone
          \/ inbox' \subseteq inbox \union {c} /\ gone' = gone \ {c}
      BY <1>2 DEF Deliver, MoveElsewhere, Remove, DeleteElsewhere,
                  MarkElsewhere, Delete, Mark, history
    <2> QED BY <1>0, <2>1, <2>2 DEF HiddenBy, copy
  <1>3. ASSUME NEW c \in Conversations, CommitAny(c)
        PROVE  \A d \in gone' : HiddenBy(d)'
    <2>1. ~CommitMoveIn(c)
      BY DEF CommitMoveIn, Commit, HiddenInv
    <2>2. pending[c] \in Mutations
      BY <1>0 DEF TypeOK
    <2>3. CASE Forget(c) /\ UNCHANGED <<inbox, syncs>>
      <3>1. DOMAIN threads' = DOMAIN threads \ {c}
            /\ removals' = removals \union {c}
        BY <1>0, <2>3, ForgetCopy
      <3>2. gone' = IF c \in inbox THEN gone ELSE gone \union {c}
        BY <2>3 DEF Forget
      <3> QED BY <1>0, <2>3, <3>1, <3>2 DEF HiddenBy
    <2>4. CASE CommitMark(c)
      <3>1. DOMAIN threads' = DOMAIN threads /\ removals' = removals
        BY <1>0, <2>2, <2>4, MarkCopy
      <3>2. UNCHANGED <<inbox, gone, syncs>>
        BY <2>4 DEF CommitMark, Commit, server
      <3> QED BY <1>0, <3>1, <3>2 DEF HiddenBy
    <2>5. CASE CommitDelete(c) /\ ~Forget(c)
      <3>1. DOMAIN threads' = DOMAIN threads /\ UNCHANGED <<removals, gone>>
        BY <1>0, <2>5, DeleteCopy
      <3>2. UNCHANGED <<inbox, syncs>>
        BY <2>5 DEF CommitDelete, Commit, server
      <3> QED BY <1>0, <3>1, <3>2 DEF HiddenBy
    <2>6. CASE Skip(c)
      BY <1>0, <2>6 DEF Skip, HiddenBy, server, copy, history
    <2>7. CommitRemove(c) \/ CommitDelete(c) => UNCHANGED <<inbox, syncs>>
      BY DEF CommitRemove, CommitDelete, Commit, server
    <2> QED
      BY <1>3, <2>1, <2>3, <2>4, <2>5, <2>6, <2>7 DEF CommitAny, CommitRemove
  <1>4. ASSUME NEW s \in Syncs, SyncStep(s)
        PROVE  \A d \in gone' : HiddenBy(d)'
    <2>0. syncs \in [Syncs -> SyncStates] /\ UNCHANGED <<inbox, gone>>
      BY <1>0, <1>4
      DEF TypeOK, SyncStep, List, FailList, Compare, Store, Fetch, FailFetch,
          server, history
    <2>1. \A t \in Syncs : t = s
      BY <1>4, SyncsAssumption
    <2>2. CASE Store(s)
      <3>1. /\ DOMAIN threads' = DOMAIN syncs[s].list
                                 \ ActiveRemovals(syncs[s].list)
            /\ removals' = ActiveRemovals(syncs[s].list)
        BY <1>0, <2>2, StoreCopy
      <3>2. syncs'[s] = NoSync
        BY <2>0, <2>2 DEF Store
      <3> QED
        BY <1>0, <2>0, <2>1, <3>1, <3>2, NoSyncTyped DEF HiddenBy, ActiveRemovals
    <2>3. CASE List(s)
      <3>1. syncs'[s] = [NoSync EXCEPT !.step = "compare",
                             !.list = [c \in inbox |-> ThreadOf(mail[c])]]
        BY <2>0, <2>3 DEF List
      <3>2. DOMAIN syncs'[s].list = inbox
        BY <3>1 DEF NoSync
      <3>3. UNCHANGED copy
        BY <2>3 DEF List
      <3> QED BY <1>0, <2>0, <2>1, <3>2, <3>3 DEF HiddenBy, copy
    <2>4. CASE ~Store(s) /\ ~List(s)
      <3>1. UNCHANGED copy
        BY <1>4, <2>4 DEF SyncStep, FailList, Compare, Fetch, FailFetch
      <3>2. syncs'[s].list = syncs[s].list \/ syncs'[s] = NoSync
        BY <1>4, <2>0, <2>4
        DEF SyncStep, FailList, Compare, Fetch, FailFetch, SyncStates
      <3> QED BY <1>0, <2>0, <2>1, <3>1, <3>2, NoSyncTyped DEF HiddenBy, copy
    <2> QED BY <2>2, <2>3, <2>4
  <1>5. CASE Toggle
    <2>1. CASE enabled
      BY <1>5, <2>1 DEF Toggle
    <2>2. CASE ~enabled
      BY <1>0, <1>5, <2>2 DEF Toggle, HiddenBy, server
    <2> QED BY <2>1, <2>2
  <1>6. CASE Close
    <2>1. \A s \in Syncs : syncs'[s] = NoSync
      BY <1>6 DEF Close
    <2>2. UNCHANGED <<server, copy, gone>>
      BY <1>6 DEF Close, history
    <2> QED BY <1>0, <2>1, <2>2, NoSyncTyped DEF HiddenBy, server, copy
  <1>7. \A c \in Conversations : ~MoveIn(c)
    BY DEF MoveIn
  <1> QED BY <1>2, <1>3, <1>4, <1>5, <1>6, <1>7 DEF Next, SyncStep

(* With one synchronisation at a time, a conversation removed here stays    *)
(* out of the copy until it is in the inbox again, however old the list a   *)
(* synchronisation stores (offlineMailCache.ts:83, 263-264).                *)
THEOREM RemovedStaysRemoved ==
    ASSUME "afterMove" \notin Syncs
    PROVE  Spec => []RemovedStaysHidden
  <1>1. Init => IInv /\ HiddenInv
    BY InvInit, HiddenInit
  <1>2. IInv /\ HiddenInv /\ [Next]_vars => (IInv /\ HiddenInv)'
    <2>1. ASSUME IInv, HiddenInv, Next PROVE HiddenInv'
      BY <2>1, NoMovePending, HiddenStep DEF HiddenInv
    <2>2. ASSUME IInv, HiddenInv, UNCHANGED vars PROVE HiddenInv'
      BY <2>2 DEF HiddenInv, HiddenBy, vars, server, copy, history
    <2> QED BY <2>1, <2>2, InvStep
  <1>3. HiddenInv => RemovedStaysHidden
    BY DEF HiddenInv, HiddenBy, RemovedStaysHidden
  <1> QED BY <1>1, <1>2, <1>3, PTL DEF Spec

----------------------------------------------------------------------------
(* Without that synchronisation, a marking shows in the copy as long as     *)
(* nobody marks the conversation elsewhere.  Fetched messages may be older  *)
(* than the marking: then its overlay is there and is put over them; once   *)
(* it has been dropped, what is under way was fetched later, or agrees.     *)

MarkRecords == [read : BOOLEAN, of : SUBSET Messages]
MarkTypes == marks \in Partial(Conversations, MarkRecords)

(* A message delivered later is none of those a marking is about.           *)
Numbered == \A c \in Conversations :
    /\ DOMAIN mail[c] \subseteq 1..delivered[c]
    /\ pending[c].ours \subseteq 1..delivered[c]
    /\ c \in DOMAIN marks => marks[c].of \subseteq 1..delivered[c]

Shows(m, of, read) == \A n \in of \intersect DOMAIN m : m[n] = read
Covers(ids, of) == ids = {} \/ of \subseteq ids

(* A marking the copy has not yet: the server has it, and it names the      *)
(* messages that are still as it left them.                                 *)
Accepted == \A c \in Conversations : pending[c].kind = "mark" =>
    /\ Shows(mail[c], pending[c].ours, pending[c].read)
    /\ Covers(pending[c].ids, pending[c].ours)

(* A marking the copy has: the server still has it, the copy shows it, and  *)
(* its overlay covers it unless all that is fetched shows it.               *)
ShownBy(c) ==
    LET of == marks[c].of
        read == marks[c].read
    IN  /\ Shows(mail[c], of, read)
        /\ c \in DOMAIN cached => Shows(cached[c], of, read)
        /\ IF c \in DOMAIN overlays
           THEN overlays[c].read = read /\ Covers(overlays[c].ids, of)
           ELSE \A s \in Syncs : c \in DOMAIN syncs[s].fetched =>
                    Shows(syncs[s].fetched[c], of, read)
Shown == \A c \in DOMAIN marks : ShownBy(c)

MarkInv == MarkTypes /\ Numbered /\ Accepted /\ Shown

LEMMA ShowsMarked ==
    ASSUME NEW m \in Mails, NEW ids, NEW of, NEW read, Covers(ids, of)
    PROVE  Shows(Marked(m, ids, read), of, read)
  BY DEF Shows, Marked, Covers

LEMMA ShowsLess ==
    ASSUME NEW S, NEW T, NEW m \in Partial(S, T), NEW D \in SUBSET DOMAIN m, NEW of, NEW read,
           Shows(m, of, read)
    PROVE  Shows(Restrict(m, D), of, read)
  BY RestrictTyped DEF Shows, Restrict

LEMMA ShowsDropped ==
    ASSUME NEW m \in Mails, NEW n, NEW of, NEW read, Shows(m, of, read)
    PROVE  Shows(Drop(m, n), of, read)
  BY ShowsLess DEF Drop, Mails

(* The marking of a conversation whose mail, copy and fetches stay.         *)
LEMMA ShownKept ==
    ASSUME NEW c, ShownBy(c), marks'[c] = marks[c],
           UNCHANGED <<overlays, syncs, cached>>, Shows(mail'[c], marks[c].of, marks[c].read)
    PROVE  ShownBy(c)'
  BY DEF ShownBy

LEMMA MarkInit == Init => MarkInv
  <1> SUFFICES ASSUME Init PROVE MarkInv
    OBVIOUS
  <1>1. MarkTypes /\ Shown
    BY EmptyTyped DEF Init, MarkTypes, Shown
  <1>2. \A c \in Conversations : pending[c].ours = {} /\ pending[c].kind = "none"
    BY DEF Init, NoMutation
  <1>3. Accepted
    BY <1>2 DEF Accepted
  <1>4. Numbered
    BY <1>1, <1>2, EmptyTyped DEF Init, Numbered
  <1> QED BY <1>1, <1>3, <1>4 DEF MarkInv

(* A mutation that starts, or ends, of one conversation.                    *)
LEMMA PendingOf ==
    ASSUME TypeOK, NEW c \in Conversations, NEW mutation,
           pending' = [pending EXCEPT ![c] = mutation]
    PROVE  \A d \in Conversations : pending'[d] = IF d = c THEN mutation ELSE pending[d]
  BY DEF TypeOK

(* Mail that changes elsewhere.                                             *)
LEMMA ElsewhereMarks ==
    ASSUME TypeOK, MarkInv, NEW c \in Conversations,
           \/ Deliver(c) \/ MoveElsewhere(c)
           \/ \E n \in Messages : DeleteElsewhere(c, n) \/ MarkElsewhere(c, n)
    PROVE  MarkInv'
  <1>0. MarkTypes /\ Numbered /\ Accepted /\ Shown
    BY DEF MarkInv
  <1>1. /\ mail \in [Conversations -> Mails] /\ delivered \in [Conversations -> Messages]
        /\ DOMAIN marks \subseteq Conversations
    BY <1>0, PartialFunction DEF TypeOK, MarkTypes
  <1> USE DEF copy
  <1>2. CASE Deliver(c)
    <2> DEFINE n == delivered[c] + 1
    <2>1. /\ UNCHANGED <<copy, syncs, pending, marks>>
          /\ \A d \in Conversations :
                mail'[d] = IF d = c THEN Put(mail[c], n, FALSE) ELSE mail[d]
          /\ \A d \in Conversations : delivered'[d] = IF d = c THEN n ELSE delivered[d]
      BY <1>1, <1>2 DEF Deliver
    <2>2. DOMAIN Put(mail[c], n, FALSE) = DOMAIN mail[c] \union {n}
          /\ \A x \in DOMAIN mail[c] : x # n => Put(mail[c], n, FALSE)[x] = mail[c][x]
      BY <1>1, PartialFunction DEF Put, Mails
    <2>3. /\ \A d \in Conversations : delivered[d] \in Nat
          /\ 1..delivered[c] \subseteq 1..n /\ n \in 1..n /\ n \notin 1..delivered[c]
      BY <1>1 DEF Messages
    <2> HIDE DEF n
    <2>4. Numbered'
      BY <1>0, <1>1, <2>1, <2>2, <2>3 DEF Numbered
    <2>7. ASSUME NEW of \in SUBSET (1..delivered[c]), NEW read, Shows(mail[c], of, read)
          PROVE  Shows(Put(mail[c], n, FALSE), of, read)
      BY <2>2, <2>3, <2>7 DEF Shows
    <2>5. Accepted'
      BY <1>0, <2>1, <2>7 DEF Accepted, Numbered
    <2>6. \A d \in DOMAIN marks : Shows(mail'[d], marks[d].of, marks[d].read)
      BY <1>0, <1>1, <2>1, <2>7 DEF Shown, ShownBy, Numbered
    <2> QED
      BY <1>0, <2>1, <2>4, <2>5, <2>6, ShownKept DEF MarkInv, MarkTypes, Shown
  <1>3. CASE MoveElsewhere(c)
    BY <1>0, <1>3
    DEF MoveElsewhere, MarkInv, MarkTypes, Numbered, Accepted, Shown, ShownBy
  <1>4. ASSUME NEW n \in Messages, DeleteElsewhere(c, n) PROVE MarkInv'
    <2>1. /\ UNCHANGED <<copy, syncs, pending, marks, delivered>>
          /\ \A d \in Conversations : mail'[d] = IF d = c THEN Drop(mail[c], n) ELSE mail[d]
      BY <1>1, <1>4 DEF DeleteElsewhere, history
    <2>2. DOMAIN Drop(mail[c], n) \subseteq DOMAIN mail[c]
      BY DEF Drop, Restrict
    <2>3. \A of, read : Shows(mail[c], of, read) => Shows(Drop(mail[c], n), of, read)
      BY <1>1, ShowsDropped
    <2>4. Numbered'
      BY <1>0, <2>1, <2>2 DEF Numbered
    <2>5. Accepted'
      BY <1>0, <2>1, <2>3 DEF Accepted
    <2>6. \A d \in DOMAIN marks : Shows(mail'[d], marks[d].of, marks[d].read)
      BY <1>0, <1>1, <2>1, <2>3 DEF Shown, ShownBy
    <2> QED
      BY <1>0, <2>1, <2>4, <2>5, <2>6, ShownKept DEF MarkInv, MarkTypes, Shown
  <1>5. ASSUME NEW n \in Messages, MarkElsewhere(c, n) PROVE MarkInv'
    <2>1. /\ UNCHANGED <<copy, syncs, delivered>> /\ marks' = Drop(marks, c)
          /\ \A d \in Conversations :
                mail'[d] = IF d = c THEN [mail[c] EXCEPT ![n] = ~@] ELSE mail[d]
          /\ pending' = [pending EXCEPT ![c].ours = @ \ {n}]
      BY <1>1, <1>5 DEF MarkElsewhere
    <2>2. /\ DOMAIN [mail[c] EXCEPT ![n] = ~@] = DOMAIN mail[c]
          /\ \A x \in DOMAIN mail[c] : x # n => [mail[c] EXCEPT ![n] = ~@][x] = mail[c][x]
      OBVIOUS
    <2>3. \A d \in Conversations :
            /\ pending'[d].kind = pending[d].kind /\ pending'[d].read = pending[d].read
            /\ pending'[d].ids = pending[d].ids
            /\ pending'[d].ours = IF d = c THEN pending[c].ours \ {n} ELSE pending[d].ours
      BY <2>1 DEF TypeOK, Mutations
    <2>4. /\ MarkTypes' /\ DOMAIN marks' = DOMAIN marks \ {c}
          /\ \A d \in DOMAIN marks' : marks'[d] = marks[d]
      <3>1. MarkTypes' /\ DOMAIN marks' = DOMAIN marks \ {c}
        BY <1>0, <2>1, DropTyped DEF MarkTypes
      <3>2. \A d \in DOMAIN marks \ {c} : Drop(marks, c)[d] = marks[d]
        BY DEF Drop, Restrict
      <3> QED BY <2>1, <3>1, <3>2
    <2>5. Numbered'
      BY <1>0, <2>1, <2>2, <2>3, <2>4 DEF Numbered
    <2>6. Accepted'
      BY <1>0, <2>1, <2>2, <2>3 DEF Accepted, Shows, Covers
    <2>7. \A d \in DOMAIN marks' : Shows(mail'[d], marks[d].of, marks[d].read)
      BY <1>0, <1>1, <2>1, <2>4 DEF Shown, ShownBy
    <2> QED
      BY <1>0, <2>1, <2>4, <2>5, <2>6, <2>7, ShownKept DEF MarkInv, Shown
  <1> QED BY <1>2, <1>3, <1>4, <1>5

(* The user's own changes: a marking is accepted, and replaces the last.    *)
LEMMA OwnMarks ==
    ASSUME TypeOK, MarkInv, NEW c \in Conversations,
           \/ Remove(c) \/ MoveIn(c)
           \/ \E n \in Messages : Delete(c, n)
           \/ \E ids \in SUBSET Messages, read \in BOOLEAN : Mark(c, ids, read)
    PROVE  MarkInv'
  <1>0. MarkTypes /\ Numbered /\ Accepted /\ Shown
    BY DEF MarkInv
  <1>1. /\ mail \in [Conversations -> Mails] /\ delivered \in [Conversations -> Messages]
        /\ DOMAIN marks \subseteq Conversations
    BY <1>0, PartialFunction DEF TypeOK, MarkTypes
  <1> USE DEF copy
  <1>3. ASSUME NEW mutation, mutation.kind # "mark", mutation.ours = {},
               pending' = [pending EXCEPT ![c] = mutation],
               UNCHANGED <<copy, syncs, marks, delivered>>,
               \A d \in Conversations :
                  DOMAIN mail'[d] \subseteq DOMAIN mail[d]
                  /\ \A of, read : Shows(mail[d], of, read) => Shows(mail'[d], of, read)
        PROVE  MarkInv'
    <2>1. \A d \in Conversations : pending'[d] = IF d = c THEN mutation ELSE pending[d]
      BY <1>3, PendingOf
    <2>2. Numbered'
      BY <1>0, <1>3, <2>1 DEF Numbered
    <2>3. Accepted'
      BY <1>0, <1>3, <2>1 DEF Accepted
    <2>4. \A d \in DOMAIN marks : Shows(mail'[d], marks[d].of, marks[d].read)
      BY <1>0, <1>1, <1>3 DEF Shown, ShownBy
    <2> QED BY <1>0, <1>3, <2>2, <2>3, <2>4, ShownKept DEF MarkInv, MarkTypes, Shown
  <1>4. CASE Remove(c)
    <2> DEFINE mutation == [NoMutation EXCEPT !.kind = "remove"]
    <2>1. mutation.kind # "mark" /\ mutation.ours = {}
      BY DEF NoMutation
    <2>2. pending' = [pending EXCEPT ![c] = mutation] /\ UNCHANGED <<copy, syncs, marks, delivered, mail>>
      BY <1>4 DEF Remove, Begin, history
    <2> HIDE DEF mutation
    <2> QED BY <1>3, <2>1, <2>2
  <1>5. CASE MoveIn(c)
    <2> DEFINE mutation == [NoMutation EXCEPT !.kind = "moveIn"]
    <2>1. mutation.kind # "mark" /\ mutation.ours = {}
      BY DEF NoMutation
    <2>2. pending' = [pending EXCEPT ![c] = mutation] /\ UNCHANGED <<copy, syncs, marks, delivered, mail>>
      BY <1>5 DEF MoveIn, Begin
    <2> HIDE DEF mutation
    <2> QED BY <1>3, <2>1, <2>2
  <1>6. ASSUME NEW n \in Messages, Delete(c, n) PROVE MarkInv'
    <2> DEFINE mutation == [NoMutation EXCEPT !.kind = "delete", !.ids = {n}]
    <2>1. mutation.kind # "mark" /\ mutation.ours = {}
      BY DEF NoMutation
    <2>2. /\ pending' = [pending EXCEPT ![c] = mutation] /\ UNCHANGED <<copy, syncs, marks, delivered>>
          /\ \A d \in Conversations : mail'[d] = IF d = c THEN Drop(mail[c], n) ELSE mail[d]
      BY <1>1, <1>6 DEF Delete, Begin, history
    <2>3. DOMAIN Drop(mail[c], n) \subseteq DOMAIN mail[c]
      BY DEF Drop, Restrict
    <2>4. \A of, read : Shows(mail[c], of, read) => Shows(Drop(mail[c], n), of, read)
      BY <1>1, ShowsDropped
    <2> HIDE DEF mutation
    <2> QED BY <1>3, <2>1, <2>2, <2>3, <2>4
  <1>7. ASSUME NEW ids \in SUBSET Messages, NEW read \in BOOLEAN, Mark(c, ids, read)
        PROVE  MarkInv'
    <2> DEFINE ours == IF ids = {} THEN DOMAIN mail[c] ELSE ids
               mutation == [kind |-> "mark", read |-> read, ids |-> ids, ours |-> ours]
    <2>1. /\ UNCHANGED <<copy, syncs, delivered>> /\ marks' = Drop(marks, c)
          /\ \A d \in Conversations :
                mail'[d] = IF d = c THEN Marked(mail[c], ids, read) ELSE mail[d]
          /\ pending' = [pending EXCEPT ![c] = mutation] /\ ids \subseteq DOMAIN mail[c]
      BY <1>1, <1>7 DEF Mark, Begin
    <2>2. /\ mutation.kind = "mark" /\ mutation.read = read /\ mutation.ids = ids
          /\ mutation.ours = ours
      OBVIOUS
    <2>3. Covers(ids, ours) /\ ours \subseteq DOMAIN mail[c]
      BY <2>1 DEF Covers
    <2>4. Shows(Marked(mail[c], ids, read), ours, read) /\ DOMAIN Marked(mail[c], ids, read) = DOMAIN mail[c]
      BY <1>1, <2>3, ShowsMarked, MarkedTyped
    <2> HIDE DEF ours, mutation
    <2>5. \A d \in Conversations : pending'[d] = IF d = c THEN mutation ELSE pending[d]
      <3>1. pending' = [pending EXCEPT ![c] = mutation]
        BY <2>1
      <3> QED BY <3>1 DEF TypeOK
    <2>6. /\ MarkTypes' /\ DOMAIN marks' = DOMAIN marks \ {c}
          /\ \A d \in DOMAIN marks' : marks'[d] = marks[d]
      <3>1. MarkTypes' /\ DOMAIN marks' = DOMAIN marks \ {c}
        BY <1>0, <2>1, DropTyped DEF MarkTypes
      <3>2. \A d \in DOMAIN marks \ {c} : Drop(marks, c)[d] = marks[d]
        BY DEF Drop, Restrict
      <3> QED BY <2>1, <3>1, <3>2
    <2>7. Numbered'
      BY <1>0, <2>1, <2>2, <2>3, <2>4, <2>5, <2>6 DEF Numbered
    <2>8. Accepted'
      BY <1>0, <2>1, <2>2, <2>3, <2>4, <2>5 DEF Accepted
    <2>9. \A d \in DOMAIN marks' : Shows(mail'[d], marks[d].of, marks[d].read)
      BY <1>0, <1>1, <2>1, <2>6 DEF Shown, ShownBy
    <2> QED
      BY <1>0, <2>1, <2>6, <2>7, <2>8, <2>9, ShownKept DEF MarkInv, Shown
  <1> QED BY <1>4, <1>5, <1>6, <1>7

(* The changes reach the copy: a marking with its overlay, and a deletion   *)
(* or a removal takes what it takes from the rows and the messages.         *)
LEMMA CommitMarks ==
    ASSUME TypeOK, MarkInv, NEW c \in Conversations, CommitAny(c), ~CommitMoveIn(c)
    PROVE  MarkInv'
  <1>0. MarkTypes /\ Numbered /\ Accepted /\ Shown
    BY DEF MarkInv
  <1>1. /\ DOMAIN marks \subseteq Conversations /\ UNCHANGED <<mail, delivered, syncs>>
        /\ cached \in Partial(Conversations, Mails) /\ overlays \in Partial(Conversations, Overlays)
    BY <1>0, PartialFunction
    DEF TypeOK, MarkTypes, CommitAny, CommitRemove, CommitMark, CommitDelete, Skip, Commit, server
  <1>2. \A d \in Conversations : pending'[d] = IF d = c THEN NoMutation ELSE pending[d]
    <2>1. pending' = [pending EXCEPT ![c] = NoMutation]
      BY DEF CommitAny, CommitRemove, CommitMark, CommitDelete, Skip, Commit
    <2> QED BY <2>1 DEF TypeOK
  <1>3. Accepted' /\ NoMutation.ours = {}
    BY <1>0, <1>1, <1>2 DEF Accepted, NoMutation
  <1>4. (\A d \in DOMAIN marks' : d # c => d \in DOMAIN marks /\ marks'[d] = marks[d])
        /\ (c \in DOMAIN marks' => marks'[c].of \subseteq 1..delivered[c])
        => Numbered'
    BY <1>0, <1>1, <1>2, <1>3 DEF Numbered
  <1>5. CASE Forget(c)
    <2>1. /\ MarkTypes' /\ DOMAIN marks' = DOMAIN marks \ {c}
          /\ \A d \in DOMAIN marks' : marks'[d] = marks[d]
      <3>1. MarkTypes' /\ DOMAIN marks' = DOMAIN marks \ {c}
        BY <1>0, <1>5, DropTyped DEF MarkTypes, Forget
      <3> QED BY <1>5, <3>1 DEF Forget, Drop, Restrict
    <2>2. /\ DOMAIN cached' = DOMAIN cached \ {c} /\ DOMAIN overlays' = DOMAIN overlays \ {c}
          /\ \A d \in DOMAIN cached' : cached'[d] = cached[d]
          /\ \A d \in DOMAIN overlays' : overlays'[d] = overlays[d]
      BY <1>5 DEF Forget, Drop, Restrict
    <2>3. Shown'
      BY <1>0, <1>1, <2>1, <2>2 DEF Shown, ShownBy
    <2> QED BY <1>3, <1>4, <2>1, <2>3 DEF MarkInv
  <1>6. CASE CommitMark(c)
    <2> DEFINE p == pending[c]
               mark == [read |-> p.read, of |-> p.ours]
               overlay == [read |-> p.read, ids |-> p.ids]
    <2>1. p \in Mutations /\ p.kind = "mark"
      BY <1>6 DEF TypeOK, CommitMark, Commit
    <2>2. /\ mark \in MarkRecords
          /\ mark.read = p.read /\ mark.of = p.ours /\ overlay.read = p.read /\ overlay.ids = p.ids
      BY <2>1 DEF Mutations, MarkRecords
    <2>3. /\ marks' = Put(marks, c, mark) /\ overlays' = Put(overlays, c, overlay)
          /\ cached' = IF HasMessages(c) THEN Put(cached, c, Marked(cached[c], p.ids, p.read)) ELSE cached
      BY <1>6 DEF CommitMark
    <2> HIDE DEF mark, overlay
    <2>4. MarkTypes' /\ DOMAIN marks' = DOMAIN marks \union {c}
      <3>1. marks \in Partial(Conversations, MarkRecords)
        BY <1>0 DEF MarkTypes
      <3>2. /\ Put(marks, c, mark) \in Partial(Conversations, MarkRecords)
            /\ DOMAIN Put(marks, c, mark) = DOMAIN marks \union {c}
        BY <2>2, <3>1, PartialFunction DEF Put
      <3> QED BY <2>3, <3>2 DEF MarkTypes
    <2>5. \A d \in DOMAIN marks' : marks'[d] = IF d = c THEN mark ELSE marks[d]
      BY <2>3 DEF Put
    <2>6. /\ DOMAIN overlays' = DOMAIN overlays \union {c}
          /\ \A d \in DOMAIN overlays' : overlays'[d] = IF d = c THEN overlay ELSE overlays[d]
      BY <2>3 DEF Put
    <2>7. /\ DOMAIN cached' = DOMAIN cached
          /\ \A d \in DOMAIN cached : d # c => cached'[d] = cached[d]
          /\ c \in DOMAIN cached => Shows(cached'[c], p.ours, p.read)
      <3>1. CASE HasMessages(c)
        <4>1. cached[c] \in Mails /\ c \in DOMAIN cached
          BY <1>1, <3>1, PartialFunction DEF HasMessages
        <4>2. Shows(Marked(cached[c], p.ids, p.read), p.ours, p.read)
          BY <1>0, <2>1, <4>1, ShowsMarked DEF Accepted
        <4> QED BY <2>3, <3>1, <4>1, <4>2 DEF Put
      <3>2. CASE ~HasMessages(c)
        <4>1. c \in DOMAIN cached => DOMAIN cached[c] = {}
          BY <3>2 DEF HasMessages
        <4> QED BY <2>3, <3>2, <4>1 DEF Shows
      <3> QED BY <3>1, <3>2
    <2>8. Shown'
      <3>1. ASSUME NEW d \in DOMAIN marks', d # c PROVE ShownBy(d)'
        BY <1>0, <1>1, <2>4, <2>5, <2>6, <2>7, <3>1 DEF Shown, ShownBy
      <3>2. ShownBy(c)'
        <4>1. marks'[c] = mark /\ overlays'[c] = overlay /\ c \in DOMAIN overlays'
          BY <2>4, <2>5, <2>6
        <4>2. Shows(mail[c], p.ours, p.read) /\ Covers(p.ids, p.ours)
          BY <1>0, <2>1 DEF Accepted
        <4> QED BY <1>1, <2>2, <2>7, <4>1, <4>2 DEF ShownBy
      <3> QED BY <3>1, <3>2 DEF Shown
    <2>9. Numbered'
      BY <1>0, <1>4, <2>2, <2>4, <2>5 DEF Numbered
    <2> QED BY <1>3, <2>4, <2>8, <2>9 DEF MarkInv
  <1>7. CASE CommitDelete(c) /\ ~Forget(c)
    <2> DEFINE remaining == Restrict(cached[c], DOMAIN cached[c] \ pending[c].ids)
    <2>1. /\ UNCHANGED <<overlays, marks>>
          /\ cached' = IF HasMessages(c) THEN Put(cached, c, remaining) ELSE cached
      BY <1>7 DEF CommitDelete
    <2>2. HasMessages(c) =>
            \A of, read : Shows(cached[c], of, read) => Shows(remaining, of, read)
      BY DEF Shows, Restrict
    <2> HIDE DEF remaining
    <2>3. /\ DOMAIN cached' = DOMAIN cached
          /\ \A d \in DOMAIN cached : \A of, read :
                Shows(cached[d], of, read) => Shows(cached'[d], of, read)
      BY <2>1, <2>2 DEF Put, HasMessages
    <2>4. Shown'
      BY <1>0, <1>1, <2>1, <2>3 DEF Shown, ShownBy
    <2>5. Numbered'
      BY <1>0, <1>4, <2>1 DEF Numbered
    <2> QED BY <1>0, <1>3, <2>1, <2>4, <2>5 DEF MarkInv, MarkTypes
  <1>8. CASE Skip(c)
    BY <1>0, <1>1, <1>3, <1>4, <1>8
    DEF Skip, copy, history, MarkInv, MarkTypes, Shown, ShownBy, Numbered
  <1> QED
    BY <1>5, <1>6, <1>7, <1>8 DEF CommitAny, CommitRemove

(* With one synchronisation, what it holds was fetched since the overlay    *)
(* was dropped; what it stores is under the overlay, or agrees with it.     *)
LEMMA SyncMarks ==
    ASSUME "afterMove" \notin Syncs, IInv, MarkInv, NEW s \in Syncs, SyncStep(s)
    PROVE  MarkInv'
  <1>0. TypeOK /\ FetchesItsList /\ MarkTypes /\ Numbered /\ Accepted /\ Shown
    BY DEF IInv, MarkInv
  <1>1. /\ UNCHANGED <<mail, delivered, pending, marks>> /\ DOMAIN marks \subseteq Conversations
        /\ mail \in [Conversations -> Mails] /\ syncs \in [Syncs -> SyncStates]
        /\ \A t \in Syncs : t = s
    <2>1. UNCHANGED <<mail, delivered, pending, marks>>
      BY DEF SyncStep, List, FailList, Compare, Store, Fetch, FailFetch, server, history
    <2>2. DOMAIN marks \subseteq Conversations
      BY <1>0, PartialFunction DEF MarkTypes
    <2>3. \A t \in Syncs : t = s
      BY SyncsAssumption
    <2> QED BY <1>0, <2>1, <2>2, <2>3 DEF TypeOK
  <1>2. MarkTypes' /\ Numbered' /\ Accepted'
    BY <1>0, <1>1 DEF MarkTypes, Numbered, Accepted
  <1>3. ASSUME UNCHANGED <<overlays, cached>>,
               \A c \in DOMAIN marks :
                  c \in DOMAIN syncs'[s].fetched =>
                    \/ Shows(syncs'[s].fetched[c], marks[c].of, marks[c].read)
                    \/ /\ c \in DOMAIN syncs[s].fetched
                       /\ syncs'[s].fetched[c] = syncs[s].fetched[c]
        PROVE  Shown'
    BY <1>0, <1>1, <1>3 DEF Shown, ShownBy
  <1>4. CASE List(s) \/ FailList(s)
    <2>1. syncs'[s].fetched = NoSync.fetched /\ UNCHANGED <<overlays, cached>>
      BY <1>1, <1>4 DEF List, FailList, copy, NoSync
    <2> QED BY <1>2, <1>3, <2>1, NoSyncTyped DEF MarkInv
  <1>5. CASE Compare(s) \/ \E c \in Conversations : FailFetch(s, c)
    <2>1. syncs'[s].fetched = syncs[s].fetched /\ UNCHANGED <<overlays, cached>>
      BY <1>1, <1>5 DEF Compare, FailFetch, copy, SyncStates
    <2> QED BY <1>2, <1>3, <2>1 DEF MarkInv
  <1>6. ASSUME NEW c \in Conversations, Fetch(s, c) PROVE MarkInv'
    <2>1. syncs'[s].fetched = Put(syncs[s].fetched, c, mail[c]) /\ UNCHANGED <<overlays, cached>>
      BY <1>1, <1>6 DEF Fetch, copy, SyncStates
    <2>2. ASSUME NEW d \in DOMAIN marks, d \in DOMAIN syncs'[s].fetched
          PROVE  \/ Shows(syncs'[s].fetched[d], marks[d].of, marks[d].read)
                 \/ /\ d \in DOMAIN syncs[s].fetched
                    /\ syncs'[s].fetched[d] = syncs[s].fetched[d]
      <3>1. Shows(mail[d], marks[d].of, marks[d].read)
        BY <1>0 DEF Shown, ShownBy
      <3> QED BY <2>1, <2>2, <3>1 DEF Put
    <2> QED BY <1>2, <1>3, <2>1, <2>2 DEF MarkInv
  <1>7. CASE Store(s)
    <2> DEFINE list == syncs[s].list
               fetched == syncs[s].fetched
               safe == DOMAIN list \ ActiveRemovals(list)
               retained == {c \in safe \intersect DOMAIN overlays : ~Confirmed(c, fetched)}
               Effective(c) == IF c \in retained
                               THEN Marked(fetched[c], overlays[c].ids, overlays[c].read)
                               ELSE fetched[c]
               stored == DOMAIN fetched \ ActiveRemovals(list)
    <2>1. /\ overlays' = Restrict(overlays, retained)
          /\ cached' = [c \in Remaining(safe) \union stored |->
                           IF c \in stored THEN Effective(c) ELSE cached[c]]
          /\ syncs'[s] = NoSync
      BY <1>1, <1>7 DEF Store
    <2>2. DOMAIN fetched \subseteq DOMAIN list /\ \A c \in DOMAIN fetched : fetched[c] \in Mails
      <3>1. fetched \in Partial(Conversations, Mails)
        BY <1>1 DEF SyncStates
      <3> QED BY <1>0, <3>1, PartialFunction DEF FetchesItsList
    <2>3. /\ stored \subseteq safe /\ stored \subseteq DOMAIN fetched
          /\ Remaining(safe) \subseteq DOMAIN cached /\ retained \subseteq DOMAIN overlays
      BY <2>2 DEF Remaining
    <2>4. \A c \in safe \intersect DOMAIN overlays : c \notin retained => Confirmed(c, fetched)
      OBVIOUS
    <2>5. /\ DOMAIN overlays' = retained /\ \A c \in retained : overlays'[c] = overlays[c]
          /\ DOMAIN cached' = Remaining(safe) \union stored
          /\ \A c \in DOMAIN cached' :
                cached'[c] = IF c \notin stored THEN cached[c]
                             ELSE IF c \in retained
                             THEN Marked(fetched[c], overlays[c].ids, overlays[c].read)
                             ELSE fetched[c]
      BY <2>1 DEF Restrict
    <2>6. \A c \in DOMAIN marks : c \notin DOMAIN overlays /\ c \in DOMAIN fetched =>
            Shows(fetched[c], marks[c].of, marks[c].read)
      BY <1>0 DEF Shown, ShownBy
    <2> HIDE DEF fetched, list, safe, retained, stored
    <2>7. ASSUME NEW c \in DOMAIN marks, c \in DOMAIN cached'
          PROVE  Shows(cached'[c], marks[c].of, marks[c].read)
      <3>1. CASE c \notin stored
        BY <1>0, <2>3, <2>5, <2>7, <3>1 DEF Shown, ShownBy
      <3>2. CASE c \in stored /\ c \in retained
        <4>1. /\ overlays[c].read = marks[c].read /\ Covers(overlays[c].ids, marks[c].of)
              /\ fetched[c] \in Mails
          BY <1>0, <2>2, <2>3, <3>2 DEF Shown, ShownBy
        <4>2. Shows(Marked(fetched[c], overlays[c].ids, overlays[c].read), marks[c].of, overlays[c].read)
          BY <4>1, ShowsMarked
        <4> QED BY <2>5, <2>7, <3>2, <4>1, <4>2
      <3>3. CASE c \in stored /\ c \notin retained
        <4>1. c \in DOMAIN fetched /\ cached'[c] = fetched[c]
          BY <2>3, <2>5, <2>7, <3>3
        <4>2. CASE c \notin DOMAIN overlays
          BY <2>6, <4>1, <4>2
        <4>3. CASE c \in DOMAIN overlays
          <5>1. Confirmed(c, fetched)
            BY <2>3, <2>4, <3>3, <4>3
          <5>2. overlays[c].read = marks[c].read /\ Covers(overlays[c].ids, marks[c].of)
            BY <1>0, <4>3 DEF Shown, ShownBy
          <5> QED BY <4>1, <5>1, <5>2 DEF Confirmed, Shows, Covers
        <4> QED BY <4>2, <4>3
      <3> QED BY <3>1, <3>2, <3>3
    <2>8. Shown'
      <3> SUFFICES ASSUME NEW c \in DOMAIN marks PROVE ShownBy(c)'
        BY <1>1 DEF Shown
      <3>1. Shows(mail'[c], marks[c].of, marks[c].read)
        BY <1>0, <1>1 DEF Shown, ShownBy
      <3>2. c \in DOMAIN overlays' =>
              overlays'[c].read = marks[c].read /\ Covers(overlays'[c].ids, marks[c].of)
        BY <1>0, <2>3, <2>5 DEF Shown, ShownBy
      <3>3. \A t \in Syncs : c \notin DOMAIN syncs'[t].fetched
        BY <1>1, <2>1, NoSyncTyped
      <3> QED BY <1>1, <2>7, <3>1, <3>2, <3>3 DEF ShownBy
    <2> QED BY <1>2, <2>8 DEF MarkInv
  <1> QED BY <1>4, <1>5, <1>6, <1>7 DEF SyncStep

LEMMA MarkStep ==
    ASSUME "afterMove" \notin Syncs, IInv, HiddenInv, MarkInv, Next
    PROVE  MarkInv'
  <1>0. TypeOK /\ MarkTypes /\ Numbered /\ Accepted /\ Shown
    BY DEF IInv, MarkInv
  <1>1. \A c \in Conversations : ~CommitMoveIn(c)
    BY DEF CommitMoveIn, Commit, HiddenInv
  <1>2. CASE Toggle
    <2>1. UNCHANGED <<mail, delivered, pending, syncs>>
      BY <1>2 DEF Toggle, server
    <2>2. CASE enabled
      <3>1. marks' = Empty
        BY <1>2, <2>2 DEF Toggle
      <3> QED BY <1>0, <2>1, <3>1, EmptyTyped DEF MarkInv, MarkTypes, Numbered, Accepted, Shown
    <2>3. CASE ~enabled
      <3>1. UNCHANGED <<marks, overlays, cached>>
        BY <1>2, <2>3 DEF Toggle
      <3> QED BY <1>0, <2>1, <3>1 DEF MarkInv, MarkTypes, Numbered, Accepted, Shown, ShownBy
    <2> QED BY <2>2, <2>3
  <1>3. CASE Close
    <2>1. UNCHANGED <<mail, delivered, marks, overlays, cached>>
      BY <1>3 DEF Close, server, copy, history
    <2>2. /\ \A c \in Conversations : pending'[c].kind = "none" /\ pending'[c].ours = {}
          /\ \A s \in Syncs : DOMAIN syncs'[s].fetched = {}
      BY <1>3, NoSyncTyped DEF Close, NoMutation
    <2> QED BY <1>0, <2>1, <2>2 DEF MarkInv, MarkTypes, Numbered, Accepted, Shown, ShownBy
  <1> QED
    BY <1>0, <1>1, <1>2, <1>3, ElsewhereMarks, OwnMarks, CommitMarks, SyncMarks DEF Next, SyncStep

(* With one synchronisation at a time, what the user marked last stays      *)
(* marked in the copy until it is changed elsewhere, however old the        *)
(* messages that are stored (offlineMailCache.ts:137-179, 270-293).         *)
THEOREM OwnMarkStays ==
    ASSUME "afterMove" \notin Syncs
    PROVE  Spec => []OwnMarkShows
  <1>1. Init => IInv /\ HiddenInv /\ MarkInv
    BY InvInit, HiddenInit, MarkInit
  <1>2. IInv /\ HiddenInv /\ MarkInv /\ [Next]_vars => (IInv /\ HiddenInv /\ MarkInv)'
    <2>1. ASSUME IInv, HiddenInv, MarkInv, Next PROVE HiddenInv' /\ MarkInv'
      BY <2>1, NoMovePending, HiddenStep, MarkStep DEF HiddenInv
    <2>2. ASSUME IInv, HiddenInv, MarkInv, UNCHANGED vars PROVE HiddenInv' /\ MarkInv'
      <3>1. HiddenInv'
        BY <2>2 DEF HiddenInv, HiddenBy, vars, server, copy, history
      <3>2. MarkTypes' /\ Numbered' /\ Accepted' /\ Shown'
        BY <2>2 DEF MarkInv, MarkTypes, Numbered, Accepted, Shown, ShownBy, vars, server, copy, history
      <3> QED BY <3>1, <3>2 DEF MarkInv
    <2> QED BY <2>1, <2>2, InvStep
  <1>3. MarkInv => OwnMarkShows
    BY DEF MarkInv, Shown, ShownBy, Shows, OwnMarkShows
  <1> QED BY <1>1, <1>2, <1>3, PTL DEF Spec

==============================================================================
