-------------------------- MODULE VaultStoreProofs --------------------------
(***************************************************************************)
(* For every number of windows, fields and values: the type invariant of   *)
(* VaultStore, that the vault stays openable, and that the compare-and-set *)
(* loop implements the atomic calls of VaultContract.                      *)
(***************************************************************************)
EXTENDS VaultStore, TLAPS

(* Salts only grow, so an older call never holds a newer key, and a record   *)
(* with the seal a window read is the record it read.                        *)
SealsFresh == db.seal < nextSeal /\ db.key < nextSeal

KeysKnown ==
    \A w \in Windows :
        /\ key[w] <= db.key
        /\ stored[w].key <= db.key
        /\ \A i \in 1..Len(queue[w]) : queue[w][i].key <= db.key

ReadIsSnapshot ==
    \A w \in Windows : phase[w] = "read" =>
        /\ queue[w] # <<>>
        /\ base[w].seal <= db.seal
        /\ base[w].seal = db.seal => base[w] = db
        /\ Head(queue[w]).key <= base[w].key
        /\ base[w].key <= db.key

Rest == VaultOpenable /\ SealsFresh /\ KeysKnown /\ ReadIsSnapshot

IInv == TypeOK /\ Rest

----------------------------------------------------------------------------
LEMMA EmptyPayloadType == EmptyPayload \in Payloads
BY DEF EmptyPayload, Payloads

LEMMA NoVaultType == NoVault \in Vaults
BY EmptyPayloadType DEF NoVault, Vaults

LEMMA MergeType ==
    ASSUME NEW p \in Payloads, NEW ch \in Changes
    PROVE  Merge(p, ch) \in Payloads
<1>1. PICK S \in SUBSET Fields \ {{}} : ch \in [S -> Values \union {Absent}]
    BY DEF Changes
<1>2. ASSUME NEW f \in Fields
      PROVE (IF f \in DOMAIN ch THEN ch[f] ELSE p[f]) \in Values \union {Absent}
    BY <1>1 DEF Payloads
<1> QED BY <1>2 DEF Merge, Payloads

(* The queue after one call is appended, and after the oldest is removed. *)
LEMMA AppendCall ==
    ASSUME NEW s \in Seq(Calls), NEW c \in Calls
    PROVE  /\ Append(s, c) \in Seq(Calls)
           /\ Len(Append(s, c)) = Len(s) + 1
           /\ \A i \in 1..Len(s) : Append(s, c)[i] = s[i]
           /\ Append(s, c)[Len(s) + 1] = c
           /\ s # <<>> => Head(Append(s, c)) = Head(s)
           /\ Append(s, c) # <<>>
           /\ Len(s) \in Nat
OBVIOUS

LEMMA TailCalls ==
    ASSUME NEW s \in Seq(Calls), s # <<>>
    PROVE  /\ Tail(s) \in Seq(Calls)
           /\ Len(Tail(s)) = Len(s) - 1
           /\ \A i \in 1..Len(Tail(s)) : Tail(s)[i] = s[i + 1]
           /\ Head(s) \in Calls
           /\ Head(s) = s[1]
           /\ Len(s) >= 1
OBVIOUS

----------------------------------------------------------------------------
(* Every variable stays in its type. *)
LEMMA TypeStep == TypeOK /\ ReadIsSnapshot /\ [Next]_vars => TypeOK'
<1> SUFFICES ASSUME TypeOK, ReadIsSnapshot, [Next]_vars PROVE TypeOK'
    OBVIOUS
<1> USE LegacyAssumption, RemoteAssumption, BoundsAssumption, EmptyPayloadType, NoVaultType
        DEF TypeOK, windowVars, jobVars
<1>1. ASSUME NEW w \in Windows, OpenWindow(w) PROVE TypeOK'
    BY <1>1 DEF OpenWindow
<1>2. ASSUME NEW w \in Windows, BeginCreate(w) \/ BeginRestore(w) PROVE TypeOK'
    <2>1. CASE BeginCreate(w)
        BY <2>1 DEF BeginCreate
    <2>2. CASE BeginRestore(w)
        BY <2>2 DEF BeginRestore
    <2> QED BY <1>2, <2>1, <2>2
<1>3. ASSUME NEW w \in Windows, FinishCreate(w) PROVE TypeOK'
    <2>1. [seal |-> nextSeal, salt |-> nextSeal, key |-> nextSeal,
           fields |-> memory[w]] \in Vaults
        BY DEF Vaults
    <2> QED BY <1>3, <2>1 DEF FinishCreate
<1>4. ASSUME NEW w \in Windows, Unlock(w) PROVE TypeOK'
    BY <1>4 DEF Unlock, Vaults
<1>5. ASSUME NEW w \in Windows, Lock(w) PROVE TypeOK'
    BY <1>5 DEF Lock
<1>6. ASSUME NEW w \in Windows, CloseWindow(w) PROVE TypeOK'
    BY <1>6 DEF CloseWindow
<1>7. ASSUME NEW w \in Windows, NEW ch \in Writes, Persist(w, ch) PROVE TypeOK'
    <2>1. ch \in Changes
        BY WritesAssumption
    <2>2. Merge(memory[w], ch) \in Payloads
        BY <2>1, MergeType
    <2>3. [key |-> key[w], changes |-> ch] \in Calls
        BY <2>1 DEF Calls
    <2> QED BY <1>7, <2>2, <2>3, AppendCall DEF Persist
<1>8. ASSUME NEW w \in Windows, ReadVault(w) PROVE TypeOK'
    BY <1>8 DEF ReadVault
<1>9. ASSUME NEW w \in Windows, RejectCall(w) PROVE TypeOK'
    <2>1. queue[w] \in Seq(Calls) /\ queue[w] # <<>>
        BY <1>9 DEF RejectCall, ReadIsSnapshot
    <2> QED BY <1>9, <2>1, TailCalls DEF RejectCall
<1>10. ASSUME NEW w \in Windows, CommitCall(w) PROVE TypeOK'
    <2>1. queue[w] \in Seq(Calls) /\ queue[w] # <<>>
        BY <1>10 DEF CommitCall, StoreMerged, ReadIsSnapshot
    <2>2. Head(queue[w]) \in Calls /\ Tail(queue[w]) \in Seq(Calls)
        BY <2>1, TailCalls
    <2>3. base[w].fields \in Payloads /\ Head(queue[w]).changes \in Changes
        BY <2>2 DEF Vaults, Calls
    <2>4. Merge(base[w].fields, Head(queue[w]).changes) \in Payloads
        BY <2>3, MergeType
    <2>5. [seal |-> nextSeal, salt |-> base[w].salt,
           key |-> Head(queue[w]).key,
           fields |-> Merge(base[w].fields, Head(queue[w]).changes)] \in Vaults
        BY <2>2, <2>4 DEF Vaults, Calls
    <2> QED BY <1>10, <2>2, <2>5 DEF CommitCall, StoreMerged
<1>11. ASSUME NEW w \in Windows, RetryCall(w) PROVE TypeOK'
    BY <1>11 DEF RetryCall
<1>12. CASE UNCHANGED vars
    BY <1>12 DEF vars
<1> QED BY <1>1, <1>2, <1>3, <1>4, <1>5, <1>6, <1>7, <1>8, <1>9, <1>10,
           <1>11, <1>12 DEF Next, PersistLoop

----------------------------------------------------------------------------
LEMMA InitInv == Init => IInv
<1> SUFFICES ASSUME Init PROVE IInv
    OBVIOUS
<1>1. TypeOK
    BY LegacyAssumption, EmptyPayloadType, NoVaultType DEF Init, TypeOK, Nobody
<1>2. VaultOpenable /\ SealsFresh
    BY DEF Init, VaultOpenable, SealsFresh, NoVault
<1>3. KeysKnown /\ ReadIsSnapshot
    BY DEF Init, KeysKnown, ReadIsSnapshot, NoVault
<1> QED BY <1>1, <1>2, <1>3 DEF IInv, Rest

----------------------------------------------------------------------------
(* The strengthening is inductive. *)
LEMMA NextInv == IInv /\ [Next]_vars => IInv'
<1> SUFFICES ASSUME IInv, [Next]_vars PROVE Rest'
    BY TypeStep DEF IInv, Rest
<1>0. TypeOK'
    BY TypeStep DEF IInv, Rest
<1>t. TypeOK /\ VaultOpenable /\ SealsFresh /\ KeysKnown /\ ReadIsSnapshot
    BY DEF IInv, Rest
<1>n. /\ nextSeal \in Nat
      /\ db.seal \in Nat /\ db.key \in Nat
      /\ \A v \in Windows : /\ key[v] \in Nat /\ stored[v].key \in Nat
                            /\ base[v].seal \in Nat /\ base[v].key \in Nat
      /\ DOMAIN key = Windows /\ DOMAIN stored = Windows /\ DOMAIN base = Windows
      /\ DOMAIN queue = Windows /\ DOMAIN phase = Windows
    BY <1>t DEF TypeOK, Vaults
<1> USE DEF windowVars, jobVars
<1>1. ASSUME NEW w \in Windows, OpenWindow(w) PROVE Rest'
    <2>1. UNCHANGED <<db, nextSeal, key, queue, phase, base>>
        BY <1>1 DEF OpenWindow
    <2>2. stored' = [stored EXCEPT ![w] = db]
        BY <1>1 DEF OpenWindow
    <2>3. VaultOpenable' /\ SealsFresh' /\ ReadIsSnapshot'
        BY <1>t, <2>1 DEF VaultOpenable, SealsFresh, ReadIsSnapshot
    <2>4. \A v \in Windows : stored'[v] = stored[v] \/ stored'[v] = db
        BY <1>n, <2>2
    <2>5. KeysKnown'
        BY <1>t, <1>n, <2>1, <2>4 DEF KeysKnown
    <2> QED BY <2>3, <2>5 DEF Rest
<1>2. ASSUME NEW w \in Windows, BeginCreate(w) \/ BeginRestore(w) PROVE Rest'
    BY <1>t, <1>2 DEF Rest, BeginCreate, BeginRestore, VaultOpenable, SealsFresh, KeysKnown,
                      ReadIsSnapshot
<1>3. ASSUME NEW w \in Windows, FinishCreate(w) PROVE Rest'
    <2>1. /\ db'.seal = nextSeal /\ db'.key = nextSeal /\ db'.salt = nextSeal
          /\ nextSeal' = nextSeal + 1
          /\ stored' = [stored EXCEPT ![w] = db']
          /\ key' = [key EXCEPT ![w] = nextSeal]
          /\ UNCHANGED <<queue, phase, base>>
        BY <1>3 DEF FinishCreate
    <2>2. db.key < db'.key /\ db.seal < db'.seal
        BY <1>t, <2>1 DEF SealsFresh, TypeOK, Vaults
    <2>3. VaultOpenable' /\ SealsFresh'
        BY <1>t, <2>1 DEF VaultOpenable, SealsFresh, TypeOK
    <2>4. KeysKnown'
        <3> SUFFICES ASSUME NEW v \in Windows
                     PROVE  /\ key'[v] <= db'.key
                            /\ stored'[v].key <= db'.key
                            /\ \A i \in 1..Len(queue'[v]) :
                                    queue'[v][i].key <= db'.key
            BY DEF KeysKnown
        <3>1. key'[v] <= db'.key /\ stored'[v].key <= db'.key
            BY <1>t, <1>n, <2>1, <2>2 DEF KeysKnown
        <3>2. ASSUME NEW i \in 1..Len(queue[v]) PROVE queue[v][i].key <= db'.key
            <4>1. queue[v][i] \in Calls
                BY <1>t DEF TypeOK
            <4>2. queue[v][i].key \in Nat
                BY <4>1 DEF Calls
            <4>3. queue[v][i].key <= db.key
                BY <1>t DEF KeysKnown
            <4> QED BY <1>n, <2>1, <2>2, <4>2, <4>3
        <3> QED BY <2>1, <3>1, <3>2
    <2>5. ReadIsSnapshot'
        <3> SUFFICES ASSUME NEW v \in Windows, phase[v] = "read"
                     PROVE  /\ queue[v] # <<>>
                            /\ base[v].seal <= db'.seal
                            /\ base[v].seal = db'.seal => base[v] = db'
                            /\ Head(queue[v]).key <= base[v].key
                            /\ base[v].key <= db'.key
            BY <2>1 DEF ReadIsSnapshot
        <3> QED BY <1>t, <1>n, <2>1, <2>2 DEF ReadIsSnapshot
    <2> QED BY <2>3, <2>4, <2>5 DEF Rest
<1>4. ASSUME NEW w \in Windows, Unlock(w) PROVE Rest'
    BY <1>t, <1>n, <1>4 DEF Rest, Unlock, VaultOpenable, SealsFresh, KeysKnown,
                            ReadIsSnapshot
<1>5. ASSUME NEW w \in Windows, Lock(w) PROVE Rest'
    <2>1. /\ UNCHANGED <<db, nextSeal, stored, queue, phase, base>>
          /\ key' = [key EXCEPT ![w] = 0]
        BY <1>5 DEF Lock
    <2>2. VaultOpenable' /\ SealsFresh' /\ ReadIsSnapshot'
        BY <1>t, <2>1 DEF VaultOpenable, SealsFresh, ReadIsSnapshot
    <2>3. KeysKnown'
        BY <1>t, <1>n, <2>1 DEF KeysKnown
    <2> QED BY <2>2, <2>3 DEF Rest
<1>6. ASSUME NEW w \in Windows, CloseWindow(w) PROVE Rest'
    <2>1. /\ UNCHANGED <<db, nextSeal>>
          /\ stored' = [stored EXCEPT ![w] = NoVault]
          /\ key' = [key EXCEPT ![w] = 0]
          /\ queue' = [queue EXCEPT ![w] = <<>>]
          /\ phase' = [phase EXCEPT ![w] = "idle"]
          /\ base' = [base EXCEPT ![w] = NoVault]
        BY <1>6 DEF CloseWindow
    <2>2. VaultOpenable' /\ SealsFresh'
        BY <1>t, <2>1 DEF VaultOpenable, SealsFresh
    <2>3. KeysKnown'
        BY <1>t, <1>n, <2>1 DEF KeysKnown, NoVault
    <2>4. ReadIsSnapshot'
        BY <1>t, <1>n, <2>1 DEF ReadIsSnapshot
    <2> QED BY <2>2, <2>3, <2>4 DEF Rest
<1>7. ASSUME NEW w \in Windows, NEW ch \in Writes, Persist(w, ch) PROVE Rest'
    <2> DEFINE call == [key |-> key[w], changes |-> ch]
    <2>1. /\ UNCHANGED <<db, nextSeal, stored, key, phase, base>>
          /\ queue' = [queue EXCEPT ![w] = Append(@, call)]
        BY <1>7 DEF Persist
    <2>2. call \in Calls /\ queue[w] \in Seq(Calls)
        BY <1>t, WritesAssumption DEF Calls, TypeOK
    <2> HIDE DEF call
    <2>3. /\ Len(Append(queue[w], call)) = Len(queue[w]) + 1
          /\ \A i \in 1..Len(queue[w]) : Append(queue[w], call)[i] = queue[w][i]
          /\ Append(queue[w], call)[Len(queue[w]) + 1] = call
          /\ queue[w] # <<>> => Head(Append(queue[w], call)) = Head(queue[w])
          /\ Append(queue[w], call) # <<>>
          /\ Len(queue[w]) \in Nat
        BY <2>2, AppendCall
    <2>4. call.key <= db.key
        BY <1>t DEF call, KeysKnown
    <2>5. \A i \in 1..(Len(queue[w]) + 1) :
                Append(queue[w], call)[i].key <= db.key
        <3> TAKE i \in 1..(Len(queue[w]) + 1)
        <3>1. CASE i = Len(queue[w]) + 1
            BY <2>3, <2>4, <3>1
        <3>2. CASE i \in 1..Len(queue[w])
            BY <1>t, <2>3, <3>2 DEF KeysKnown
        <3> QED BY <2>3, <3>1, <3>2
    <2>6. VaultOpenable' /\ SealsFresh'
        BY <1>t, <2>1 DEF VaultOpenable, SealsFresh
    <2>7. KeysKnown'
        BY <1>t, <2>1, <2>3, <2>5 DEF KeysKnown, TypeOK
    <2>8. ReadIsSnapshot'
        BY <1>t, <2>1, <2>3 DEF ReadIsSnapshot, TypeOK
    <2> QED BY <2>6, <2>7, <2>8 DEF Rest
<1>8. ASSUME NEW w \in Windows, ReadVault(w) PROVE Rest'
    <2>1. /\ queue[w] # <<>>
          /\ phase' = [phase EXCEPT ![w] = "read"]
          /\ base' = [base EXCEPT ![w] = db]
          /\ UNCHANGED <<db, nextSeal, stored, key, queue>>
        BY <1>8 DEF ReadVault
    <2>2. Head(queue[w]).key <= db.key
        <3>1. queue[w] \in Seq(Calls)
            BY <1>t DEF TypeOK
        <3>2. Head(queue[w]) = queue[w][1] /\ 1 \in 1..Len(queue[w])
            BY <2>1, <3>1, TailCalls
        <3> QED BY <1>t, <3>2 DEF KeysKnown
    <2>3. VaultOpenable' /\ SealsFresh' /\ KeysKnown'
        BY <1>t, <2>1 DEF VaultOpenable, SealsFresh, KeysKnown
    <2>4. ReadIsSnapshot'
        BY <1>t, <1>n, <2>1, <2>2 DEF ReadIsSnapshot
    <2> QED BY <2>3, <2>4 DEF Rest
<1>9. ASSUME NEW w \in Windows, RejectCall(w) \/ CommitCall(w) PROVE Rest'
    <2>1. /\ phase[w] = "read"
          /\ queue' = [queue EXCEPT ![w] = Tail(@)]
          /\ phase' = [phase EXCEPT ![w] = "idle"]
          /\ base' = [base EXCEPT ![w] = NoVault]
          /\ key' = key
        BY <1>9 DEF RejectCall, CommitCall, StoreMerged
    <2>2. /\ db'.key = db.key /\ db'.salt = db.salt
          /\ db'.seal < nextSeal' /\ db.key < nextSeal'
          /\ db' = db \/ db'.seal > db.seal
          /\ stored' = stored \/ stored' = [stored EXCEPT ![w] = db']
        <3>1. CASE RejectCall(w)
            BY <1>t, <3>1 DEF RejectCall, SealsFresh
        <3>2. CASE CommitCall(w)
            BY <1>t, <1>n, <3>2 DEF CommitCall, StoreMerged, SealsFresh, ReadIsSnapshot
        <3> QED BY <1>9, <3>1, <3>2
    <2>3. /\ queue[w] \in Seq(Calls) /\ queue[w] # <<>>
          /\ Tail(queue[w]) \in Seq(Calls)
          /\ Len(Tail(queue[w])) = Len(queue[w]) - 1
          /\ \A i \in 1..Len(Tail(queue[w])) : Tail(queue[w])[i] = queue[w][i + 1]
        BY <1>t, <2>1, TailCalls DEF TypeOK, ReadIsSnapshot
    <2>4. VaultOpenable' /\ SealsFresh'
        BY <1>t, <2>2 DEF VaultOpenable, SealsFresh
    <2>5. KeysKnown'
        <3> SUFFICES ASSUME NEW v \in Windows
                     PROVE  /\ key'[v] <= db'.key
                            /\ stored'[v].key <= db'.key
                            /\ \A i \in 1..Len(queue'[v]) :
                                    queue'[v][i].key <= db'.key
            BY DEF KeysKnown
        <3>1. key'[v] <= db'.key /\ stored'[v].key <= db'.key
            BY <1>t, <1>n, <2>1, <2>2 DEF KeysKnown
        <3>2. CASE v = w
            <4>1. \A i \in 1..Len(Tail(queue[w])) : i + 1 \in 1..Len(queue[w])
                BY <2>3
            <4>2. \A i \in 1..Len(queue[w]) : queue[w][i].key <= db.key
                BY <1>t DEF KeysKnown
            <4>3. queue'[v] = Tail(queue[w])
                BY <1>n, <2>1, <3>2
            <4> QED BY <2>2, <2>3, <3>1, <4>1, <4>2, <4>3
        <3>3. CASE v # w
            <4>1. queue'[v] = queue[v]
                BY <1>n, <2>1, <3>3
            <4> QED BY <1>t, <2>2, <3>1, <4>1 DEF KeysKnown
        <3> QED BY <3>2, <3>3
    <2>6. ReadIsSnapshot'
        <3> SUFFICES ASSUME NEW v \in Windows, phase'[v] = "read"
                     PROVE  /\ queue'[v] # <<>>
                            /\ base'[v].seal <= db'.seal
                            /\ base'[v].seal = db'.seal => base'[v] = db'
                            /\ Head(queue'[v]).key <= base'[v].key
                            /\ base'[v].key <= db'.key
            BY DEF ReadIsSnapshot
        <3>1. v # w /\ phase[v] = "read"
            BY <1>t, <2>1 DEF TypeOK
        <3>2. queue'[v] = queue[v] /\ base'[v] = base[v]
            BY <1>t, <2>1, <3>1 DEF TypeOK
        <3>3. db'.seal \in Nat /\ db.seal \in Nat /\ base[v].seal \in Nat
            BY <1>t, <1>0 DEF TypeOK, Vaults
        <3> QED BY <1>t, <2>2, <3>1, <3>2, <3>3 DEF ReadIsSnapshot
    <2> QED BY <2>4, <2>5, <2>6 DEF Rest
<1>10. ASSUME NEW w \in Windows, RetryCall(w) PROVE Rest'
    BY <1>t, <1>n, <1>10 DEF Rest, RetryCall, VaultOpenable, SealsFresh, KeysKnown,
                             ReadIsSnapshot
<1>11. CASE UNCHANGED vars
    BY <1>t, <1>11 DEF Rest, vars, VaultOpenable, SealsFresh, KeysKnown, ReadIsSnapshot
<1> QED BY <1>1, <1>2, <1>3, <1>4, <1>5, <1>6, <1>7, <1>8, <1>9, <1>10, <1>11
           DEF Next, PersistLoop

LEMMA Invariance == Spec => []IInv
BY InitInv, NextInv, PTL DEF Spec

(* Every state of VaultProvider and of the stored record is well typed. *)
THEOREM TypeCorrect == Spec => []TypeOK
<1>1. IInv => TypeOK
    BY DEF IInv
<1> QED BY Invariance, <1>1, PTL

(* The stored vault is always sealed under the key of its own salt, however  *)
(* creations, persist calls, locks and closed windows interleave.            *)
THEOREM StaysOpenable == Spec => []VaultOpenable
<1>1. IInv => VaultOpenable
    BY DEF IInv, Rest
<1> QED BY Invariance, <1>1, PTL

----------------------------------------------------------------------------
LEMMA RefineInit == Init => Contract!Init
BY DEF Init, Contract!Init, NoVault, EmptyPayload

LEMMA RefineNext == IInv /\ [Next]_vars => [Contract!Next]_(Contract!vars)
<1> SUFFICES ASSUME IInv, [Next]_vars PROVE [Contract!Next]_(Contract!vars)
    OBVIOUS
<1>t. TypeOK /\ SealsFresh /\ KeysKnown /\ ReadIsSnapshot
    BY DEF IInv, Rest
<1>s. \A p, ch : Contract!Merge(p, ch) = Merge(p, ch)
    BY DEF Contract!Merge, Merge
<1> USE DEF Contract!vars, windowVars, jobVars
<1>1. ASSUME NEW w \in Windows, OpenWindow(w) PROVE UNCHANGED Contract!vars
    BY <1>1 DEF OpenWindow
<1>2. ASSUME NEW w \in Windows, BeginCreate(w) \/ BeginRestore(w) PROVE UNCHANGED Contract!vars
    BY <1>2 DEF BeginCreate, BeginRestore
<1>3. ASSUME NEW w \in Windows, FinishCreate(w) PROVE Contract!Next
    <2>1. db'.fields = memory[w] /\ db'.key = nextSeal /\ UNCHANGED queue
        BY <1>3 DEF FinishCreate
    <2>2. memory[w] \in Contract!Payloads
        BY <1>t DEF TypeOK, Payloads, Contract!Payloads
    <2>3. Contract!Found(memory[w])
        BY <1>t, <2>1 DEF Contract!Found, TypeOK, SealsFresh, Vaults
    <2> QED BY <2>2, <2>3 DEF Contract!Next
<1>4. ASSUME NEW w \in Windows, Unlock(w) PROVE UNCHANGED Contract!vars
    BY <1>4 DEF Unlock
<1>5. ASSUME NEW w \in Windows, Lock(w) PROVE UNCHANGED Contract!vars
    BY <1>5 DEF Lock
<1>6. ASSUME NEW w \in Windows, CloseWindow(w) PROVE Contract!Next
    <2>1. Contract!Abandon(w)
        BY <1>6 DEF CloseWindow, Contract!Abandon
    <2> QED BY <2>1 DEF Contract!Next
<1>7. ASSUME NEW w \in Windows, NEW ch \in Writes, Persist(w, ch)
      PROVE  Contract!Next
    <2>1. ch \in Contract!Changes
        BY WritesAssumption DEF Changes, Contract!Changes
    <2>2. key[w] \in 1..db.key
        BY <1>t, <1>7 DEF Persist, TypeOK, KeysKnown, Vaults
    <2>3. Contract!Call(w, ch, key[w])
        BY <1>7 DEF Persist, Contract!Call
    <2> QED BY <2>1, <2>2, <2>3 DEF Contract!Next
<1>8. ASSUME NEW w \in Windows, ReadVault(w) PROVE UNCHANGED Contract!vars
    BY <1>8 DEF ReadVault
<1>9. ASSUME NEW w \in Windows, RejectCall(w) PROVE Contract!Next
    <2>1. queue[w] # <<>> /\ Head(queue[w]) \in Calls
        BY <1>t, <1>9, TailCalls DEF RejectCall, ReadIsSnapshot, TypeOK
    <2>2. Head(queue[w]).key # db.key
        BY <1>t, <1>9, <2>1 DEF RejectCall, ReadIsSnapshot, TypeOK, Vaults, Calls
    <2>3. Contract!Refuse(w)
        BY <1>9, <2>1, <2>2 DEF RejectCall, Contract!Refuse
    <2> QED BY <2>3 DEF Contract!Next
<1>10. ASSUME NEW w \in Windows, CommitCall(w) PROVE Contract!Next
    <2>1. queue[w] # <<>> /\ base[w] = db /\ Head(queue[w]).key = db.key
        BY <1>t, <1>10 DEF CommitCall, StoreMerged, ReadIsSnapshot
    <2>2. /\ db'.fields = Merge(db.fields, Head(queue[w]).changes)
          /\ db'.key = db.key
          /\ queue' = [queue EXCEPT ![w] = Tail(@)]
        BY <1>10, <2>1 DEF CommitCall, StoreMerged
    <2>3. Contract!Apply(w)
        BY <1>s, <2>1, <2>2 DEF Contract!Apply
    <2> QED BY <2>3 DEF Contract!Next
<1>11. ASSUME NEW w \in Windows, RetryCall(w) PROVE UNCHANGED Contract!vars
    BY <1>11 DEF RetryCall
<1>12. CASE UNCHANGED vars
    BY <1>12 DEF vars
<1> QED BY <1>1, <1>2, <1>3, <1>4, <1>5, <1>6, <1>7, <1>8, <1>9, <1>10,
           <1>11, <1>12 DEF Next, PersistLoop

(* The windows see the vault as VaultContract says: a persist call is one    *)
(* atomic change of the fields it names, in call order, or is refused whole. *)
THEOREM StoreImplementsContract == Spec => ImplementsContract
BY RefineInit, RefineNext, Invariance, PTL DEF Spec, ImplementsContract, Contract!Spec

----------------------------------------------------------------------------
(* What a window shows, against what it has stored and has still to store.  *)
(* A window without its copy of the record has no key and no call.          *)
NeverOpened ==
    \A w \in Windows :
        /\ stored[w] = NoVault => key[w] = 0 /\ queue[w] = <<>>
        /\ creating[w] # "none" => stored[w] = NoVault
        /\ ~open[w] => stored[w] = NoVault /\ creating[w] = "none"

(* The copy of the window that last wrote a field has that field as stored. *)
OwnFieldStored ==
    \A w \in Windows, f \in Fields :
        lastWriter[f] = w /\ stored[w] # NoVault =>
            stored[w].key = db.key /\ stored[w].fields[f] = db.fields[f]

Unlocked(w) == key[w] # 0 /\ clean[w]

(* Where a queued call has the last word on a field, memory has its value;  *)
(* where none has a word, what the window wrote last is what it shows.      *)
Names(q, i, f) == f \in DOMAIN q[i].changes
KeysAre(q, k) == \A i \in 1..Len(q) : q[i].key = k
LastWord(q, f, value) ==
    \A i \in 1..Len(q) :
        Names(q, i, f) /\ (\A j \in 1..Len(q) : Names(q, j, f) => j <= i)
            => value = q[i].changes[f]
NoWord(q, f) == \A i \in 1..Len(q) : ~Names(q, i, f)

ShownBy(w) == Unlocked(w) =>
    /\ key[w] = stored[w].key
    /\ KeysAre(queue[w], key[w])
    /\ \A f \in Fields :
        /\ LastWord(queue[w], f, memory[w][f])
        /\ lastWriter[f] = w /\ NoWord(queue[w], f) => memory[w][f] = db.fields[f]

Shown == \A w \in Windows : ShownBy(w)
Drained == NeverOpened /\ OwnFieldStored /\ Shown

LEMMA DrainedInit == Init => Drained
<1> SUFFICES ASSUME Init PROVE Drained
    OBVIOUS
<1>1. NeverOpened /\ OwnFieldStored
    BY DEF Init, NeverOpened, OwnFieldStored
<1>2. Shown
    BY DEF Init, Shown, ShownBy, Unlocked
<1> QED BY <1>1, <1>2 DEF Drained

LEMMA OtherWindow ==
    ASSUME NEW v \in Windows, ShownBy(v), OwnFieldStored,
           key'[v] = key[v], clean'[v] = clean[v], stored'[v] = stored[v],
           queue'[v] = queue[v], memory'[v] = memory[v],
           \A f \in Fields : lastWriter'[f] = v =>
                lastWriter[f] = v /\ db'.fields[f] = db.fields[f] /\ db'.key = db.key
    PROVE  /\ ShownBy(v)'
           /\ \A f \in Fields : lastWriter'[f] = v /\ stored'[v] # NoVault =>
                stored'[v].key = db'.key /\ stored'[v].fields[f] = db'.fields[f]
BY DEF ShownBy, Unlocked, OwnFieldStored

LEMMA NothingQueued ==
    ASSUME NEW f, NEW value, NEW k
    PROVE  KeysAre(<<>>, k) /\ LastWord(<<>>, f, value) /\ NoWord(<<>>, f)
BY DEF KeysAre, LastWord, NoWord

(* The queue without its oldest call. *)
LEMMA NamesTail ==
    ASSUME NEW s \in Seq(Calls), s # <<>>, NEW f
    PROVE  /\ \A i \in 1..Len(Tail(s)) : /\ i + 1 \in 1..Len(s)
                                         /\ Names(Tail(s), i, f) <=> Names(s, i + 1, f)
           /\ \A i \in 1..Len(s) : i # 1 => i - 1 \in 1..Len(Tail(s))
           /\ 1 \in 1..Len(s)
<1>1. /\ Len(Tail(s)) = Len(s) - 1 /\ Len(s) \in Nat /\ Len(s) >= 1
      /\ \A i \in 1..Len(Tail(s)) : Tail(s)[i] = s[i + 1]
    BY TailCalls
<1> QED BY <1>1 DEF Names

LEMMA TailShown ==
    ASSUME NEW s \in Seq(Calls), s # <<>>, NEW f, NEW value, NEW k, KeysAre(s, k),
           LastWord(s, f, value)
    PROVE  KeysAre(Tail(s), k) /\ LastWord(Tail(s), f, value)
<1>k. KeysAre(Tail(s), k)
    BY NamesTail, TailCalls DEF KeysAre
<1> SUFFICES ASSUME NEW i \in 1..Len(Tail(s)), Names(Tail(s), i, f),
                    \A j \in 1..Len(Tail(s)) : Names(Tail(s), j, f) => j <= i
             PROVE  value = Tail(s)[i].changes[f]
    BY <1>k DEF LastWord
<1>1. /\ Len(Tail(s)) = Len(s) - 1 /\ Len(s) \in Nat
      /\ Tail(s)[i] = s[i + 1]
    BY TailCalls
<1>2. i + 1 \in 1..Len(s) /\ Names(s, i + 1, f)
    BY NamesTail
<1>3. ASSUME NEW j \in 1..Len(s), Names(s, j, f) PROVE j <= i + 1
    <2>1. CASE j = 1
        BY <2>1
    <2>2. CASE j # 1
        <3>1. j - 1 \in 1..Len(Tail(s))
            BY <2>2, NamesTail
        <3>2. Names(Tail(s), j - 1, f) <=> Names(s, (j - 1) + 1, f)
            BY <3>1, NamesTail
        <3>3. (j - 1) + 1 = j
            OBVIOUS
        <3>4. Names(Tail(s), j - 1, f)
            BY <1>3, <3>2, <3>3
        <3>5. j - 1 <= i
            BY <3>1, <3>4
        <3> QED BY <3>5
    <2> QED BY <2>1, <2>2
<1> QED BY <1>1, <1>2, <1>3 DEF LastWord

LEMMA DrainedStep == IInv /\ Drained /\ [Next]_vars => Drained'
<1> SUFFICES ASSUME IInv, Drained, [Next]_vars PROVE Drained'
    OBVIOUS
<1>t. TypeOK /\ SealsFresh /\ KeysKnown /\ ReadIsSnapshot
    BY DEF IInv, Rest
<1>d. NeverOpened /\ OwnFieldStored /\ \A w \in Windows : ShownBy(w)
    BY DEF Drained, Shown
<1>n. /\ nextSeal \in Nat \ {0} /\ NoVault.seal = 0
      /\ DOMAIN key = Windows /\ DOMAIN stored = Windows /\ DOMAIN base = Windows
      /\ DOMAIN queue = Windows /\ DOMAIN phase = Windows /\ DOMAIN memory = Windows
      /\ DOMAIN clean = Windows /\ DOMAIN open = Windows /\ DOMAIN creating = Windows
    BY <1>t DEF TypeOK, NoVault
<1> USE DEF windowVars, jobVars
<1>q. ASSUME \A v \in Windows : ShownBy(v)', NeverOpened', OwnFieldStored' PROVE Drained'
    BY <1>q DEF Drained, Shown
<1>1. ASSUME NEW w \in Windows, OpenWindow(w) PROVE Drained'
    <2>1. /\ stored' = [stored EXCEPT ![w] = db] /\ open' = [open EXCEPT ![w] = TRUE]
          /\ UNCHANGED <<db, key, queue, memory, clean, lastWriter, creating>> /\ ~open[w]
        BY <1>1 DEF OpenWindow
    <2>2. key[w] = 0 /\ queue[w] = <<>> /\ creating[w] = "none"
        BY <1>d, <2>1 DEF NeverOpened
    <2>3. \A v \in Windows : ShownBy(v)'
        <3> TAKE v \in Windows
        <3>1. CASE v = w
            BY <2>1, <2>2, <3>1 DEF ShownBy, Unlocked
        <3>2. CASE v # w
            BY <1>d, <1>n, <2>1, <3>2, OtherWindow
        <3> QED BY <3>1, <3>2
    <2>4. NeverOpened'
        BY <1>d, <1>n, <2>1, <2>2 DEF NeverOpened
    <2>5. OwnFieldStored'
        BY <1>d, <1>n, <2>1 DEF OwnFieldStored
    <2> QED BY <1>q, <2>3, <2>4, <2>5
<1>2. ASSUME NEW w \in Windows, BeginCreate(w) \/ BeginRestore(w) PROVE Drained'
    <2>1. /\ UNCHANGED <<db, open, stored, key, queue, lastWriter, clean>>
          /\ open[w] /\ stored[w] = NoVault /\ key[w] = 0
          /\ \A v \in Windows \ {w} : memory'[v] = memory[v] /\ creating'[v] = creating[v]
        BY <1>2, <1>n DEF BeginCreate, BeginRestore
    <2>2. \A v \in Windows : ShownBy(v)'
        <3> TAKE v \in Windows
        <3>1. CASE v = w
            BY <2>1, <3>1 DEF ShownBy, Unlocked
        <3>2. CASE v # w
            BY <1>d, <2>1, <3>2, OtherWindow
        <3> QED BY <3>1, <3>2
    <2>3. NeverOpened' /\ OwnFieldStored'
        BY <1>d, <2>1 DEF NeverOpened, OwnFieldStored
    <2> QED BY <1>q, <2>2, <2>3
<1>3. ASSUME NEW w \in Windows, FinishCreate(w) PROVE Drained'
    <2>1. /\ db'.seal = nextSeal /\ db'.key = nextSeal /\ db'.fields = memory[w]
          /\ stored' = [stored EXCEPT ![w] = db'] /\ key' = [key EXCEPT ![w] = nextSeal]
          /\ creating' = [creating EXCEPT ![w] = "none"]
          /\ lastWriter' = [f \in Fields |-> w] /\ clean' = [clean EXCEPT ![w] = TRUE]
          /\ UNCHANGED <<open, memory, queue>> /\ creating[w] # "none"
        BY <1>3 DEF FinishCreate
    <2>2. stored[w] = NoVault /\ queue[w] = <<>> /\ open[w]
        BY <1>d, <2>1 DEF NeverOpened
    <2>3. db' # NoVault
        BY <1>n, <2>1
    <2>4. \A v \in Windows : ShownBy(v)'
        <3> TAKE v \in Windows
        <3>1. CASE v = w
            BY <1>n, <2>1, <2>2, <3>1, NothingQueued DEF ShownBy, Unlocked
        <3>2. CASE v # w
            BY <1>d, <1>n, <2>1, <3>2, OtherWindow
        <3> QED BY <3>1, <3>2
    <2>5. NeverOpened'
        BY <1>d, <1>n, <2>1, <2>2, <2>3 DEF NeverOpened
    <2>6. OwnFieldStored'
        BY <1>n, <2>1 DEF OwnFieldStored
    <2> QED BY <1>q, <2>4, <2>5, <2>6
<1>4. ASSUME NEW w \in Windows, Unlock(w) PROVE Drained'
    <2>1. /\ key' = [key EXCEPT ![w] = stored[w].key]
          /\ memory' = [memory EXCEPT ![w] = stored[w].fields]
          /\ clean' = [clean EXCEPT ![w] = queue[w] = <<>>]
          /\ stored[w] # NoVault
          /\ UNCHANGED <<db, open, stored, queue, lastWriter, creating>>
        BY <1>4 DEF Unlock
    <2>2. \A v \in Windows : ShownBy(v)'
        <3> TAKE v \in Windows
        <3>1. CASE v = w
            <4>1. /\ key'[w] = stored[w].key /\ memory'[w] = stored[w].fields
                  /\ stored'[w] = stored[w] /\ queue'[w] = queue[w]
                  /\ clean'[w] => queue[w] = <<>>
                BY <1>n, <2>1
            <4>2. CASE ~clean'[w]
                BY <3>1, <4>2 DEF ShownBy, Unlocked
            <4>3. CASE clean'[w]
                <5>1. queue'[w] = <<>>
                    BY <4>1, <4>3
                <5>2. \A f \in Fields : lastWriter'[f] = w => memory'[w][f] = db'.fields[f]
                    BY <1>d, <2>1, <4>1 DEF OwnFieldStored
                <5> QED BY <3>1, <4>1, <5>1, <5>2, NothingQueued DEF ShownBy
            <4> QED BY <4>2, <4>3
        <3>2. CASE v # w
            BY <1>d, <1>n, <2>1, <3>2, OtherWindow
        <3> QED BY <3>1, <3>2
    <2>3. NeverOpened' /\ OwnFieldStored'
        BY <1>d, <1>n, <2>1 DEF NeverOpened, OwnFieldStored
    <2> QED BY <1>q, <2>2, <2>3
<1>5. ASSUME NEW w \in Windows, Lock(w) PROVE Drained'
    <2>1. /\ key' = [key EXCEPT ![w] = 0] /\ key[w] # 0
          /\ memory' = [memory EXCEPT ![w] = EmptyPayload]
          /\ UNCHANGED <<db, open, stored, queue, lastWriter, creating, clean>>
        BY <1>5 DEF Lock
    <2>2. \A v \in Windows : ShownBy(v)'
        <3> TAKE v \in Windows
        <3>1. CASE v = w
            BY <1>n, <2>1, <3>1 DEF ShownBy, Unlocked
        <3>2. CASE v # w
            BY <1>d, <1>n, <2>1, <3>2, OtherWindow
        <3> QED BY <3>1, <3>2
    <2>3. NeverOpened' /\ OwnFieldStored'
        BY <1>d, <1>n, <2>1 DEF NeverOpened, OwnFieldStored
    <2> QED BY <1>q, <2>2, <2>3
<1>6. ASSUME NEW w \in Windows, CloseWindow(w) PROVE Drained'
    <2>1. /\ key' = [key EXCEPT ![w] = 0] /\ stored' = [stored EXCEPT ![w] = NoVault]
          /\ memory' = [memory EXCEPT ![w] = EmptyPayload]
          /\ creating' = [creating EXCEPT ![w] = "none"]
          /\ queue' = [queue EXCEPT ![w] = <<>>] /\ open' = [open EXCEPT ![w] = FALSE]
          /\ clean' = [clean EXCEPT ![w] = TRUE] /\ UNCHANGED <<db, lastWriter>>
        BY <1>6 DEF CloseWindow
    <2>2. \A v \in Windows : ShownBy(v)'
        <3> TAKE v \in Windows
        <3>1. CASE v = w
            BY <1>n, <2>1, <3>1 DEF ShownBy, Unlocked
        <3>2. CASE v # w
            BY <1>d, <1>n, <2>1, <3>2, OtherWindow
        <3> QED BY <3>1, <3>2
    <2>3. NeverOpened' /\ OwnFieldStored'
        BY <1>d, <1>n, <2>1 DEF NeverOpened, OwnFieldStored
    <2> QED BY <1>q, <2>2, <2>3
<1>7. ASSUME NEW w \in Windows, NEW ch \in Writes, Persist(w, ch) PROVE Drained'
    <2> DEFINE q == queue[w]
               call == [key |-> key[w], changes |-> ch]
    <2>1. /\ key[w] # 0 /\ memory' = [memory EXCEPT ![w] = Merge(memory[w], ch)]
          /\ queue' = [queue EXCEPT ![w] = Append(q, call)]
          /\ UNCHANGED <<db, open, stored, key, lastWriter, creating, clean>>
        BY <1>7 DEF Persist
    <2>2. q \in Seq(Calls) /\ call \in Calls
        BY <1>t, WritesAssumption DEF Calls, TypeOK
    <2>3. call.key = key[w] /\ call.changes = ch
        OBVIOUS
    <2>4. queue'[w] = Append(q, call) /\ memory'[w] = Merge(memory[w], ch)
        BY <1>n, <2>1
    <2> HIDE DEF call, q
    <2>5. /\ Len(Append(q, call)) = Len(q) + 1 /\ Len(q) \in Nat
          /\ \A i \in 1..Len(q) : Append(q, call)[i] = q[i]
          /\ Append(q, call)[Len(q) + 1] = call
          /\ Append(q, call) # <<>>
        BY <2>2, AppendCall
    <2>6. ASSUME NEW i \in 1..(Len(q) + 1), i # Len(q) + 1
          PROVE  i \in 1..Len(q) /\ Append(q, call)[i] = q[i]
        BY <2>5, <2>6
    <2>7. ASSUME Unlocked(w) PROVE ShownBy(w)'
        <3>1. key[w] = stored[w].key /\ KeysAre(q, key[w])
            BY <1>d, <2>7 DEF ShownBy, q
        <3>2. KeysAre(Append(q, call), key[w])
            BY <2>3, <2>5, <2>6, <3>1 DEF KeysAre
        <3>3. ASSUME NEW f \in Fields
              PROVE  LastWord(Append(q, call), f, Merge(memory[w], ch)[f])
            <4> SUFFICES ASSUME NEW i \in 1..(Len(q) + 1), Names(Append(q, call), i, f),
                                \A j \in 1..(Len(q) + 1) : Names(Append(q, call), j, f) => j <= i
                         PROVE  Merge(memory[w], ch)[f] = Append(q, call)[i].changes[f]
                BY <2>5 DEF LastWord
            <4>1. CASE i = Len(q) + 1
                BY <2>3, <2>5, <4>1 DEF Merge, Names
            <4>2. CASE i # Len(q) + 1
                <5>1. f \notin DOMAIN ch
                    <6>1. Len(q) + 1 \in 1..(Len(q) + 1) /\ ~(Len(q) + 1 <= i)
                        BY <2>5, <4>2
                    <6> QED BY <2>3, <2>5, <6>1 DEF Names
                <5>2. i \in 1..Len(q) /\ Append(q, call)[i] = q[i]
                    BY <2>6, <4>2
                <5>3. Names(q, i, f) /\ \A j \in 1..Len(q) : Names(q, j, f) => j <= i
                    BY <2>5, <5>2 DEF Names
                <5>4. LastWord(q, f, memory[w][f])
                    BY <1>d, <2>7 DEF ShownBy, q
                <5>5. memory[w][f] = q[i].changes[f]
                    BY <5>2, <5>3, <5>4 DEF LastWord
                <5> QED BY <5>1, <5>2, <5>5 DEF Merge
            <4> QED BY <4>1, <4>2
        <3>4. ASSUME NEW f \in Fields, lastWriter[f] = w, NoWord(Append(q, call), f)
              PROVE  Merge(memory[w], ch)[f] = db.fields[f]
            <4>1. f \notin DOMAIN ch
                BY <2>3, <2>5, <3>4 DEF NoWord, Names
            <4>2. NoWord(q, f)
                BY <2>5, <3>4 DEF NoWord, Names
            <4>3. memory[w][f] = db.fields[f]
                BY <1>d, <2>7, <3>4, <4>2 DEF ShownBy, q
            <4> QED BY <4>1, <4>3 DEF Merge
        <3> QED BY <2>1, <2>4, <3>1, <3>2, <3>3, <3>4 DEF ShownBy
    <2>8. \A v \in Windows : ShownBy(v)'
        <3> TAKE v \in Windows
        <3>1. CASE v = w /\ ~Unlocked(w)
            BY <2>1, <3>1 DEF ShownBy, Unlocked
        <3>2. CASE v # w
            BY <1>d, <1>n, <2>1, <3>2, OtherWindow
        <3> QED BY <2>7, <3>1, <3>2
    <2>9. NeverOpened' /\ OwnFieldStored'
        BY <1>d, <1>n, <2>1 DEF NeverOpened, OwnFieldStored
    <2> QED BY <1>q, <2>8, <2>9
<1>8. ASSUME NEW w \in Windows, ReadVault(w) \/ RetryCall(w) PROVE Drained'
    <2>1. UNCHANGED <<db, open, stored, key, memory, queue, lastWriter, creating, clean>>
        BY <1>8 DEF ReadVault, RetryCall
    <2>2. \A v \in Windows : ShownBy(v)'
        BY <1>d, <2>1, OtherWindow
    <2>3. NeverOpened' /\ OwnFieldStored'
        BY <1>d, <2>1 DEF NeverOpened, OwnFieldStored
    <2> QED BY <1>q, <2>2, <2>3
<1>9. ASSUME NEW w \in Windows, RejectCall(w) PROVE Drained'
    <2> DEFINE q == queue[w]
    <2>1. /\ queue' = [queue EXCEPT ![w] = Tail(q)] /\ base[w].key # Head(q).key
          /\ UNCHANGED <<db, open, stored, key, memory, lastWriter, creating, clean>>
          /\ phase[w] = "read"
        BY <1>9 DEF RejectCall
    <2>2. q \in Seq(Calls) /\ q # <<>> /\ Head(q) = q[1] /\ Head(q) \in Calls
        BY <1>t, <2>1, TailCalls DEF TypeOK, ReadIsSnapshot
    <2>3. queue'[w] = Tail(q)
        BY <1>n, <2>1
    <2>4. Head(q).key # db.key
        BY <1>t, <2>1, <2>2 DEF ReadIsSnapshot, TypeOK, Vaults, Calls
    <2>5. stored[w] # NoVault
        BY <1>d, <2>2 DEF NeverOpened
    <2> HIDE DEF q
    <2>6. 1 \in 1..Len(q)
        BY <2>2, NamesTail
    <2>7. ASSUME Unlocked(w) PROVE ShownBy(w)'
        <3>1. key[w] = stored[w].key /\ KeysAre(q, key[w])
            BY <1>d, <2>7 DEF ShownBy, q
        <3>2. \A f \in Fields : lastWriter[f] # w
            BY <1>d, <2>2, <2>4, <2>5, <2>6, <3>1 DEF OwnFieldStored, KeysAre
        <3>3. \A f \in Fields : LastWord(q, f, memory[w][f])
            BY <1>d, <2>7 DEF ShownBy, q
        <3>4. \A f \in Fields : KeysAre(Tail(q), key[w]) /\ LastWord(Tail(q), f, memory[w][f])
            BY <2>2, <3>1, <3>3, TailShown
        <3>5. KeysAre(Tail(q), key[w])
            BY <2>2, <3>1, NamesTail, TailCalls DEF KeysAre
        <3> QED BY <2>1, <2>3, <3>1, <3>2, <3>4, <3>5 DEF ShownBy
    <2>8. \A v \in Windows : ShownBy(v)'
        <3> TAKE v \in Windows
        <3>1. CASE v = w /\ ~Unlocked(w)
            BY <2>1, <3>1 DEF ShownBy, Unlocked
        <3>2. CASE v # w
            BY <1>d, <1>n, <2>1, <3>2, OtherWindow
        <3> QED BY <2>7, <3>1, <3>2
    <2>9. NeverOpened' /\ OwnFieldStored'
        BY <1>d, <1>n, <2>1, <2>5 DEF NeverOpened, OwnFieldStored
    <2> QED BY <1>q, <2>8, <2>9
<1>10. ASSUME NEW w \in Windows, CommitCall(w) PROVE Drained'
    <2> DEFINE q == queue[w]
               ch == Head(q).changes
    <2>1. /\ queue' = [queue EXCEPT ![w] = Tail(q)] /\ phase[w] = "read"
          /\ db' = [seal |-> nextSeal, salt |-> base[w].salt, key |-> Head(q).key,
                    fields |-> Merge(base[w].fields, ch)]
          /\ stored' = [stored EXCEPT ![w] = db']
          /\ lastWriter' = [f \in Fields |-> IF f \in DOMAIN ch THEN w ELSE lastWriter[f]]
          /\ base[w].key = Head(q).key /\ db.seal = base[w].seal
          /\ UNCHANGED <<open, key, memory, creating, clean>>
        BY <1>10 DEF CommitCall, StoreMerged
    <2>2. q \in Seq(Calls) /\ q # <<>> /\ Head(q) = q[1] /\ base[w] = db
        BY <1>t, <2>1, TailCalls DEF TypeOK, ReadIsSnapshot
    <2>3. /\ db'.seal = nextSeal /\ db'.key = db.key /\ db.key = Head(q).key
          /\ \A f \in Fields : db'.fields[f] = IF f \in DOMAIN ch THEN ch[f] ELSE db.fields[f]
          /\ queue'[w] = Tail(q) /\ stored'[w] = db'
        BY <1>n, <2>1, <2>2 DEF Merge
    <2>4. db' # NoVault /\ stored[w] # NoVault
        BY <1>d, <1>n, <2>2, <2>3 DEF NeverOpened
    <2>5. ch = q[1].changes
        BY <2>2
    <2> HIDE DEF q, ch
    <2>6. 1 \in 1..Len(q)
        BY <2>2, NamesTail
    <2>7. ASSUME Unlocked(w) PROVE ShownBy(w)'
        <3>1. KeysAre(q, key[w])
            BY <1>d, <2>7 DEF ShownBy, q
        <3>2. key[w] = stored'[w].key
            BY <2>2, <2>3, <2>6, <3>1 DEF KeysAre
        <3>3. KeysAre(Tail(q), key[w])
            BY <2>2, <3>1, NamesTail, TailCalls DEF KeysAre
        <3>4. \A f \in Fields : LastWord(q, f, memory[w][f])
            BY <1>d, <2>7 DEF ShownBy, q
        <3>5. \A f \in Fields : LastWord(Tail(q), f, memory[w][f])
            BY <2>2, <3>1, <3>4, TailShown
        <3>6. ASSUME NEW f \in Fields, lastWriter'[f] = w, NoWord(Tail(q), f)
              PROVE  memory[w][f] = db'.fields[f]
            <4>1. ASSUME NEW i \in 1..Len(q), Names(q, i, f) PROVE i = 1
                <5>1. CASE i # 1
                    <6>1. i - 1 \in 1..Len(Tail(q))
                        BY <2>2, <5>1, NamesTail
                    <6>2. Names(Tail(q), i - 1, f) <=> Names(q, (i - 1) + 1, f)
                        BY <2>2, <6>1, NamesTail
                    <6>3. (i - 1) + 1 = i
                        OBVIOUS
                    <6> QED BY <3>6, <4>1, <6>1, <6>2, <6>3 DEF NoWord
                <5> QED BY <5>1
            <4>2. CASE f \in DOMAIN ch
                <5>1. Names(q, 1, f) /\ \A j \in 1..Len(q) : Names(q, j, f) => j <= 1
                    BY <2>5, <4>1, <4>2 DEF Names
                <5>2. memory[w][f] = q[1].changes[f]
                    BY <2>6, <3>4, <5>1 DEF LastWord
                <5> QED BY <2>3, <2>5, <4>2, <5>2
            <4>3. CASE f \notin DOMAIN ch
                <5>1. NoWord(q, f)
                    BY <2>5, <4>1, <4>3 DEF NoWord, Names
                <5>2. lastWriter[f] = w
                    BY <2>1, <3>6, <4>3
                <5>3. memory[w][f] = db.fields[f]
                    BY <1>d, <2>7, <5>1, <5>2 DEF ShownBy, q
                <5> QED BY <2>3, <4>3, <5>3
            <4> QED BY <4>2, <4>3
        <3> QED BY <2>1, <2>3, <3>2, <3>3, <3>5, <3>6 DEF ShownBy
    <2>8. \A v \in Windows \ {w}, f \in Fields : lastWriter'[f] = v =>
                lastWriter[f] = v /\ db'.fields[f] = db.fields[f] /\ db'.key = db.key
        BY <2>1, <2>3
    <2>9. \A v \in Windows : ShownBy(v)'
        <3> TAKE v \in Windows
        <3>1. CASE v = w /\ ~Unlocked(w)
            BY <2>1, <3>1 DEF ShownBy, Unlocked
        <3>2. CASE v # w
            BY <1>d, <1>n, <2>1, <2>8, <3>2, OtherWindow
        <3> QED BY <2>7, <3>1, <3>2
    <2>10. NeverOpened'
        BY <1>d, <1>n, <2>1, <2>4 DEF NeverOpened
    <2>11. OwnFieldStored'
        <3> SUFFICES ASSUME NEW v \in Windows, NEW f \in Fields,
                            lastWriter'[f] = v, stored'[v] # NoVault
                     PROVE  stored'[v].key = db'.key /\ stored'[v].fields[f] = db'.fields[f]
            BY DEF OwnFieldStored
        <3>1. CASE v = w
            BY <2>3, <3>1
        <3>2. CASE v # w
            BY <1>d, <1>n, <2>1, <2>8, <3>2 DEF OwnFieldStored
        <3> QED BY <3>1, <3>2
    <2> QED BY <1>q, <2>9, <2>10, <2>11
<1>11. CASE UNCHANGED vars
    <2>1. UNCHANGED <<db, open, stored, key, memory, queue, lastWriter, creating, clean>>
        BY <1>11 DEF vars
    <2>2. \A v \in Windows : ShownBy(v)'
        BY <1>d, <2>1, OtherWindow
    <2>3. NeverOpened' /\ OwnFieldStored'
        BY <1>d, <2>1 DEF NeverOpened, OwnFieldStored
    <2> QED BY <1>q, <2>2, <2>3
<1> QED BY <1>1, <1>2, <1>3, <1>4, <1>5, <1>6, <1>7, <1>8, <1>9, <1>10, <1>11
           DEF Next, PersistLoop

(* A window with nothing left to persist shows what is stored in the fields  *)
(* it was the last to write, however many windows write and create vaults.   *)
THEOREM DrainedAgrees == Spec => []DrainedWindowAgrees
<1>1. Drained => DrainedWindowAgrees
    <2> SUFFICES ASSUME Drained, NEW w \in Windows, NEW f \in Fields,
                        key[w] # 0, clean[w], queue[w] = <<>>, lastWriter[f] = w
                 PROVE  memory[w][f] = db.fields[f]
        BY DEF DrainedWindowAgrees
    <2> QED BY NothingQueued DEF Drained, Shown, ShownBy, Unlocked
<1> QED BY <1>1, Invariance, DrainedInit, DrainedStep, PTL DEF Spec
=============================================================================
