----------------------------- MODULE VaultStore -----------------------------
(***************************************************************************)
(* The encrypted local vault and the windows that share it:                *)
(* frontend/src/shared/security/VaultProvider.tsx (one instance per        *)
(* window) and vaultPersistence.ts (the compare-and-set loop over one      *)
(* IndexedDB record).                                                      *)
(*                                                                         *)
(* A ciphertext is abstracted to a seal: every encryption draws a random   *)
(* IV, so two encryptions never give the same cipher.data, and the         *)
(* comparison the commit makes is an equality of seals.  A key is the      *)
(* number of the creation whose salt it was derived from.                  *)
(***************************************************************************)
EXTENDS Naturals, Sequences

CONSTANTS
    Windows,    \* windows sharing the IndexedDB of one installation
    Fields,     \* keys of the vault payload
    Values,     \* values a field can hold
    Absent,     \* a field that is not in the payload
    Legacy,     \* what pre-vault versions left in localStorage
    Remote,     \* the payload of the Nextcloud backup, if restored
    Writes,     \* the field changes the application asks for
    MaxSeals,   \* bound: encryptions in a behaviour
    MaxQueue    \* bound: persist calls waiting in one window

Payloads == [Fields -> Values \union {Absent}]
EmptyPayload == [f \in Fields |-> Absent]
Changes == UNION {[S -> Values \union {Absent}] : S \in SUBSET Fields \ {{}}}

ASSUME LegacyAssumption == Legacy \in Payloads
ASSUME RemoteAssumption == Remote \in Payloads
ASSUME WritesAssumption == Writes \subseteq Changes
ASSUME BoundsAssumption == MaxSeals \in Nat /\ MaxQueue \in Nat

VARIABLES
    db,         \* the record under DB_KEY
    legacy,     \* localStorage entries not migrated yet
    nextSeal,   \* next fresh ciphertext
    open,       \* the window exists
    stored,     \* its copy of the record (React state `stored`)
    key,        \* keyRef.current, 0 when the window is locked
    memory,     \* payloadRef.current
    creating,   \* "create" or "restore" until set(DB_KEY), else "none"
    queue,      \* writeQueue: persist calls not settled yet, oldest first
    phase,      \* where the oldest one is in the compare-and-set loop
    base,       \* the record it read
    lastWriter, \* history: the window whose commit last wrote the field
    clean       \* history: the window had no pending call when it unlocked

vars == <<db, legacy, nextSeal, open, stored, key, memory, creating, queue,
          phase, base, lastWriter, clean>>

windowVars == <<open, stored, key, memory, creating, clean>>
jobVars == <<queue, phase, base>>

Vaults == [seal : Nat, salt : Nat, key : Nat, fields : Payloads]
NoVault == [seal |-> 0, salt |-> 0, key |-> 0, fields |-> EmptyPayload]
Calls == [key : Nat, changes : Changes]
Nobody == "nobody"

Merge(p, ch) == [f \in Fields |-> IF f \in DOMAIN ch THEN ch[f] ELSE p[f]]

Init ==
    /\ db = NoVault
    /\ legacy = Legacy
    /\ nextSeal = 1
    /\ open = [w \in Windows |-> FALSE]
    /\ stored = [w \in Windows |-> NoVault]
    /\ key = [w \in Windows |-> 0]
    /\ memory = [w \in Windows |-> EmptyPayload]
    /\ creating = [w \in Windows |-> "none"]
    /\ queue = [w \in Windows |-> <<>>]
    /\ phase = [w \in Windows |-> "idle"]
    /\ base = [w \in Windows |-> NoVault]
    /\ lastWriter = [f \in Fields |-> Nobody]
    /\ clean = [w \in Windows |-> TRUE]

----------------------------------------------------------------------------
(* The window mounts VaultProvider and loads the record once. *)
OpenWindow(w) ==
    /\ ~open[w]
    /\ open' = [open EXCEPT ![w] = TRUE]
    /\ stored' = [stored EXCEPT ![w] = db]
    /\ UNCHANGED <<db, legacy, nextSeal, key, memory, creating, jobVars,
                   lastWriter, clean>>

(* submit with no vault: the legacy payload is read, then a key is derived. *)
BeginCreate(w) ==
    /\ open[w] /\ stored[w] = NoVault /\ key[w] = 0 /\ creating[w] = "none"
    /\ creating' = [creating EXCEPT ![w] = "create"]
    /\ memory' = [memory EXCEPT ![w] = legacy]
    /\ UNCHANGED <<db, legacy, nextSeal, open, stored, key, jobVars,
                   lastWriter, clean>>

(* restore with no vault: the payload comes from the Nextcloud backup. *)
BeginRestore(w) ==
    /\ open[w] /\ stored[w] = NoVault /\ key[w] = 0 /\ creating[w] = "none"
    /\ creating' = [creating EXCEPT ![w] = "restore"]
    /\ memory' = [memory EXCEPT ![w] = Remote]
    /\ UNCHANGED <<db, legacy, nextSeal, open, stored, key, jobVars,
                   lastWriter, clean>>

(* The record is set without looking at what another window stored since. *)
FinishCreate(w) ==
    /\ creating[w] # "none"
    /\ nextSeal <= MaxSeals
    /\ LET vault == [seal |-> nextSeal, salt |-> nextSeal, key |-> nextSeal,
                     fields |-> memory[w]]
       IN  /\ db' = vault
           /\ stored' = [stored EXCEPT ![w] = vault]
    /\ legacy' = IF creating[w] = "create" THEN EmptyPayload ELSE legacy
    /\ nextSeal' = nextSeal + 1
    /\ key' = [key EXCEPT ![w] = nextSeal]
    /\ creating' = [creating EXCEPT ![w] = "none"]
    /\ lastWriter' = [f \in Fields |-> w]
    /\ clean' = [clean EXCEPT ![w] = TRUE]
    /\ UNCHANGED <<open, memory, jobVars>>

(* submit, biometricUnlock or the desktop session: all decrypt the window's *)
(* own copy of the record, not the stored one.                              *)
Unlock(w) ==
    /\ open[w] /\ stored[w] # NoVault /\ key[w] = 0
    /\ stored[w].key = stored[w].salt
    /\ key' = [key EXCEPT ![w] = stored[w].key]
    /\ memory' = [memory EXCEPT ![w] = stored[w].fields]
    /\ clean' = [clean EXCEPT ![w] = queue[w] = <<>>]
    /\ UNCHANGED <<db, legacy, nextSeal, open, stored, creating, jobVars,
                   lastWriter>>

(* write, disableConfigSync and restoreFromNextcloud: the payload in memory *)
(* changes at once, the call is chained after the window's earlier ones.    *)
Persist(w, ch) ==
    /\ key[w] # 0
    /\ Len(queue[w]) < MaxQueue
    /\ Merge(memory[w], ch) # memory[w]
    /\ memory' = [memory EXCEPT ![w] = Merge(@, ch)]
    /\ queue' = [queue EXCEPT ![w] =
                    Append(@, [key |-> key[w], changes |-> ch])]
    /\ UNCHANGED <<db, legacy, nextSeal, open, stored, key, creating, phase,
                   base, lastWriter, clean>>

(* One turn of persistVaultFields: get ... *)
ReadVault(w) ==
    /\ queue[w] # <<>> /\ phase[w] = "idle"
    /\ phase' = [phase EXCEPT ![w] = "read"]
    /\ base' = [base EXCEPT ![w] = db]
    /\ UNCHANGED <<db, legacy, nextSeal, windowVars, queue, lastWriter>>

(* ... decryption fails: the call is dropped and only logged ... *)
RejectCall(w) ==
    /\ phase[w] = "read"
    /\ base[w].key # Head(queue[w]).key
    /\ queue' = [queue EXCEPT ![w] = Tail(@)]
    /\ phase' = [phase EXCEPT ![w] = "idle"]
    /\ base' = [base EXCEPT ![w] = NoVault]
    /\ UNCHANGED <<db, legacy, nextSeal, windowVars, lastWriter>>

(* What the commit of one call changes. *)
StoreMerged(w) ==
    /\ nextSeal <= MaxSeals
    /\ LET call == Head(queue[w])
           vault == [seal |-> nextSeal, salt |-> base[w].salt,
                     key |-> call.key,
                     fields |-> Merge(base[w].fields, call.changes)]
       IN  /\ db' = vault
           /\ stored' = [stored EXCEPT ![w] = vault]
           /\ lastWriter' = [f \in Fields |->
                IF f \in DOMAIN call.changes THEN w ELSE lastWriter[f]]
    /\ nextSeal' = nextSeal + 1
    /\ queue' = [queue EXCEPT ![w] = Tail(@)]
    /\ phase' = [phase EXCEPT ![w] = "idle"]
    /\ base' = [base EXCEPT ![w] = NoVault]
    /\ UNCHANGED <<legacy, open, key, memory, creating, clean>>

(* Faulty commits: one never looks at what was stored since the read, the   *)
(* other never noticed that the record does not open with the call's key.   *)
CommitOverwriting(w) ==
    /\ phase[w] = "read"
    /\ base[w].key = Head(queue[w]).key
    /\ StoreMerged(w)

CommitUndecrypted(w) ==
    /\ phase[w] = "read"
    /\ db.seal = base[w].seal
    /\ StoreMerged(w)

(* ... update commits if the record is still the one that was read ... *)
CommitCall(w) ==
    /\ phase[w] = "read"
    /\ base[w].key = Head(queue[w]).key
    /\ db.seal = base[w].seal
    /\ StoreMerged(w)

(* A faulty retry: it compares the same stale record for ever. *)
RetrySameBase(w) ==
    /\ phase[w] = "read"
    /\ base[w].key = Head(queue[w]).key
    /\ db.seal # base[w].seal
    /\ UNCHANGED vars

(* ... and the loop starts again when another window was faster. *)
RetryCall(w) ==
    /\ phase[w] = "read"
    /\ base[w].key = Head(queue[w]).key
    /\ db.seal # base[w].seal
    /\ phase' = [phase EXCEPT ![w] = "idle"]
    /\ base' = [base EXCEPT ![w] = NoVault]
    /\ UNCHANGED <<db, legacy, nextSeal, windowVars, queue, lastWriter>>

(* lock: the queued calls keep the key they captured. *)
Lock(w) ==
    /\ key[w] # 0
    /\ key' = [key EXCEPT ![w] = 0]
    /\ memory' = [memory EXCEPT ![w] = EmptyPayload]
    /\ UNCHANGED <<db, legacy, nextSeal, open, stored, creating, jobVars,
                   lastWriter, clean>>

(* The window is closed or reloaded, at any point of the above. *)
CloseWindow(w) ==
    /\ open[w]
    /\ open' = [open EXCEPT ![w] = FALSE]
    /\ stored' = [stored EXCEPT ![w] = NoVault]
    /\ key' = [key EXCEPT ![w] = 0]
    /\ memory' = [memory EXCEPT ![w] = EmptyPayload]
    /\ creating' = [creating EXCEPT ![w] = "none"]
    /\ queue' = [queue EXCEPT ![w] = <<>>]
    /\ phase' = [phase EXCEPT ![w] = "idle"]
    /\ base' = [base EXCEPT ![w] = NoVault]
    /\ clean' = [clean EXCEPT ![w] = TRUE]
    /\ UNCHANGED <<db, legacy, nextSeal, lastWriter>>

(* What runs by itself once a call is queued. *)
PersistLoop(w) ==
    ReadVault(w) \/ RejectCall(w) \/ CommitCall(w) \/ RetryCall(w)

Next ==
    \E w \in Windows :
        \/ OpenWindow(w)
        \/ BeginCreate(w) \/ BeginRestore(w) \/ FinishCreate(w)
        \/ Unlock(w) \/ Lock(w) \/ CloseWindow(w)
        \/ \E ch \in Writes : Persist(w, ch)
        \/ PersistLoop(w)

Fairness == \A w \in Windows : WF_vars(PersistLoop(w))

Spec == Init /\ [][Next]_vars
FairSpec == Spec /\ Fairness

----------------------------------------------------------------------------
TypeOK ==
    /\ db \in Vaults
    /\ legacy \in Payloads
    /\ nextSeal \in Nat \ {0}
    /\ open \in [Windows -> BOOLEAN]
    /\ stored \in [Windows -> Vaults]
    /\ key \in [Windows -> Nat]
    /\ memory \in [Windows -> Payloads]
    /\ creating \in [Windows -> {"none", "create", "restore"}]
    /\ queue \in [Windows -> Seq(Calls)]
    /\ phase \in [Windows -> {"idle", "read"}]
    /\ base \in [Windows -> Vaults]
    /\ lastWriter \in [Fields -> Windows \union {Nobody}]
    /\ clean \in [Windows -> BOOLEAN]

(* A vault is always opened by the password its own salt belongs to: no      *)
(* window ever seals the payload of one vault under the key of another, even *)
(* when two windows create a vault at the same time.                         *)
VaultOpenable == db.key = db.salt

(* Once a window has nothing left to persist, a field it was the last to     *)
(* write is stored with the value the window shows; unlocking while an older *)
(* call is still queued is the one exception (history variable `clean`).     *)
DrainedWindowAgrees ==
    \A w \in Windows, f \in Fields :
        (/\ key[w] # 0
         /\ clean[w]
         /\ queue[w] = <<>>
         /\ lastWriter[f] = w) => memory[w][f] = db.fields[f]

(* Once a window makes no further call, every call it made settles,          *)
(* although the other windows keep committing and the loop of                *)
(* persistVaultFields has no bound on its retries.                           *)
Quiet(w) == [][~\E ch \in Writes : Persist(w, ch)]_vars
SettlesWithinBound ==
    \A w \in Windows :
        <>Quiet(w) => []<>(queue[w] = <<>> \/ nextSeal > MaxSeals)

(* persistVaultFields is atomic: it behaves as VaultContract, whose step     *)
(* applies one call to the fields it names and leaves the others alone.      *)
Contract == INSTANCE VaultContract
    WITH fields <- db.fields, epoch <- db.key, calls <- queue

ImplementsContract == Contract!Spec
=============================================================================
