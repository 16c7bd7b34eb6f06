-------------------------- MODULE ConfigSyncProofs --------------------------
(***************************************************************************)
(* What is on the screen is what the vault will hold, and what an upload   *)
(* carries: for any devices, edits, file versions and queued saves.        *)
(***************************************************************************)
EXTENDS ConfigSync, SequenceTheorems, TLAPS

(* Uploaded settings have a revision that can still be confirmed.           *)
Types == /\ TypeOK
         /\ \A d \in Devices : job[d].step = "confirm" => job[d].sync.rev < MaxVersion

Fields == {"edits", "sync"}

LEMMA SyncTyped ==
    /\ NoSync \in Settings
    /\ \A etag, rev \in Versions : \A dirty \in BOOLEAN : Sync(etag, rev, dirty) \in Settings
  BY BoundsAssumption DEF NoSync, Sync, Settings, Versions

LEMMA EmptyTyped == Empty \in Payloads /\ NoJob \in Jobs /\ NoJob.step = "none"
  BY SyncTyped DEF Empty, Payloads, NoJob, Jobs, Steps

LEMMA StatusTyped ==
    ASSUME NEW s \in Statuses, NEW sync PROVE StatusWith(s, sync) \in Statuses
  BY DEF StatusWith, Statuses

LEMMA AppliedTyped ==
    ASSUME NEW payload \in Payloads, NEW save \in Saves
    PROVE  /\ Applied(payload, save) \in Payloads
           /\ \A f \in Fields : Applied(payload, save)[f]
                = IF f \in save.fields THEN save.payload[f] ELSE payload[f]
  <1>1. save.payload \in Payloads
    BY DEF Saves
  <1>2. \A f \in Fields : Applied(payload, save)[f]
                = IF f \in save.fields THEN save.payload[f] ELSE payload[f]
    BY DEF Applied, Fields
  <1>3. Applied(payload, save) = [edits |-> Applied(payload, save)["edits"],
                                  sync |-> Applied(payload, save)["sync"]]
    BY DEF Applied
  <1>4. \A p \in Payloads : p["edits"] \in SUBSET Edits /\ p["sync"] \in Settings
    BY DEF Payloads
  <1>5. Applied(payload, save)["edits"] \in SUBSET Edits
          /\ Applied(payload, save)["sync"] \in Settings
    BY <1>1, <1>2, <1>4 DEF Fields
  <1> QED BY <1>2, <1>3, <1>5 DEF Payloads

LEMMA SavedTyped ==
    ASSUME TypeOK, NEW d \in Devices, NEW payload \in Payloads,
           NEW fields \in SUBSET Fields, Saved(d, payload, fields)
    PROVE  /\ memory' \in [Devices -> Payloads] /\ shown' \in [Devices -> BOOLEAN]
           /\ queue' \in [Devices -> Seq(Saves)]
           /\ key' = key /\ vault' = vault
  <1>1. [fields |-> fields, payload |-> payload] \in Saves
    BY DEF Saves, Fields
  <1>2. queue' \in [Devices -> Seq(Saves)]
    <2>1. queue[d] \in Seq(Saves)
      BY DEF TypeOK
    <2>2. Append(queue[d], [fields |-> fields, payload |-> payload]) \in Seq(Saves)
      BY <1>1, <2>1
    <2> QED BY <2>2 DEF Saved, TypeOK
  <1> QED BY <1>2 DEF Saved, TypeOK

(* A job that is replaced by a typed one leaves the others as they are.      *)
LEMMA JobTyped ==
    ASSUME Types, NEW d \in Devices, NEW j \in Jobs, j.step # "confirm",
           job' = [job EXCEPT ![d] = j]
    PROVE  /\ job' \in [Devices -> Jobs]
           /\ \A e \in Devices : job'[e].step = "confirm" => job'[e].sync.rev < MaxVersion
  BY DEF Types, TypeOK

LEMMA UserTyped == ASSUME Types, NEW d \in Devices, User(d) PROVE Types'
  <1> USE DEF vaultVars
  <1>0. /\ TypeOK /\ memory[d] \in Payloads /\ memory[d].sync \in Settings
        /\ memory[d].edits \in SUBSET Edits /\ status[d] \in Statuses /\ vault[d] \in Payloads
    BY DEF Types, TypeOK, Payloads
  <1>1. ASSUME NEW e \in Edits, Write(d, e) PROVE Types'
    <2> DEFINE sync == IF memory[d].sync.on THEN [memory[d].sync EXCEPT !.dirty = TRUE]
                       ELSE memory[d].sync
               next == [edits |-> memory[d].edits \union {e}, sync |-> sync]
               fields == IF sync.on THEN {"edits", "sync"} ELSE {"edits"}
    <2>1. sync \in Settings
      BY <1>0 DEF Settings
    <2>2. next \in Payloads /\ fields \in SUBSET Fields
      BY <1>0, <2>1 DEF Payloads, Fields
    <2>3. Saved(d, next, fields) /\ StatusSet(d, status[d], sync) /\ made' = made \union {e}
          /\ UNCHANGED <<remote, checks, job, own>>
      BY <1>1 DEF Write
    <2> HIDE DEF sync, next, fields
    <2>4. status' \in [Devices -> Statuses]
      BY <1>0, <2>3, StatusTyped DEF StatusSet, TypeOK
    <2> QED BY <1>0, <2>2, <2>3, <2>4, SavedTyped DEF Types, TypeOK
  <1>2. CASE Disable(d)
    <2>1. [memory[d] EXCEPT !.sync = NoSync] \in Payloads /\ {"sync"} \in SUBSET Fields
      BY <1>0, SyncTyped DEF Payloads, Fields
    <2>2. status' \in [Devices -> Statuses]
      BY <1>0, <1>2, StatusTyped DEF Disable, StatusSet, TypeOK, Statuses
    <2> QED BY <1>0, <1>2, <2>1, <2>2, SavedTyped DEF Disable, Types, TypeOK
  <1>3. CASE Lock(d)
    BY <1>0, <1>3, EmptyTyped DEF Lock, Types, TypeOK
  <1>4. CASE Unlock(d)
    <2>1. status' \in [Devices -> Statuses]
      BY <1>0, <1>4, StatusTyped DEF Unlock, StatusSet, TypeOK
    <2> QED BY <1>0, <1>4, <2>1 DEF Unlock, Types, TypeOK
  <1>5. CASE Reload(d)
    <2>1. queue' \in [Devices -> Seq(Saves)]
      BY <1>0, <1>5 DEF Reload, TypeOK
    <2>2. /\ job' \in [Devices -> Jobs]
          /\ \A e \in Devices : job'[e].step = "confirm" => job'[e].sync.rev < MaxVersion
      BY <1>5, EmptyTyped, JobTyped DEF Reload
    <2> QED BY <1>0, <1>5, <2>1, <2>2, EmptyTyped DEF Reload, Types, TypeOK, Statuses
  <1>6. CASE BeginBackup(d)
    <2> DEFINE j == [NoJob EXCEPT !.step = "survey", !.sync = memory[d].sync,
                                  !.asked = IF key[d] THEN memory[d].edits ELSE {},
                                  !.warned = status[d] = "conflict"]
    <2>1. j \in Jobs /\ j.step # "confirm"
      BY <1>0, EmptyTyped DEF Jobs, Steps
    <2> HIDE DEF j
    <2>2. job' = [job EXCEPT ![d] = j]
      BY <1>6 DEF BeginBackup, j
    <2> QED BY <1>0, <1>6, <2>1, <2>2, JobTyped DEF BeginBackup, Types, TypeOK
  <1>7. CASE KeepLocal(d)
    <2> DEFINE j == [NoJob EXCEPT !.step = "read", !.sync = memory[d].sync, !.overwrite = TRUE,
                                  !.await = Len(queue[d]),
                                  !.asked = memory[d].edits, !.warned = TRUE]
    <2>0. Len(queue[d]) \in Nat
      BY <1>0 DEF TypeOK
    <2>1. j \in Jobs /\ j.step # "confirm"
      BY <1>0, <2>0, EmptyTyped DEF Jobs, Steps
    <2> HIDE DEF j
    <2>2. job' = [job EXCEPT ![d] = j]
      BY <1>7 DEF KeepLocal, StartPush, j
    <2> QED BY <1>0, <1>7, <2>1, <2>2, JobTyped DEF KeepLocal, StartPush, Types, TypeOK,
               Statuses
  <1>8. CASE BeginRestore(d)
    <2>1. [NoJob EXCEPT !.step = "download"] \in Jobs
      BY EmptyTyped DEF Jobs, Steps
    <2>2. [NoJob EXCEPT !.step = "download"].step # "confirm"
      BY DEF NoJob
    <2> QED BY <1>0, <1>8, <2>1, <2>2, JobTyped DEF BeginRestore, Types, TypeOK
  <1> QED BY <1>1, <1>2, <1>3, <1>4, <1>5, <1>6, <1>7, <1>8 DEF User

LEMMA CheckTyped == ASSUME Types, NEW d \in Devices, Check(d) PROVE Types'
  <1> USE DEF vaultVars
  <1>0. TypeOK /\ memory[d].sync \in Settings
    BY DEF Types, TypeOK, Payloads
  <1>1. CASE StartCheck(d)
    <2>1. [sync |-> memory[d].sync, verdict |-> "asked"] \in Checks
      BY <1>0 DEF Checks, Verdicts
    <2> QED BY <1>0, <1>1, <2>1 DEF StartCheck, Types, TypeOK
  <1>2. ASSUME NEW c \in checks[d], AnswerCheck(d, c) \/ FailCheck(d, c) PROVE Types'
    <2>1. c \in Checks
      BY <1>0 DEF TypeOK
    <2>2. PICK verdict \in Verdicts : Answered(d, c, verdict)
      BY <1>2 DEF AnswerCheck, FailCheck, Verdict, Verdicts
    <2>3. [c EXCEPT !.verdict = verdict] \in Checks
      BY <2>1 DEF Checks
    <2> QED BY <1>0, <2>2, <2>3 DEF Answered, Types, TypeOK
  <1>3. ASSUME NEW c \in checks[d], ApplyCheck(d, c) PROVE Types'
    <2>1. c.verdict \in Statuses
      BY <1>0, <1>3 DEF ApplyCheck, TypeOK, Checks, Verdicts, Statuses
    <2> QED BY <1>0, <1>3, <2>1 DEF ApplyCheck, Types, TypeOK
  <1> QED BY <1>1, <1>2, <1>3 DEF Check

LEMMA BackupTyped == ASSUME Types, NEW d \in Devices, Backup(d) PROVE Types'
  <1> USE DEF vaultVars
  <1>0. /\ TypeOK /\ memory[d] \in Payloads /\ job[d] \in Jobs
        /\ job[d].sync \in Settings /\ job[d].sync.rev \in Versions
        /\ remote.version \in Versions /\ remote.rev \in Versions
        /\ remote.edits \in SUBSET Edits
        /\ {"sync"} \in SUBSET Fields
    BY DEF Types, TypeOK, Payloads, Jobs, Settings, Fields
  <1>n. /\ NoJob \in Jobs /\ NoJob.step # "confirm"
        /\ {"conflict", "error", "synced", "syncing"} \subseteq Statuses
    BY EmptyTyped DEF Statuses
  <1>1. CASE FirstBackupRefused(d)
    <2> DEFINE pending == Sync(remote.version, remote.rev, TRUE)
    <2>1. [memory[d] EXCEPT !.sync = pending] \in Payloads
      BY <1>0, SyncTyped DEF Payloads
    <2>2. Saved(d, [memory[d] EXCEPT !.sync = pending], {"sync"})
            /\ job' = [job EXCEPT ![d] = NoJob]
      BY <1>1 DEF FirstBackupRefused
    <2> HIDE DEF pending
    <2> QED BY <1>0, <1>n, <1>1, <2>1, <2>2, SavedTyped, JobTyped DEF FirstBackupRefused, Types,
               TypeOK
  <1>2. CASE BackupSurveyed(d)
    <2> DEFINE sync == IF job[d].sync.on THEN job[d].sync
                       ELSE Sync(remote.version, remote.rev, FALSE)
               j == [NoJob EXCEPT !.step = "read", !.sync = sync, !.overwrite = FALSE,
                                  !.await = Len(queue[d]),
                                  !.asked = job[d].asked, !.warned = job[d].warned]
    <2>0. Sync(remote.version, remote.rev, FALSE) \in Settings
      BY <1>0, SyncTyped
    <2>1. sync \in Settings
      BY <1>0, <2>0
    <2>5. Len(queue[d]) \in Nat
      BY <1>0 DEF TypeOK
    <2>2. StartPush(d, sync, FALSE, job[d].asked, job[d].warned)
      BY <1>2 DEF BackupSurveyed
    <2> HIDE DEF sync
    <2>3. j \in Jobs /\ j.step # "confirm"
      BY <1>0, <1>n, <2>1, <2>5 DEF Jobs, Steps
    <2>4. job' = [job EXCEPT ![d] = j]
      BY <2>2 DEF StartPush
    <2> HIDE DEF j
    <2> QED BY <1>0, <1>n, <2>2, <2>3, <2>4, JobTyped DEF StartPush, Types, TypeOK
  <1>3. CASE PushLocked(d)
    BY <1>0, <1>n, <1>3, JobTyped DEF PushLocked, Types, TypeOK
  <1>4. CASE ReadForUpload(d)
    <2> DEFINE j == [job[d] EXCEPT !.step = IF job[d].overwrite THEN "refetch" ELSE "put",
                                   !.edits = vault[d].edits]
    <2>1. vault[d].edits \in SUBSET Edits
      BY <1>0 DEF TypeOK, Payloads
    <2>2. j \in Jobs /\ j.step # "confirm"
      BY <1>0, <2>1 DEF Jobs, Steps
    <2>3. job' = [job EXCEPT ![d] = j]
      BY <1>4 DEF ReadForUpload, ReadStored, TypeOK
    <2> HIDE DEF j
    <2> QED BY <1>0, <1>4, <2>2, <2>3, JobTyped DEF ReadForUpload, ReadStored, Types, TypeOK
  <1>5. CASE Refetch(d)
    <2> DEFINE j == [job[d] EXCEPT !.step = "put", !.sync.etag = remote.version]
    <2>1. j \in Jobs /\ j.step # "confirm"
      BY <1>0 DEF Jobs, Steps, Settings
    <2>2. job' = [job EXCEPT ![d] = j]
      BY <1>5 DEF Refetch
    <2> HIDE DEF j
    <2> QED BY <1>0, <1>5, <2>1, <2>2, JobTyped DEF Refetch, Types, TypeOK
  <1>6. ASSUME Upload(d) PROVE
                 /\ remote' \in [version : Versions, rev : Versions, edits : SUBSET Edits]
                               /\ own' \in [Devices -> SUBSET Versions]
                               /\ job[d].sync.rev < MaxVersion
    <2>1. remote.version + 1 \in Versions /\ job[d].sync.rev + 1 \in Versions
      BY <1>0, <1>6, BoundsAssumption DEF Upload, Versions
    <2>2. job[d].edits \in SUBSET Edits
      BY <1>0 DEF Jobs
    <2> QED BY <1>0, <1>6, <2>1, <2>2 DEF Upload, TypeOK
  <1>7. CASE PutAccepted(d)
    <2>1. [job[d] EXCEPT !.step = "confirm"] \in Jobs
      BY <1>0 DEF Jobs, Steps
    <2>2. job' = [job EXCEPT ![d] = [job[d] EXCEPT !.step = "confirm"]]
      BY <1>7 DEF PutAccepted
    <2>3. job' \in [Devices -> Jobs]
      BY <1>0, <2>1, <2>2 DEF TypeOK
    <2>4. job'[d].sync.rev = job[d].sync.rev /\ \A e \in Devices \ {d} : job'[e] = job[e]
      BY <1>0, <2>2 DEF TypeOK, Jobs
    <2>5. \A e \in Devices : job'[e].step = "confirm" => job'[e].sync.rev < MaxVersion
      BY <1>6, <1>7, <2>4 DEF PutAccepted, Types
    <2> QED BY <1>0, <1>6, <1>7, <2>3, <2>5 DEF PutAccepted, Types, TypeOK
  <1>8. CASE PutUnanswered(d)
    BY <1>0, <1>n, <1>6, <1>8, JobTyped DEF PutUnanswered, Types, TypeOK
  <1>9. CASE PutRefused(d)
    BY <1>0, <1>n, <1>9, JobTyped DEF PutRefused, Types, TypeOK
  <1>10. CASE Confirm(d)
    <2> DEFINE sync == Sync(remote.version, job[d].sync.rev + 1, FALSE)
    <2>0. job[d].sync.rev + 1 \in Versions
      BY <1>0, <1>10, BoundsAssumption DEF Confirm, Types, Versions
    <2>1. [memory[d] EXCEPT !.sync = sync] \in Payloads
      BY <1>0, <2>0, SyncTyped DEF Payloads
    <2>2. Saved(d, [memory[d] EXCEPT !.sync = sync], {"sync"})
            /\ job' = [job EXCEPT ![d] = NoJob]
      BY <1>10 DEF Confirm
    <2> HIDE DEF sync
    <2> QED BY <1>0, <1>n, <1>10, <2>1, <2>2, SavedTyped, JobTyped DEF Confirm, Types, TypeOK
  <1> QED BY <1>1, <1>2, <1>3, <1>4, <1>5, <1>7, <1>8, <1>9, <1>10 DEF Backup

LEMMA CommitTyped == ASSUME Types, NEW d \in Devices, Commit(d) PROVE Types'
  <1>0. /\ TypeOK /\ vault[d] \in Payloads /\ queue[d] \in Seq(Saves) /\ queue[d] # <<>>
        /\ job[d] \in Jobs
    BY DEF Types, TypeOK, Commit
  <1>1. Head(queue[d]) \in Saves /\ Tail(queue[d]) \in Seq(Saves)
    BY <1>0
  <1>2. vault' \in [Devices -> Payloads]
    BY <1>0, <1>1, AppliedTyped DEF Commit, TypeOK
  <1>3. queue' \in [Devices -> Seq(Saves)]
    BY <1>0, <1>1 DEF Commit, TypeOK
  <1> DEFINE await == IF job[d].await = 0 THEN 0 ELSE job[d].await - 1
             j == [job[d] EXCEPT !.await = await]
  <1>4. await \in Nat
    BY <1>0 DEF Jobs
  <1>5. job' = [job EXCEPT ![d] = j]
    BY DEF Commit
  <1> HIDE DEF await
  <1>6. j \in Jobs /\ j.step = job[d].step /\ j.sync = job[d].sync
    BY <1>0, <1>4 DEF Jobs
  <1> HIDE DEF j
  <1>7. /\ job' \in [Devices -> Jobs]
        /\ \A e \in Devices : job'[e].step = job[e].step /\ job'[e].sync = job[e].sync
    BY <1>0, <1>5, <1>6 DEF TypeOK
  <1> QED BY <1>0, <1>2, <1>3, <1>7 DEF Commit, Types, TypeOK

LEMMA DownloadTyped == ASSUME Types, NEW d \in Devices, Download(d) PROVE Types'
  <1> DEFINE sync == Sync(remote.version, remote.rev, FALSE)
             taken == [edits |-> remote.edits, sync |-> sync]
  <1>1. /\ TypeOK /\ remote.version \in Versions /\ remote.rev \in Versions
        /\ remote.edits \in SUBSET Edits
    BY DEF Types, TypeOK
  <1>2. taken \in Payloads /\ RestoredFields \in SUBSET Fields
    BY <1>1, SyncTyped DEF Payloads, RestoredFields, Fields
  <1>3. Saved(d, taken, RestoredFields) /\ job' = [job EXCEPT ![d] = NoJob]
    BY DEF Download
  <1> HIDE DEF taken
  <1>4. /\ job' \in [Devices -> Jobs]
        /\ \A e \in Devices : job'[e].step = "confirm" => job'[e].sync.rev < MaxVersion
    BY <1>3, EmptyTyped, JobTyped
  <1> QED BY <1>1, <1>2, <1>3, <1>4, SavedTyped DEF Download, Types, TypeOK, Statuses

LEMMA FailJobTyped == ASSUME Types, NEW d \in Devices, FailJob(d) PROVE Types'
  <1>1. /\ job' \in [Devices -> Jobs]
        /\ \A e \in Devices : job'[e].step = "confirm" => job'[e].sync.rev < MaxVersion
    BY EmptyTyped, JobTyped DEF FailJob
  <1>2. status' \in [Devices -> Statuses]
    BY DEF FailJob, Types, TypeOK, Statuses
  <1> QED BY <1>1, <1>2 DEF FailJob, vaultVars, Types, TypeOK

LEMMA TypesInit == Init => Types
  <1> SUFFICES ASSUME Init PROVE Types
    OBVIOUS
  <1>1. 0 \in Versions
    BY BoundsAssumption DEF Versions
  <1>2. <<>> \in Seq(Saves) /\ "disabled" \in Statuses
    BY DEF Statuses
  <1> QED BY <1>1, <1>2, EmptyTyped DEF Init, Types, TypeOK

LEMMA TypesStep == Types /\ [Next]_vars => Types'
  <1> SUFFICES ASSUME Types, [Next]_vars PROVE Types'
    OBVIOUS
  <1>1. CASE UNCHANGED vars
    BY <1>1 DEF vars, Types, TypeOK
  <1>2. CASE Next
    BY <1>2, UserTyped, CheckTyped, BackupTyped, CommitTyped, DownloadTyped, FailJobTyped
       DEF Next
  <1> QED BY <1>1, <1>2

(* Every variable keeps its type.                                           *)
THEOREM TypeCorrect == Spec => []TypeOK
  BY TypesInit, TypesStep, PTL DEF Spec, Types

----------------------------------------------------------------------------
(* The value v a field f has once the first n saves of q are written to a    *)
(* vault that holds base: that of the last save that names it, or base's.    *)
Comes(q, n, base, f, v) ==
  /\ (\A i \in 1..n : f \notin q[i].fields) => base[f] = v
  /\ \A i \in 1..n : f \in q[i].fields /\ (\A j \in 1..n : f \in q[j].fields => j <= i)
        => q[i].payload[f] = v

(* One more save decides the fields it names.                               *)
LEMMA ComesAppend ==
    ASSUME NEW q \in Seq(Saves), NEW save \in Saves, NEW base, NEW f, NEW v, NEW w,
           Comes(q, Len(q), base, f, v),
           f \in save.fields => w = save.payload[f], f \notin save.fields => w = v
    PROVE  Comes(Append(q, save), Len(q) + 1, base, f, w)
  <1> DEFINE p == Append(q, save)
             n == Len(q)
  <1>1. n \in Nat /\ p[n + 1] = save /\ \A i \in 1..n : p[i] = q[i]
    OBVIOUS
  <1> HIDE DEF p, n
  <1>2. CASE f \in save.fields
    <2>1. \A i \in 1..(n + 1) : (\A j \in 1..(n + 1) : f \in p[j].fields => j <= i) => i = n + 1
      BY <1>1, <1>2
    <2>2. n + 1 \in 1..(n + 1) /\ f \in p[n + 1].fields
      BY <1>1, <1>2
    <2>3. Comes(p, n + 1, base, f, w)
      BY <1>1, <1>2, <2>1, <2>2 DEF Comes
    <2> QED BY <2>3 DEF p, n
  <1>3. CASE f \notin save.fields
    <2>1. \A i \in 1..(n + 1) : f \in p[i].fields => i \in 1..n /\ p[i] = q[i]
      BY <1>1, <1>3
    <2>2. Comes(q, n, base, f, v)
      BY DEF n
    <2>3. (\A i \in 1..(n + 1) : f \notin p[i].fields) => base[f] = v
      BY <1>1, <2>2 DEF Comes
    <2>4. ASSUME NEW i \in 1..(n + 1), f \in p[i].fields,
                 \A j \in 1..(n + 1) : f \in p[j].fields => j <= i
          PROVE  p[i].payload[f] = v
      <3>1. i \in 1..n /\ f \in q[i].fields /\ \A j \in 1..n : f \in q[j].fields => j <= i
        BY <1>1, <2>1, <2>4
      <3> QED BY <2>1, <2>2, <2>4, <3>1 DEF Comes
    <2>5. Comes(p, n + 1, base, f, w)
      BY <1>3, <2>3, <2>4 DEF Comes
    <2> QED BY <2>5 DEF p, n
  <1> QED BY <1>2, <1>3

(* Saves that come later change nothing of what the first n leave.           *)
LEMMA ComesEarlier ==
    ASSUME NEW q \in Seq(Saves), NEW save, NEW n \in 0..Len(q), NEW base, NEW f, NEW v,
           Comes(q, n, base, f, v)
    PROVE  Comes(Append(q, save), n, base, f, v)
  <1>1. \A i \in 1..n : Append(q, save)[i] = q[i]
    OBVIOUS
  <1> QED BY <1>1 DEF Comes

(* Writing the oldest save leaves what is to come.                           *)
LEMMA ComesTail ==
    ASSUME NEW q \in Seq(Saves), q # <<>>, NEW n \in 1..Len(q), NEW base \in Payloads,
           NEW f \in Fields, NEW v, Comes(q, n, base, f, v)
    PROVE  Comes(Tail(q), n - 1, Applied(base, Head(q)), f, v)
  <1> DEFINE t == Tail(q)
             new == Applied(base, Head(q))
  <1>1. /\ n \in Nat /\ Head(q) = q[1] /\ q[1] \in Saves
        /\ \A i \in 1..(n - 1) : i + 1 \in 1..n /\ t[i] = q[i + 1]
    OBVIOUS
  <1>2. new[f] = IF f \in q[1].fields THEN q[1].payload[f] ELSE base[f]
    BY <1>1, AppliedTyped
  <1>3. \A j \in 1..n : j = 1 \/ (j - 1 \in 1..(n - 1) /\ t[j - 1] = q[j])
    BY <1>1
  <1> HIDE DEF t, new
  <1>4. ASSUME \A i \in 1..(n - 1) : f \notin t[i].fields PROVE new[f] = v
    <2>1. \A j \in 1..n : f \in q[j].fields => j = 1
      BY <1>3, <1>4
    <2>2. 1 \in 1..n
      OBVIOUS
    <2>3. CASE f \in q[1].fields
      <3>1. \A j \in 1..n : f \in q[j].fields => j <= 1
        BY <2>1
      <3>2. q[1].payload[f] = v
        BY <2>2, <2>3, <3>1 DEF Comes
      <3> QED BY <1>2, <2>3, <3>2
    <2>4. CASE f \notin q[1].fields
      BY <1>2, <2>1, <2>4 DEF Comes
    <2> QED BY <2>3, <2>4
  <1>5. ASSUME NEW i \in 1..(n - 1), f \in t[i].fields,
               \A j \in 1..(n - 1) : f \in t[j].fields => j <= i
        PROVE  t[i].payload[f] = v
    <2>1. i + 1 \in 1..n /\ f \in q[i + 1].fields
      BY <1>1, <1>5
    <2>2. ASSUME NEW j \in 1..n, f \in q[j].fields PROVE j <= i + 1
      <3>1. CASE j = 1
        BY <3>1
      <3>2. CASE j - 1 \in 1..(n - 1) /\ t[j - 1] = q[j]
        <4>1. j - 1 <= i
          BY <1>5, <2>2, <3>2
        <4> QED BY <4>1
      <3> QED BY <1>3, <3>1, <3>2
    <2>3. q[i + 1].payload[f] = v
      BY <2>1, <2>2 DEF Comes
    <2> QED BY <1>1, <2>3
  <1>6. Comes(t, n - 1, new, f, v)
    BY <1>4, <1>5 DEF Comes
  <1> QED BY <1>6 DEF t, new

(* An unlocked device: its queue brings the vault to what is in memory.      *)
Stored(d) ==
  key[d] => \A f \in Fields : Comes(queue[d], Len(queue[d]), vault[d], f, memory[d][f])

AllStored == \A d \in Devices : Stored(d)

LEMMA StoredIsShown == Types /\ AllStored => MemoryIsStored
  <1> SUFFICES ASSUME Types, AllStored, NEW d \in Devices, key[d], NEW f \in Fields
               PROVE  WillBe(d, f, memory[d][f])
    BY DEF MemoryIsStored, Fields
  <1>1. queue[d] \in Seq(Saves)
    BY DEF Types, TypeOK
  <1>2. DOMAIN queue[d] = 1..Len(queue[d])
    BY <1>1
  <1>3. Comes(queue[d], Len(queue[d]), vault[d], f, memory[d][f])
    BY DEF AllStored, Stored
  <1> QED BY <1>2, <1>3 DEF Comes, WillBe, Naming

(* What a save does to its own device.                                      *)
LEMMA SavedHere ==
    ASSUME TypeOK, NEW d \in Devices, NEW payload, NEW fields, Saved(d, payload, fields)
    PROVE  /\ memory'[d] = payload /\ key'[d] = key[d] /\ vault'[d] = vault[d]
           /\ key[d] => queue'[d] = Append(queue[d], [fields |-> fields, payload |-> payload])
           /\ ~key[d] => queue'[d] = queue[d]
  BY DEF Saved, TypeOK

(* A save that names every field it changed.                                *)
LEMMA SavedIsStored ==
    ASSUME TypeOK, NEW d \in Devices, NEW payload \in Payloads, NEW fields \in SUBSET Fields,
           Saved(d, payload, fields), Stored(d),
           \A f \in Fields \ fields : payload[f] = memory[d][f]
    PROVE  Stored(d)'
  <1> DEFINE save == [fields |-> fields, payload |-> payload]
  <1>1. save \in Saves /\ save.fields = fields /\ save.payload = payload
    BY DEF Saves, Fields
  <1>2. queue[d] \in Seq(Saves)
    BY DEF TypeOK
  <1> HIDE DEF save
  <1>3. SUFFICES ASSUME key[d], NEW f \in Fields
                 PROVE  Comes(queue'[d], Len(queue'[d]), vault'[d], f, memory'[d][f])
    BY SavedHere DEF Stored
  <1>4. Comes(queue[d], Len(queue[d]), vault[d], f, memory[d][f])
    BY <1>3 DEF Stored
  <1>5. Comes(Append(queue[d], save), Len(queue[d]) + 1, vault[d], f, payload[f])
    BY <1>1, <1>2, <1>4, ComesAppend
  <1>6. /\ memory'[d] = payload /\ vault'[d] = vault[d]
        /\ queue'[d] = Append(queue[d], save)
    BY <1>3, SavedHere DEF save
  <1>7. Len(queue'[d]) = Len(queue[d]) + 1
    BY <1>1, <1>2, <1>6
  <1> QED BY <1>5, <1>6, <1>7
(* A step of one device.                                                    *)
Step(d) == User(d) \/ Commit(d) \/ Check(d) \/ Backup(d) \/ Download(d) \/ FailJob(d)

(* It leaves the vault, the queue and the job of the others alone.           *)
LEMMA OthersUntouched ==
    ASSUME Types, NEW d \in Devices, Step(d), NEW e \in Devices \ {d}
    PROVE  /\ key'[e] = key[e] /\ memory'[e] = memory[e] /\ vault'[e] = vault[e]
           /\ queue'[e] = queue[e] /\ job'[e] = job[e]
  <1> USE DEF Types, TypeOK, vaultVars
  <1>0. ASSUME NEW payload, NEW fields, Saved(d, payload, fields)
        PROVE  /\ key'[e] = key[e] /\ memory'[e] = memory[e] /\ vault'[e] = vault[e]
               /\ queue'[e] = queue[e]
    BY <1>0 DEF Saved
  <1>1. CASE User(d)
    <2>1. ASSUME NEW x \in Edits, Write(d, x)
          PROVE  job' = job /\ \E payload, fields : Saved(d, payload, fields)
      BY <2>1 DEF Write
    <2>2. CASE Disable(d)
      BY <1>0, <2>2 DEF Disable
    <2>3. CASE Lock(d) \/ Unlock(d) \/ Reload(d)
      BY <2>3 DEF Lock, Unlock, Reload
    <2>4. CASE BeginBackup(d) \/ KeepLocal(d) \/ BeginRestore(d)
      BY <2>4 DEF BeginBackup, KeepLocal, StartPush, BeginRestore
    <2> QED BY <1>0, <1>1, <2>1, <2>2, <2>3, <2>4 DEF User
  <1>2. CASE Commit(d)
    BY <1>2 DEF Commit
  <1>3. CASE Check(d)
    BY <1>3 DEF Check, StartCheck, AnswerCheck, FailCheck, Answered, ApplyCheck
  <1>4. CASE Backup(d)
    <2>1. CASE FirstBackupRefused(d) \/ Confirm(d)
      <3>1. job'[e] = job[e] /\ \E payload, fields : Saved(d, payload, fields)
        BY <2>1 DEF FirstBackupRefused, Confirm
      <3> QED BY <1>0, <3>1
    <2>2. CASE BackupSurveyed(d)
      BY <2>2 DEF BackupSurveyed, StartPush
    <2>3. CASE PushLocked(d) \/ ReadForUpload(d) \/ Refetch(d)
      BY <2>3 DEF PushLocked, ReadForUpload, ReadStored, Refetch
    <2>4. CASE PutAccepted(d) \/ PutUnanswered(d) \/ PutRefused(d)
      BY <2>4 DEF PutAccepted, PutUnanswered, PutRefused
    <2> QED BY <1>4, <2>1, <2>2, <2>3, <2>4 DEF Backup
  <1>5. CASE Download(d)
    <2>1. job'[e] = job[e] /\ \E payload, fields : Saved(d, payload, fields)
      BY <1>5 DEF Download
    <2> QED BY <1>0, <2>1
  <1>6. CASE FailJob(d)
    BY <1>6 DEF FailJob
  <1> QED BY <1>1, <1>2, <1>3, <1>4, <1>5, <1>6 DEF Step

(* A step that touches neither the vault nor the memory.                    *)
LEMMA StoredStays ==
    ASSUME NEW d \in Devices, Stored(d), key'[d] = key[d], memory'[d] = memory[d],
           vault'[d] = vault[d], queue'[d] = queue[d]
    PROVE  Stored(d)'
  BY DEF Stored

LEMMA CommitStored ==
    ASSUME Types, NEW d \in Devices, Stored(d), Commit(d) PROVE Stored(d)'
  <1>1. /\ queue[d] \in Seq(Saves) /\ queue[d] # <<>> /\ vault[d] \in Payloads
        /\ key'[d] = key[d] /\ memory'[d] = memory[d]
        /\ vault'[d] = Applied(vault[d], Head(queue[d])) /\ queue'[d] = Tail(queue[d])
    BY DEF Commit, Types, TypeOK
  <1>2. SUFFICES ASSUME key[d], NEW f \in Fields
                 PROVE  Comes(Tail(queue[d]), Len(Tail(queue[d])),
                              Applied(vault[d], Head(queue[d])), f, memory[d][f])
    BY <1>1 DEF Stored
  <1>3. Len(queue[d]) \in 1..Len(queue[d]) /\ Len(Tail(queue[d])) = Len(queue[d]) - 1
    BY <1>1
  <1>4. Comes(queue[d], Len(queue[d]), vault[d], f, memory[d][f])
    BY <1>2 DEF Stored
  <1>5. Comes(Tail(queue[d]), Len(queue[d]) - 1, Applied(vault[d], Head(queue[d])), f,
              memory[d][f])
    BY <1>1, <1>3, <1>4, ComesTail
  <1> QED BY <1>3, <1>5

LEMMA UserStored ==
    ASSUME Types, NEW d \in Devices, Stored(d), User(d) PROVE Stored(d)'
  <1> USE DEF vaultVars
  <1>0. /\ TypeOK /\ memory[d] \in Payloads /\ memory[d].sync \in Settings
        /\ memory[d].edits \in SUBSET Edits
    BY DEF Types, TypeOK, Payloads
  <1>1. ASSUME NEW e \in Edits, Write(d, e) PROVE Stored(d)'
    <2> DEFINE sync == IF memory[d].sync.on THEN [memory[d].sync EXCEPT !.dirty = TRUE]
                       ELSE memory[d].sync
               next == [edits |-> memory[d].edits \union {e}, sync |-> sync]
               fields == IF sync.on THEN {"edits", "sync"} ELSE {"edits"}
    <2>1. sync \in Settings
      BY <1>0 DEF Settings
    <2>2. next \in Payloads /\ fields \in SUBSET Fields
      BY <1>0, <2>1 DEF Payloads, Fields
    <2>3. Saved(d, next, fields)
      BY <1>1 DEF Write
    <2>4. \A f \in Fields \ fields : next[f] = memory[d][f]
      <3>1. CASE sync.on
        BY <3>1 DEF Fields
      <3>2. CASE ~sync.on
        <4>1. sync = memory[d].sync
          BY <1>0, <3>2 DEF Settings
        <4>2. next["sync"] = memory[d]["sync"]
          BY <4>1
        <4> QED BY <3>2, <4>2 DEF Fields
      <3> QED BY <3>1, <3>2
    <2> HIDE DEF sync, next, fields
    <2> QED BY <1>0, <2>2, <2>3, <2>4, SavedIsStored
  <1>2. CASE Disable(d)
    <2> DEFINE next == [memory[d] EXCEPT !.sync = NoSync]
    <2>1. next \in Payloads /\ {"sync"} \in SUBSET Fields /\ next["edits"] = memory[d]["edits"]
      BY <1>0, SyncTyped DEF Payloads, Fields
    <2>2. Saved(d, next, {"sync"})
      BY <1>2 DEF Disable
    <2>3. \A f \in Fields \ {"sync"} : next[f] = memory[d][f]
      BY <2>1 DEF Fields
    <2> HIDE DEF next
    <2> QED BY <1>0, <2>1, <2>2, <2>3, SavedIsStored
  <1>3. CASE Lock(d) \/ Reload(d)
    BY <1>0, <1>3 DEF Lock, Reload, Stored, TypeOK
  <1>4. CASE Unlock(d)
    <2>1. queue'[d] = <<>> /\ vault'[d] = memory'[d] /\ Len(queue'[d]) = 0
      BY <1>0, <1>4 DEF Unlock, TypeOK
    <2> QED BY <2>1 DEF Stored, Comes
  <1>5. CASE BeginBackup(d) \/ KeepLocal(d) \/ BeginRestore(d)
    BY <1>5, StoredStays DEF BeginBackup, KeepLocal, StartPush, BeginRestore
  <1> QED BY <1>1, <1>2, <1>3, <1>4, <1>5 DEF User

LEMMA BackupStored ==
    ASSUME Types, NEW d \in Devices, Stored(d), Backup(d) PROVE Stored(d)'
  <1> USE DEF vaultVars
  <1>0. /\ TypeOK /\ memory[d] \in Payloads /\ {"sync"} \in SUBSET Fields
        /\ job[d] \in Jobs /\ job[d].sync.rev \in Nat
        /\ remote.version \in Versions /\ remote.rev \in Versions
    BY DEF Types, TypeOK, Jobs, Settings, Versions, Fields
  <1>1. ASSUME NEW sync \in Settings, Saved(d, [memory[d] EXCEPT !.sync = sync], {"sync"})
        PROVE  Stored(d)'
    <2> DEFINE next == [memory[d] EXCEPT !.sync = sync]
    <2>1. next \in Payloads /\ next["edits"] = memory[d]["edits"]
      BY <1>0 DEF Payloads
    <2>2. \A f \in Fields \ {"sync"} : next[f] = memory[d][f]
      BY <2>1 DEF Fields
    <2>3. Saved(d, next, {"sync"})
      BY <1>1
    <2> HIDE DEF next
    <2> QED BY <1>0, <2>1, <2>2, <2>3, SavedIsStored
  <1>2. CASE FirstBackupRefused(d)
    <2>1. Sync(remote.version, remote.rev, TRUE) \in Settings
      BY <1>0, SyncTyped
    <2> QED BY <1>1, <1>2, <2>1 DEF FirstBackupRefused
  <1>3. CASE Confirm(d)
    <2>1. job[d].sync.rev + 1 \in Versions
      BY <1>0, <1>3, BoundsAssumption DEF Confirm, Types, Versions
    <2>2. Sync(remote.version, job[d].sync.rev + 1, FALSE) \in Settings
      BY <1>0, <2>1, SyncTyped
    <2> QED BY <1>1, <1>3, <2>2 DEF Confirm
  <1>4. CASE BackupSurveyed(d) \/ PushLocked(d) \/ ReadForUpload(d) \/ Refetch(d)
    BY <1>4, StoredStays DEF BackupSurveyed, StartPush, PushLocked, ReadForUpload, ReadStored,
                             Refetch
  <1>5. CASE PutAccepted(d) \/ PutUnanswered(d) \/ PutRefused(d)
    BY <1>5, StoredStays DEF PutAccepted, PutUnanswered, PutRefused
  <1> QED BY <1>2, <1>3, <1>4, <1>5 DEF Backup

LEMMA DownloadStored ==
    ASSUME Types, NEW d \in Devices, Stored(d), Download(d) PROVE Stored(d)'
  <1> DEFINE taken == [edits |-> remote.edits,
                       sync |-> Sync(remote.version, remote.rev, FALSE)]
  <1>1. /\ TypeOK /\ remote.version \in Versions /\ remote.rev \in Versions
        /\ remote.edits \in SUBSET Edits
    BY DEF Types, TypeOK
  <1>2. taken \in Payloads /\ RestoredFields = Fields
    BY <1>1, SyncTyped DEF Payloads, RestoredFields, Fields
  <1>3. Saved(d, taken, RestoredFields)
    BY DEF Download
  <1> HIDE DEF taken
  <1> QED BY <1>1, <1>2, <1>3, SavedIsStored

LEMMA StoredStep == Types /\ AllStored /\ [Next]_vars => AllStored'
  <1> SUFFICES ASSUME Types, AllStored, [Next]_vars, NEW e \in Devices PROVE Stored(e)'
    BY DEF AllStored
  <1>0. Stored(e)
    BY DEF AllStored
  <1>1. CASE UNCHANGED vars
    BY <1>0, <1>1, StoredStays DEF vars
  <1>2. ASSUME NEW d \in Devices, Step(d) PROVE Stored(e)'
    <2>1. CASE e # d
      <3>1. e \in Devices \ {d}
        BY <2>1
      <3> QED BY <1>0, <1>2, <3>1, OthersUntouched, StoredStays
    <2>2. CASE e = d
      <3>1. CASE Check(d) \/ FailJob(d)
        BY <1>0, <2>2, <3>1, StoredStays DEF Check, StartCheck, AnswerCheck, FailCheck,
                                             Answered, ApplyCheck, FailJob, vaultVars
      <3> QED BY <1>0, <1>2, <2>2, <3>1, UserStored, CommitStored, BackupStored, DownloadStored
                 DEF Step
    <2> QED BY <2>1, <2>2
  <1> QED BY <1>1, <1>2 DEF Next, Step

LEMMA StoredInit == Init => AllStored
  <1> SUFFICES ASSUME Init, NEW d \in Devices PROVE Stored(d)
    BY DEF AllStored
  <1>1. queue[d] = <<>> /\ Len(queue[d]) = 0 /\ vault[d] = memory[d]
    BY DEF Init
  <1> QED BY <1>1 DEF Stored, Comes

(* What an unlocked device shows is what its vault holds once its queue is   *)
(* written: every save of VaultProvider names all the fields it changed.     *)
THEOREM ScreenIsStored == Spec => []MemoryIsStored
  BY TypesInit, TypesStep, StoredInit, StoredStep, StoredIsShown, PTL DEF Spec

----------------------------------------------------------------------------
(* Once the first n saves of q are written the stored edits include the      *)
(* asked ones, and no later save takes them away.                            *)
Due(q, n, base, asked) ==
  /\ \E v : asked \subseteq v /\ Comes(q, n, base, "edits", v)
  /\ \A i \in (n + 1)..Len(q) : "edits" \in q[i].fields => asked \subseteq q[i].payload.edits

(* The saves the upload waits for: all of them until it has its turn.        *)
Awaited(d) == IF job[d].step = "read" THEN job[d].await ELSE Len(queue[d])

Carried(d) ==
  job[d].asked # {} =>
    /\ job[d].step \in {"survey", "read"} =>
        /\ key[d] => job[d].asked \subseteq memory[d].edits
        /\ Awaited(d) <= Len(queue[d])
        /\ Due(queue[d], Awaited(d), vault[d], job[d].asked)
    /\ job[d].step \in {"refetch", "put"} => job[d].asked \subseteq job[d].edits

AllCarried == \A d \in Devices : Carried(d)

(* A new save comes after the awaited ones.                                  *)
LEMMA DueAppend ==
    ASSUME NEW q \in Seq(Saves), NEW save \in Saves, NEW n \in 0..Len(q), NEW base, NEW asked,
           Due(q, n, base, asked), "edits" \in save.fields => asked \subseteq save.payload.edits
    PROVE  Due(Append(q, save), n, base, asked)
  <1>1. PICK v : asked \subseteq v /\ Comes(q, n, base, "edits", v)
    BY DEF Due
  <1>2. Comes(Append(q, save), n, base, "edits", v)
    BY <1>1, ComesEarlier
  <1>3. \A i \in (n + 1)..Len(Append(q, save)) :
            \/ i \in (n + 1)..Len(q) /\ Append(q, save)[i] = q[i]
            \/ Append(q, save)[i] = save
    OBVIOUS
  <1>4. \A i \in (n + 1)..Len(q) : "edits" \in q[i].fields => asked \subseteq q[i].payload.edits
    BY DEF Due
  <1>5. \A i \in (n + 1)..Len(Append(q, save)) : "edits" \in Append(q, save)[i].fields
            => asked \subseteq Append(q, save)[i].payload.edits
    BY <1>3, <1>4
  <1> QED BY <1>1, <1>2, <1>5 DEF Due

(* Or is awaited as well.                                                    *)
LEMMA DueAppendLast ==
    ASSUME NEW q \in Seq(Saves), NEW save \in Saves, NEW base, NEW asked,
           Due(q, Len(q), base, asked), "edits" \in save.fields
             => asked \subseteq save.payload.edits
    PROVE  Due(Append(q, save), Len(Append(q, save)), base, asked)
  <1>1. PICK v : asked \subseteq v /\ Comes(q, Len(q), base, "edits", v)
    BY DEF Due
  <1>2. Len(q) \in Nat /\ Len(Append(q, save)) = Len(q) + 1
    OBVIOUS
  <1>3. \A i \in (Len(q) + 1 + 1)..(Len(q) + 1) : FALSE
    BY <1>2
  <1>4. CASE "edits" \in save.fields
    <2>1. Comes(Append(q, save), Len(q) + 1, base, "edits", save.payload["edits"])
      BY <1>1, <1>4, ComesAppend
    <2>2. asked \subseteq save.payload["edits"]
      BY <1>4
    <2> QED BY <1>2, <1>3, <2>1, <2>2 DEF Due
  <1>5. CASE "edits" \notin save.fields
    <2>1. Comes(Append(q, save), Len(q) + 1, base, "edits", v)
      BY <1>1, <1>5, ComesAppend
    <2> QED BY <1>1, <1>2, <1>3, <2>1 DEF Due
  <1> QED BY <1>4, <1>5

(* Writing the oldest save, awaited or not.                                  *)
LEMMA DueTail ==
    ASSUME NEW q \in Seq(Saves), q # <<>>, NEW n \in 0..Len(q), NEW base \in Payloads,
           NEW asked, Due(q, n, base, asked)
    PROVE  Due(Tail(q), IF n = 0 THEN 0 ELSE n - 1, Applied(base, Head(q)), asked)
  <1> DEFINE t == Tail(q)
             new == Applied(base, Head(q))
  <1>1. PICK v : asked \subseteq v /\ Comes(q, n, base, "edits", v)
    BY DEF Due
  <1>2. /\ n \in Nat /\ Head(q) = q[1] /\ q[1] \in Saves /\ 1 \in 1..Len(q)
        /\ \A i \in 1..Len(t) : i + 1 \in 1..Len(q) /\ t[i] = q[i + 1]
    OBVIOUS
  <1>3. "edits" \in Fields
    BY DEF Fields
  <1>4. \A i \in (n + 1)..Len(q) : "edits" \in q[i].fields
          => asked \subseteq q[i].payload["edits"]
    BY DEF Due
  <1>5. CASE n = 0
    <2>1. base["edits"] = v
      BY <1>1, <1>5 DEF Comes
    <2>2. new["edits"] = IF "edits" \in q[1].fields THEN q[1].payload["edits"]
            ELSE base["edits"]
      BY <1>2, <1>3, AppliedTyped
    <2>3. 1 \in (n + 1)..Len(q)
      BY <1>2, <1>5
    <2>4. asked \subseteq new["edits"]
      BY <1>1, <1>4, <2>1, <2>2, <2>3
    <2>5. Comes(t, 0, new, "edits", new["edits"])
      BY DEF Comes
    <2>6. \A i \in 1..Len(t) : "edits" \in t[i].fields => asked \subseteq t[i].payload["edits"]
      BY <1>2, <1>4, <1>5
    <2> HIDE DEF t, new
    <2>7. Due(t, 0, new, asked)
      BY <2>4, <2>5, <2>6 DEF Due
    <2> QED BY <1>5, <2>7 DEF t, new
  <1>6. CASE n # 0
    <2>1. n \in 1..Len(q) /\ n - 1 \in Nat
      BY <1>2, <1>6
    <2>2. Comes(t, n - 1, new, "edits", v)
      BY <1>1, <1>3, <2>1, ComesTail
    <2>3. \A i \in (n - 1 + 1)..Len(t) : i \in 1..Len(t) /\ i + 1 \in (n + 1)..Len(q)
      BY <2>1, <1>2
    <2>4. \A i \in (n - 1 + 1)..Len(t) : "edits" \in t[i].fields
              => asked \subseteq t[i].payload["edits"]
      BY <1>2, <1>4, <2>3
    <2> HIDE DEF t, new
    <2>5. Due(t, n - 1, new, asked)
      BY <1>1, <2>2, <2>4 DEF Due
    <2> QED BY <1>6, <2>5 DEF t, new
  <1> QED BY <1>5, <1>6

(* With an empty queue everything asked is stored.                          *)
LEMMA DueNow ==
    ASSUME NEW q, NEW n \in Nat, n <= Len(q), Len(q) = 0, NEW base, NEW asked,
           Due(q, n, base, asked)
    PROVE  asked \subseteq base.edits
  <1>1. n = 0
    OBVIOUS
  <1>2. PICK v : asked \subseteq v /\ Comes(q, 0, base, "edits", v)
    BY <1>1 DEF Due
  <1>3. base["edits"] = v
    BY <1>2 DEF Comes
  <1> QED BY <1>2, <1>3

LEMMA CarriedStays ==
    ASSUME NEW d \in Devices, Carried(d), key'[d] = key[d], memory'[d] = memory[d],
           vault'[d] = vault[d], queue'[d] = queue[d], job'[d] = job[d]
    PROVE  Carried(d)'
  BY DEF Carried, Awaited

(* A job that ends carries nothing.                                         *)
LEMMA CarriedEnds ==
    ASSUME NEW d \in Devices, job'[d].asked = {} PROVE Carried(d)'
  BY DEF Carried

(* A save on a device that goes on showing the asked edits.                  *)
LEMMA SavedIsCarried ==
    ASSUME Types, NEW d \in Devices, NEW payload \in Payloads, NEW fields \in SUBSET Fields,
           Saved(d, payload, fields), Carried(d), job'[d] = job[d],
           memory[d].edits \subseteq payload.edits
    PROVE  Carried(d)'
  <1> DEFINE save == [fields |-> fields, payload |-> payload]
             asked == job[d].asked
  <1>1. save \in Saves /\ save.fields = fields /\ save.payload = payload
    BY DEF Saves, Fields
  <1>2. TypeOK /\ queue[d] \in Seq(Saves) /\ job[d] \in Jobs
    BY DEF Types, TypeOK
  <1>3. /\ memory'[d] = payload /\ key'[d] = key[d] /\ vault'[d] = vault[d]
        /\ key[d] => queue'[d] = Append(queue[d], save)
        /\ ~key[d] => queue'[d] = queue[d]
    BY <1>2, SavedHere
  <1>4. CASE asked # {} /\ job[d].step \in {"survey", "read"}
    <2>1. /\ key[d] => asked \subseteq memory[d].edits
          /\ Awaited(d) <= Len(queue[d])
          /\ Due(queue[d], Awaited(d), vault[d], asked)
      BY <1>4 DEF Carried
    <2>2. key'[d] => asked \subseteq memory'[d].edits
      BY <1>3, <2>1
    <2>3. CASE ~key[d]
      BY <1>3, <1>4, <2>1, <2>2, <2>3 DEF Carried, Awaited
    <2>4. CASE key[d]
      <3> HIDE DEF save
      <3>1. asked \subseteq save.payload.edits
        BY <1>1, <2>1, <2>4
      <3>2. queue'[d] = Append(queue[d], save) /\ Len(queue'[d]) = Len(queue[d]) + 1
        BY <1>1, <1>2, <1>3, <2>4 DEF save
      <3>3. CASE job[d].step = "read"
        <4>1. job[d].await \in 0..Len(queue[d]) /\ Awaited(d) = job[d].await
          BY <1>2, <2>1, <3>3 DEF Awaited, Jobs
        <4>2. Due(Append(queue[d], save), job[d].await, vault[d], asked)
          BY <1>1, <1>2, <2>1, <3>1, <4>1, DueAppend
        <4>3. job[d].await <= Len(queue[d]) + 1
          BY <1>2, <4>1
        <4> QED BY <1>3, <2>2, <3>2, <3>3, <4>2, <4>3 DEF Carried, Awaited
      <3>4. CASE job[d].step = "survey"
        <4>1. Awaited(d) = Len(queue[d])
          BY <3>4 DEF Awaited
        <4>2. Due(Append(queue[d], save), Len(Append(queue[d], save)), vault[d], asked)
          BY <1>1, <1>2, <2>1, <3>1, <4>1, DueAppendLast
        <4>3. Len(queue[d]) + 1 <= Len(queue[d]) + 1
          BY <1>2
        <4> QED BY <1>3, <2>2, <3>2, <3>4, <4>2, <4>3 DEF Carried, Awaited
      <3> QED BY <1>4, <3>3, <3>4
    <2> QED BY <2>3, <2>4
  <1>5. CASE ~(asked # {} /\ job[d].step \in {"survey", "read"})
    BY <1>5 DEF Carried
  <1> QED BY <1>4, <1>5

LEMMA UserCarried ==
    ASSUME Types, NEW d \in Devices, Stored(d), Carried(d), User(d) PROVE Carried(d)'
  <1> USE DEF vaultVars
  <1>0. /\ TypeOK /\ memory[d] \in Payloads /\ memory[d].sync \in Settings
        /\ memory[d].edits \in SUBSET Edits /\ job[d] \in Jobs /\ queue[d] \in Seq(Saves)
    BY DEF Types, TypeOK, Payloads
  <1>1. ASSUME NEW e \in Edits, Write(d, e) PROVE Carried(d)'
    <2> DEFINE sync == IF memory[d].sync.on THEN [memory[d].sync EXCEPT !.dirty = TRUE]
                       ELSE memory[d].sync
               next == [edits |-> memory[d].edits \union {e}, sync |-> sync]
               fields == IF sync.on THEN {"edits", "sync"} ELSE {"edits"}
    <2>1. sync \in Settings
      BY <1>0 DEF Settings
    <2>2. /\ next \in Payloads /\ fields \in SUBSET Fields
          /\ memory[d].edits \subseteq next.edits
      BY <1>0, <2>1 DEF Payloads, Fields
    <2>3. Saved(d, next, fields) /\ job' = job
      BY <1>1 DEF Write
    <2> HIDE DEF sync, next, fields
    <2> QED BY <2>2, <2>3, SavedIsCarried
  <1>2. CASE Disable(d)
    <2> DEFINE next == [memory[d] EXCEPT !.sync = NoSync]
    <2>1. /\ next \in Payloads /\ {"sync"} \in SUBSET Fields
          /\ memory[d].edits \subseteq next.edits
      BY <1>0, SyncTyped DEF Payloads, Fields
    <2>2. Saved(d, next, {"sync"}) /\ job' = job
      BY <1>2 DEF Disable
    <2> HIDE DEF next
    <2> QED BY <2>1, <2>2, SavedIsCarried
  <1>3. CASE Lock(d)
    <2>1. ~key'[d] /\ queue'[d] = queue[d] /\ vault'[d] = vault[d] /\ job'[d] = job[d]
      BY <1>0, <1>3 DEF Lock, TypeOK
    <2> QED BY <2>1 DEF Carried, Awaited
  <1>4. CASE Unlock(d)
    <2>1. /\ queue[d] = <<>> /\ queue'[d] = queue[d] /\ vault'[d] = vault[d]
          /\ memory'[d] = vault[d] /\ job'[d] = job[d] /\ Len(queue[d]) = 0
      BY <1>0, <1>4 DEF Unlock, TypeOK
    <2>2. CASE job[d].asked # {} /\ job[d].step \in {"survey", "read"}
      <3>1. Awaited(d) \in Nat
        BY <1>0, <2>1 DEF Awaited, Jobs
      <3>2. job[d].asked \subseteq vault[d].edits
        BY <2>1, <2>2, <3>1, DueNow DEF Carried
      <3> QED BY <2>1, <2>2, <3>2 DEF Carried, Awaited
    <2>3. CASE ~(job[d].asked # {} /\ job[d].step \in {"survey", "read"})
      BY <2>1, <2>3 DEF Carried
    <2> QED BY <2>2, <2>3
  <1>5. CASE Reload(d) \/ BeginRestore(d)
    <2>1. CASE Reload(d)
      BY <1>0, <2>1, CarriedEnds DEF Reload, NoJob, TypeOK
    <2>2. CASE BeginRestore(d)
      <3>1. job'[d].asked = {}
        BY <1>0, <2>2 DEF BeginRestore, NoJob, TypeOK
      <3> QED BY <3>1, CarriedEnds
    <2> QED BY <1>5, <2>1, <2>2
  <1>6. ASSUME key[d]
        PROVE  Due(queue[d], Len(queue[d]), vault[d], memory[d].edits)
    <2>1. Comes(queue[d], Len(queue[d]), vault[d], "edits", memory[d]["edits"])
      BY <1>6 DEF Stored, Fields
    <2>2. Len(queue[d]) \in Nat
      BY <1>0
    <2>3. \A i \in (Len(queue[d]) + 1)..Len(queue[d]) : FALSE
      BY <2>2
    <2>4. memory[d].edits \subseteq memory[d]["edits"]
      OBVIOUS
    <2> QED BY <2>1, <2>3, <2>4 DEF Due
  <1>7. CASE BeginBackup(d)
    <2>1. /\ key'[d] = key[d] /\ memory'[d] = memory[d] /\ queue'[d] = queue[d]
          /\ vault'[d] = vault[d] /\ job'[d].step = "survey"
          /\ job'[d].asked = IF key[d] THEN memory[d].edits ELSE {}
      BY <1>0, <1>7 DEF BeginBackup, NoJob, TypeOK
    <2>2. CASE ~key[d]
      BY <2>1, <2>2, CarriedEnds
    <2>3. CASE key[d]
      <3>1. Len(queue[d]) <= Len(queue[d])
        BY <1>0
      <3> QED BY <1>6, <2>1, <2>3, <3>1 DEF Carried, Awaited
    <2> QED BY <2>2, <2>3
  <1>8. CASE KeepLocal(d)
    <2>1. /\ key[d] /\ memory'[d] = memory[d] /\ queue'[d] = queue[d]
          /\ vault'[d] = vault[d] /\ job'[d].step = "read"
          /\ job'[d].asked = memory[d].edits /\ job'[d].await = Len(queue[d])
      BY <1>0, <1>8 DEF KeepLocal, StartPush, NoJob, TypeOK
    <2>2. Len(queue[d]) <= Len(queue[d])
      BY <1>0
    <2> QED BY <1>6, <2>1, <2>2 DEF Carried, Awaited
  <1> QED BY <1>1, <1>2, <1>3, <1>4, <1>5, <1>7, <1>8 DEF User

LEMMA CommitCarried ==
    ASSUME Types, NEW d \in Devices, Carried(d), Commit(d) PROVE Carried(d)'
  <1>1. /\ queue[d] \in Seq(Saves) /\ queue[d] # <<>> /\ vault[d] \in Payloads
        /\ job[d] \in Jobs /\ job[d].await \in Nat
        /\ key'[d] = key[d] /\ memory'[d] = memory[d]
        /\ vault'[d] = Applied(vault[d], Head(queue[d])) /\ queue'[d] = Tail(queue[d])
    BY DEF Commit, Types, TypeOK, Jobs
  <1>2. /\ job'[d].step = job[d].step /\ job'[d].asked = job[d].asked
        /\ job'[d].edits = job[d].edits
        /\ job'[d].await = IF job[d].await = 0 THEN 0 ELSE job[d].await - 1
    BY DEF Commit, Types, TypeOK, Jobs
  <1>3. Len(queue'[d]) = Len(queue[d]) - 1 /\ Len(queue[d]) \in Nat \ {0}
    BY <1>1
  <1>4. CASE job[d].asked # {} /\ job[d].step \in {"survey", "read"}
    <2>1. /\ key[d] => job[d].asked \subseteq memory[d].edits
          /\ Awaited(d) \in 0..Len(queue[d])
          /\ Due(queue[d], Awaited(d), vault[d], job[d].asked)
      BY <1>1, <1>3, <1>4 DEF Carried, Awaited
    <2>2. Due(queue'[d], IF Awaited(d) = 0 THEN 0 ELSE Awaited(d) - 1, vault'[d], job[d].asked)
      BY <1>1, <2>1, DueTail
    <2>3. CASE job[d].step = "read"
      <3>1. Awaited(d) = job[d].await
        BY <2>3 DEF Awaited
      <3>2. job'[d].await <= Len(queue'[d])
        BY <1>2, <1>3, <2>1, <3>1
      <3> QED BY <1>1, <1>2, <2>1, <2>2, <2>3, <3>1, <3>2 DEF Carried, Awaited
    <2>4. CASE job[d].step = "survey"
      <3>1. Awaited(d) = Len(queue[d])
        BY <2>4 DEF Awaited
      <3>2. Due(queue'[d], Len(queue'[d]), vault'[d], job[d].asked)
        BY <1>3, <2>2, <3>1
      <3>3. Len(queue'[d]) <= Len(queue'[d])
        BY <1>3
      <3> QED BY <1>1, <1>2, <2>1, <2>4, <3>2, <3>3 DEF Carried, Awaited
    <2> QED BY <1>4, <2>3, <2>4
  <1>5. CASE ~(job[d].asked # {} /\ job[d].step \in {"survey", "read"})
    BY <1>2, <1>5 DEF Carried
  <1> QED BY <1>4, <1>5

LEMMA BackupCarried ==
    ASSUME Types, NEW d \in Devices, Carried(d), Backup(d) PROVE Carried(d)'
  <1> USE DEF vaultVars
  <1>0. TypeOK /\ job[d] \in Jobs /\ queue[d] \in Seq(Saves) /\ NoJob.asked = {}
    BY DEF Types, TypeOK, NoJob
  <1>1. CASE FirstBackupRefused(d) \/ PushLocked(d) \/ PutUnanswered(d) \/ PutRefused(d)
             \/ Confirm(d)
    <2>1. job' = [job EXCEPT ![d] = NoJob]
      BY <1>1 DEF FirstBackupRefused, PushLocked, PutUnanswered, PutRefused, Confirm
    <2>2. job'[d].asked = {}
      BY <1>0, <2>1 DEF TypeOK
    <2> QED BY <2>2, CarriedEnds
  <1>2. CASE BackupSurveyed(d)
    <2>1. /\ key'[d] = key[d] /\ memory'[d] = memory[d] /\ queue'[d] = queue[d]
          /\ vault'[d] = vault[d] /\ job'[d].step = "read" /\ job[d].step = "survey"
          /\ job'[d].asked = job[d].asked /\ job'[d].await = Len(queue[d])
      BY <1>0, <1>2 DEF BackupSurveyed, StartPush, NoJob, TypeOK
    <2> QED BY <2>1 DEF Carried, Awaited
  <1>3. CASE ReadForUpload(d)
    <2>1. /\ job[d].step = "read" /\ job[d].await = 0
          /\ job'[d].asked = job[d].asked /\ job'[d].step \in {"refetch", "put"}
          /\ job'[d].edits = vault[d].edits
      BY <1>0, <1>3 DEF ReadForUpload, ReadStored, TypeOK, Jobs
    <2>2. ASSUME job[d].asked # {} PROVE job[d].asked \subseteq vault[d].edits
      <3>1. Due(queue[d], 0, vault[d], job[d].asked)
        BY <2>1, <2>2 DEF Carried, Awaited
      <3>2. PICK v : job[d].asked \subseteq v /\ Comes(queue[d], 0, vault[d], "edits", v)
        BY <3>1 DEF Due
      <3>3. vault[d]["edits"] = v
        BY <3>2 DEF Comes
      <3> QED BY <3>2, <3>3
    <2> QED BY <2>1, <2>2 DEF Carried
  <1>4. CASE Refetch(d)
    <2>1. /\ job[d].step = "refetch" /\ job'[d].step = "put"
          /\ job'[d].asked = job[d].asked /\ job'[d].edits = job[d].edits
      BY <1>0, <1>4 DEF Refetch, TypeOK, Jobs
    <2> QED BY <2>1 DEF Carried
  <1>5. CASE PutAccepted(d)
    <2>1. job'[d].step = "confirm"
      BY <1>0, <1>5 DEF PutAccepted, TypeOK, Jobs
    <2> QED BY <2>1 DEF Carried
  <1> QED BY <1>1, <1>2, <1>3, <1>4, <1>5 DEF Backup

LEMMA CarriedStep == Types /\ AllStored /\ AllCarried /\ [Next]_vars => AllCarried'
  <1> SUFFICES ASSUME Types, AllStored, AllCarried, [Next]_vars, NEW e \in Devices
               PROVE  Carried(e)'
    BY DEF AllCarried
  <1>0. Carried(e) /\ Stored(e)
    BY DEF AllCarried, AllStored
  <1>1. CASE UNCHANGED vars
    BY <1>0, <1>1, CarriedStays DEF vars
  <1>2. ASSUME NEW d \in Devices, Step(d) PROVE Carried(e)'
    <2>1. CASE e # d
      <3>1. e \in Devices \ {d}
        BY <2>1
      <3> QED BY <1>0, <1>2, <3>1, OthersUntouched, CarriedStays
    <2>2. CASE e = d
      <3>1. CASE Check(d)
        BY <1>0, <2>2, <3>1, CarriedStays DEF Check, StartCheck, AnswerCheck, FailCheck,
                                              Answered, ApplyCheck, vaultVars
      <3>2. CASE Download(d) \/ FailJob(d)
        <4>1. job'[d].asked = {}
          BY <3>2 DEF Download, FailJob, NoJob, Types, TypeOK
        <4> QED BY <2>2, <4>1, CarriedEnds
      <3> QED BY <1>0, <1>2, <2>2, <3>1, <3>2, UserCarried, CommitCarried, BackupCarried
                 DEF Step
    <2> QED BY <2>1, <2>2
  <1> QED BY <1>1, <1>2 DEF Next, Step

LEMMA CarriedInit == Init => AllCarried
  BY DEF Init, AllCarried, Carried, NoJob

(* Every edit on an unlocked screen when the user asks for the upload is in  *)
(* the file it makes: pushConfiguration waits for the saves made so far, and *)
(* those that follow only add.                                              *)
THEOREM UploadIsWhole == Spec => UploadCarriesTheScreen
  <1>1. AllCarried /\ [Next]_vars
            => [\A d \in Devices : Upload(d) => job[d].asked \subseteq remote'.edits]_vars
    <2> SUFFICES ASSUME AllCarried, NEW d \in Devices, Upload(d)
                 PROVE  job[d].asked \subseteq remote'.edits
      OBVIOUS
    <2>1. job[d].step = "put" /\ remote'.edits = job[d].edits /\ Carried(d)
      BY DEF Upload, AllCarried
    <2> QED BY <2>1 DEF Carried
  <1> QED BY <1>1, TypesInit, TypesStep, StoredInit, StoredStep, CarriedInit, CarriedStep, PTL
          DEF Spec, UploadCarriesTheScreen
=============================================================================
