----------------------------- MODULE ConfigSync -----------------------------
(***************************************************************************)
(* Uploading the configuration to Nextcloud and taking it back, by several *)
(* installations: the sync half of VaultProvider.tsx, configSyncApi.ts and *)
(* the WebDAV commands of provider-core/src/command.rs.                    *)
(*                                                                         *)
(* A device is one installation with one window.  Its vault is the atomic  *)
(* one of VaultContract (VaultStore shows the code implements it): a save  *)
(* changes memory at once and the stored fields when the write queue gets  *)
(* to it.  The portable configuration is the set of edits it holds, the    *)
(* server's file is known by its ETag, here a version number.              *)
(***************************************************************************)
EXTENDS Naturals, Sequences, FiniteSets

CONSTANTS
    Devices,    \* installations sharing one Nextcloud file
    Edits,      \* changes of portable settings; each is made once
    MaxVersion, \* bound: versions of the remote file
    MaxQueue,   \* bound: saves waiting in one device
    MaxChecks   \* bound: remote checks under way in one device

ASSUME BoundsAssumption ==
    MaxVersion \in Nat /\ MaxQueue \in Nat \ {0} /\ MaxChecks \in Nat \ {0}

Versions == 0..MaxVersion               \* 0: no file, no ETag
Settings == [on : BOOLEAN, etag : Versions, rev : Versions, dirty : BOOLEAN]
NoSync == [on |-> FALSE, etag |-> 0, rev |-> 0, dirty |-> FALSE]
Sync(etag, rev, dirty) ==
    [on |-> TRUE, etag |-> etag, rev |-> rev, dirty |-> dirty]

Payloads == [edits : SUBSET Edits, sync : Settings]
Empty == [edits |-> {}, sync |-> NoSync]
Saves == [fields : SUBSET {"edits", "sync"}, payload : Payloads]

Statuses == {"disabled", "idle", "syncing", "synced", "conflict", "error"}
Verdicts == {"asked", "idle", "synced", "conflict", "error"}
Checks == [sync : Settings, verdict : Verdicts]

Steps == {"none", "survey", "read", "refetch", "put", "confirm", "download"}
Jobs == [step : Steps, sync : Settings, overwrite : BOOLEAN, await : Nat,
         edits : SUBSET Edits, asked : SUBSET Edits, warned : BOOLEAN]
NoJob == [step |-> "none", sync |-> NoSync, overwrite |-> FALSE, await |-> 0,
          edits |-> {}, asked |-> {}, warned |-> FALSE]

VARIABLES
    remote,     \* the file: its version, its revision number, its edits
    made,       \* edits already made
    key,        \* keyRef.current is set
    shown,      \* payload # null: the application is displayed
    memory,     \* payloadRef.current; its sync is configSyncSettings
    vault,      \* the stored payload
    queue,      \* saves not committed yet, oldest first
    status,     \* configSyncStatus
    checks,     \* remote checks under way
    job,        \* the upload or download under way
    own         \* history: remote versions the device uploaded or took

vars == <<remote, made, key, shown, memory, vault, queue, status, checks,
          job, own>>
vaultVars == <<key, shown, memory, vault, queue>>

Init ==
    /\ remote = [version |-> 0, rev |-> 0, edits |-> {}]
    /\ made = {}
    /\ key = [d \in Devices |-> TRUE]
    /\ shown = [d \in Devices |-> TRUE]
    /\ memory = [d \in Devices |-> Empty]
    /\ vault = [d \in Devices |-> Empty]
    /\ queue = [d \in Devices |-> <<>>]
    /\ status = [d \in Devices |-> "disabled"]
    /\ checks = [d \in Devices |-> {}]
    /\ job = [d \in Devices |-> NoJob]
    /\ own = [d \in Devices |-> {}]

----------------------------------------------------------------------------
(* The payload and the status a save leaves, once React has run the effect  *)
(* on the settings.  Without a key nothing is persisted.                    *)
Saved(d, payload, fields) ==
    /\ memory' = [memory EXCEPT ![d] = payload]
    /\ shown' = [shown EXCEPT ![d] = TRUE]
    /\ IF key[d]
       THEN /\ Len(queue[d]) < MaxQueue
            /\ queue' = [queue EXCEPT ![d] =
                            Append(@, [fields |-> fields, payload |-> payload])]
       ELSE UNCHANGED queue
    /\ UNCHANGED <<key, vault>>

StatusWith(s, sync) ==
    IF ~sync.on THEN "disabled" ELSE IF s = "disabled" THEN "idle" ELSE s

StatusSet(d, s, sync) == status' = [status EXCEPT ![d] = StatusWith(s, sync)]

Applied(payload, save) ==
    [f \in {"edits", "sync"} |->
        IF f \in save.fields THEN save.payload[f] ELSE payload[f]]

(* The write queue reaches its oldest save. *)
Commit(d) ==
    /\ queue[d] # <<>>
    /\ vault' = [vault EXCEPT ![d] = Applied(@, Head(queue[d]))]
    /\ queue' = [queue EXCEPT ![d] = Tail(@)]
    /\ job' = [job EXCEPT ![d].await = IF @ = 0 THEN 0 ELSE @ - 1]
    /\ UNCHANGED <<remote, made, key, shown, memory, status, checks, own>>

(* write of a portable key: it never uploads, it marks the settings dirty. *)
Write(d, e) ==
    /\ shown[d] /\ e \notin made
    /\ made' = made \union {e}
    /\ LET sync == IF memory[d].sync.on
                   THEN [memory[d].sync EXCEPT !.dirty = TRUE]
                   ELSE memory[d].sync
           next == [edits |-> memory[d].edits \union {e}, sync |-> sync]
       IN  /\ Saved(d, next, IF sync.on THEN {"edits", "sync"} ELSE {"edits"})
           /\ StatusSet(d, status[d], sync)
    /\ UNCHANGED <<remote, checks, job, own>>

Disable(d) ==
    /\ shown[d] /\ memory[d].sync.on
    /\ Saved(d, [memory[d] EXCEPT !.sync = NoSync], {"sync"})
    /\ StatusSet(d, "disabled", NoSync)
    /\ UNCHANGED <<remote, made, checks, job, own>>

(* lock, by the user or after thirty idle minutes; a job goes on. *)
Lock(d) ==
    /\ shown[d]
    /\ key' = [key EXCEPT ![d] = FALSE]
    /\ shown' = [shown EXCEPT ![d] = FALSE]
    /\ memory' = [memory EXCEPT ![d] = Empty]
    /\ UNCHANGED <<remote, made, vault, queue, status, checks, job, own>>

(* Any way to unlock; VaultStore has the unlock that overtakes the queue. *)
Unlock(d) ==
    /\ ~shown[d] /\ queue[d] = <<>>
    /\ key' = [key EXCEPT ![d] = TRUE]
    /\ shown' = [shown EXCEPT ![d] = TRUE]
    /\ memory' = [memory EXCEPT ![d] = vault[d]]
    /\ StatusSet(d, status[d], vault[d].sync)
    /\ UNCHANGED <<remote, made, vault, queue, checks, job, own>>

(* The page is reloaded or the application killed. *)
Reload(d) ==
    /\ key' = [key EXCEPT ![d] = FALSE]
    /\ shown' = [shown EXCEPT ![d] = FALSE]
    /\ memory' = [memory EXCEPT ![d] = Empty]
    /\ queue' = [queue EXCEPT ![d] = <<>>]
    /\ status' = [status EXCEPT ![d] = "disabled"]
    /\ checks' = [checks EXCEPT ![d] = {}]
    /\ job' = [job EXCEPT ![d] = NoJob]
    /\ UNCHANGED <<remote, made, vault, own>>

----------------------------------------------------------------------------
(* The remote check.  The effect starts one when the settings change, the   *)
(* timer makes it start one again every minute: without a clock, one may    *)
(* start at any time.  Its verdict is about the settings of its start and   *)
(* the file of its answer.                                                  *)
StartCheck(d) ==
    /\ shown[d] /\ memory[d].sync.on
    /\ Cardinality(checks[d]) < MaxChecks
    /\ checks' = [checks EXCEPT ![d] =
                    @ \union {[sync |-> memory[d].sync, verdict |-> "asked"]}]
    /\ UNCHANGED <<remote, made, vaultVars, status, job, own>>

RemoteChanged(sync) ==
    /\ remote.version # 0
    /\ remote.version # sync.etag \/ remote.rev > sync.rev

(* A faulty verdict: local changes hide the remote one. *)
VerdictDirtyFirst(sync) ==
    IF sync.dirty THEN "idle"
    ELSE IF RemoteChanged(sync) THEN "conflict" ELSE "synced"

Verdict(sync) ==
    IF RemoteChanged(sync) THEN "conflict"
    ELSE IF sync.dirty THEN "idle" ELSE "synced"

Answered(d, c, verdict) ==
    /\ c.verdict = "asked"
    /\ checks' = [checks EXCEPT ![d] =
                    (@ \ {c}) \union {[c EXCEPT !.verdict = verdict]}]
    /\ UNCHANGED <<remote, made, vaultVars, status, job, own>>

AnswerCheck(d, c) == Answered(d, c, Verdict(c.sync))
FailCheck(d, c) == Answered(d, c, "error")

ApplyCheck(d, c) ==
    /\ c.verdict # "asked"
    /\ status' = [status EXCEPT ![d] = c.verdict]
    /\ checks' = [checks EXCEPT ![d] = @ \ {c}]
    /\ UNCHANGED <<remote, made, vaultVars, job, own>>

----------------------------------------------------------------------------
(* "Back up now": the settings are those of the click. *)
BeginBackup(d) ==
    /\ shown[d] /\ job[d].step = "none"
    /\ job' = [job EXCEPT ![d] =
                [NoJob EXCEPT !.step = "survey", !.sync = memory[d].sync,
                              !.asked = IF key[d] THEN memory[d].edits
                                        ELSE {},
                              !.warned = status[d] = "conflict"]]
    /\ UNCHANGED <<remote, made, vaultVars, status, checks, own>>

(* A first backup that meets a file of somebody else stores settings that   *)
(* already carry that file's ETag, and reports a conflict.                  *)
FirstBackupRefused(d) ==
    /\ job[d].step = "survey"
    /\ ~job[d].sync.on /\ remote.version # 0
    /\ LET pending == Sync(remote.version, remote.rev, TRUE)
       IN  Saved(d, [memory[d] EXCEPT !.sync = pending], {"sync"})
    /\ status' = [status EXCEPT ![d] = "conflict"]
    /\ job' = [job EXCEPT ![d] = NoJob]
    /\ UNCHANGED <<remote, made, checks, own>>

(* pushConfiguration, as far as the wait for the write queue. *)
StartPush(d, sync, overwrite, asked, warned) ==
    /\ status' = [status EXCEPT ![d] = "syncing"]
    /\ job' = [job EXCEPT ![d] =
                [NoJob EXCEPT !.step = "read", !.sync = sync,
                              !.overwrite = overwrite,
                              !.await = Len(queue[d]),
                              !.asked = asked, !.warned = warned]]
    /\ UNCHANGED <<remote, made, vaultVars, checks, own>>

BackupSurveyed(d) ==
    /\ job[d].step = "survey"
    /\ job[d].sync.on \/ remote.version = 0
    /\ key[d]
    /\ LET sync == IF job[d].sync.on THEN job[d].sync
                   ELSE Sync(remote.version, remote.rev, FALSE)
       IN  StartPush(d, sync, FALSE, job[d].asked, job[d].warned)

(* "Keep local version", under the conflict message. *)
KeepLocal(d) ==
    /\ shown[d] /\ status[d] = "conflict" /\ memory[d].sync.on
    /\ key[d] /\ job[d].step = "none"
    /\ StartPush(d, memory[d].sync, TRUE, memory[d].edits, TRUE)

ReadStored(d) ==
    /\ job[d].step = "read"
    /\ job' = [job EXCEPT ![d].step = IF job[d].overwrite
                                      THEN "refetch" ELSE "put",
                          ![d].edits = vault[d].edits]
    /\ UNCHANGED <<remote, made, vaultVars, status, checks, own>>

ReadAtOnce(d) == ReadStored(d)          \* faulty: does not await writeQueue
ReadForUpload(d) == ReadStored(d) /\ job[d].await = 0

Refetch(d) ==
    /\ job[d].step = "refetch"
    /\ job' = [job EXCEPT ![d].step = "put", ![d].sync.etag = remote.version]
    /\ UNCHANGED <<remote, made, vaultVars, status, checks, own>>

(* If-Match with the ETag, If-None-Match without one. *)
EtagMatches(d) == job[d].sync.etag = remote.version

Upload(d) ==
    /\ job[d].step = "put" /\ EtagMatches(d)
    /\ remote.version < MaxVersion /\ job[d].sync.rev < MaxVersion
    /\ remote' = [version |-> remote.version + 1, rev |-> job[d].sync.rev + 1,
                  edits |-> job[d].edits]
    /\ own' = [own EXCEPT ![d] = @ \union {remote.version + 1}]

PutAccepted(d) ==
    /\ Upload(d)
    /\ job' = [job EXCEPT ![d].step = "confirm"]
    /\ UNCHANGED <<made, vaultVars, status, checks>>

(* The file is replaced, the answer never arrives. *)
PutUnanswered(d) ==
    /\ Upload(d)
    /\ job' = [job EXCEPT ![d] = NoJob]
    /\ status' = [status EXCEPT ![d] = "error"]
    /\ UNCHANGED <<made, vaultVars, checks>>

PutRefused(d) ==
    /\ job[d].step = "put" /\ ~EtagMatches(d)
    /\ job' = [job EXCEPT ![d] = NoJob]
    /\ status' = [status EXCEPT ![d] = "conflict"]
    /\ UNCHANGED <<remote, made, vaultVars, checks, own>>

(* The file is fetched again for its ETag, and the settings are saved. *)
Confirm(d) ==
    /\ job[d].step = "confirm"
    /\ LET sync == Sync(remote.version, job[d].sync.rev + 1, FALSE)
       IN  Saved(d, [memory[d] EXCEPT !.sync = sync], {"sync"})
    /\ status' = [status EXCEPT ![d] = "synced"]
    /\ job' = [job EXCEPT ![d] = NoJob]
    /\ UNCHANGED <<remote, made, checks, own>>

(* "Use Nextcloud version" or "Restore", confirmed by the user. *)
BeginRestore(d) ==
    /\ shown[d] /\ job[d].step = "none"
    /\ job' = [job EXCEPT ![d] = [NoJob EXCEPT !.step = "download"]]
    /\ UNCHANGED <<remote, made, vaultVars, status, checks, own>>

RestoredSettings == {"sync"}            \* faulty: the portable keys are forgotten
RestoredFields == {"edits", "sync"}

Download(d) ==
    /\ job[d].step = "download" /\ remote.version # 0
    /\ LET sync == Sync(remote.version, remote.rev, FALSE)
       IN  Saved(d, [edits |-> remote.edits, sync |-> sync], RestoredFields)
    /\ status' = [status EXCEPT ![d] = "synced"]
    /\ job' = [job EXCEPT ![d] = NoJob]
    /\ own' = [own EXCEPT ![d] = @ \union {remote.version}]
    /\ UNCHANGED <<remote, made, checks>>

(* Any request of a job fails; outside pushConfiguration the status stays. *)
FailJob(d) ==
    /\ job[d].step \in {"survey", "refetch", "put", "confirm", "download"}
    /\ job' = [job EXCEPT ![d] = NoJob]
    /\ status' = IF job[d].step \in {"survey", "download"} THEN status
                 ELSE [status EXCEPT ![d] = "error"]
    /\ UNCHANGED <<remote, made, vaultVars, checks, own>>

PushLocked(d) ==
    /\ job[d].step = "survey"
    /\ job[d].sync.on \/ remote.version = 0
    /\ ~key[d]
    /\ job' = [job EXCEPT ![d] = NoJob]
    /\ UNCHANGED <<remote, made, vaultVars, status, checks, own>>

----------------------------------------------------------------------------
User(d) ==
    \/ \E e \in Edits : Write(d, e)
    \/ Disable(d) \/ Lock(d) \/ Unlock(d) \/ Reload(d)
    \/ BeginBackup(d) \/ KeepLocal(d) \/ BeginRestore(d)

Backup(d) ==
    \/ FirstBackupRefused(d) \/ BackupSurveyed(d) \/ PushLocked(d)
    \/ ReadForUpload(d) \/ Refetch(d)
    \/ PutAccepted(d) \/ PutUnanswered(d) \/ PutRefused(d) \/ Confirm(d)

Check(d) ==
    \/ StartCheck(d)
    \/ \E c \in checks[d] :
        AnswerCheck(d, c) \/ FailCheck(d, c) \/ ApplyCheck(d, c)

Next ==
    \E d \in Devices :
        User(d) \/ Commit(d) \/ Check(d) \/ Backup(d) \/ Download(d) \/ FailJob(d)

Spec == Init /\ [][Next]_vars

(* The queue and the timer run by themselves, an answered check is applied, *)
(* and a server that is asked again and again answers at last.              *)
Fairness ==
    \A d \in Devices :
        /\ WF_vars(Commit(d))
        /\ WF_vars(StartCheck(d))
        /\ \A v \in Verdicts :
            WF_vars(\E c \in checks[d] : c.verdict = v /\ ApplyCheck(d, c))
        /\ SF_vars(\E c \in checks[d] : AnswerCheck(d, c))

FairSpec == Spec /\ Fairness

----------------------------------------------------------------------------
TypeOK ==
    /\ remote \in [version : Versions, rev : Versions, edits : SUBSET Edits]
    /\ made \subseteq Edits
    /\ key \in [Devices -> BOOLEAN]
    /\ shown \in [Devices -> BOOLEAN]
    /\ memory \in [Devices -> Payloads]
    /\ vault \in [Devices -> Payloads]
    /\ queue \in [Devices -> Seq(Saves)]
    /\ status \in [Devices -> Statuses]
    /\ checks \in [Devices -> SUBSET Checks]
    /\ job \in [Devices -> Jobs]
    /\ own \in [Devices -> SUBSET Versions]

(* Once the queue is written a field of the vault has the value of the last  *)
(* save that names it, or the stored one.                                    *)
Naming(d, f) == {i \in DOMAIN queue[d] : f \in queue[d][i].fields}
WillBe(d, f, value) ==
    /\ Naming(d, f) = {} => vault[d][f] = value
    /\ \A i \in Naming(d, f) :
        (\A j \in Naming(d, f) : j <= i) => queue[d][i].payload[f] = value

(* What an unlocked device shows, settings included, is what its vault holds *)
(* once its queue is written: every save names all the fields it changed.    *)
MemoryIsStored ==
    \A d \in Devices : key[d] =>
        \A f \in {"edits", "sync"} : WillBe(d, f, memory[d][f])

(* Every edit on an unlocked screen when the user asks for the upload is in  *)
(* the file it makes, although the saves are asynchronous.                   *)
UploadCarriesTheScreen ==
    [][\A d \in Devices : Upload(d) => job[d].asked \subseteq remote'.edits]_vars

(* An upload only replaces a version this device wrote or took, unless the   *)
(* user chose it under the conflict message.                                 *)
NeverSilentOverwrite ==
    [][\A d \in Devices :
        Upload(d) /\ remote.version # 0 /\ ~job[d].warned
            => remote.version \in own[d]]_vars

(* A device left displayed and idle whose recorded version is not the        *)
(* server's keeps telling the user so.                                       *)
Outdated(d) ==
    /\ shown[d] /\ memory[d].sync.on /\ job[d].step = "none"
    /\ remote.version # 0 /\ memory[d].sync.etag # remote.version
Noticed ==
    \A d \in Devices : <>[]Outdated(d) => []<>(status[d] = "conflict")
=============================================================================
