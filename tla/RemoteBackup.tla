----------------------------- MODULE RemoteBackup -----------------------------
(***************************************************************************)
(* The off-site backups of a deployment (internal/deployment,              *)
(* remote_backup.go): a configuration, a recovery key and a status file    *)
(* beside the deployment's own files, and encrypted repositories.  The     *)
(* commands hold the same maintenance lock, and a remote backup and a      *)
(* remote restore run Deployment's backup and restore.                     *)
(***************************************************************************)
EXTENDS Deployment

CONSTANTS
    Repos,          \* S3 repositories
    Passwords,
    LocalKeep       \* local backups that are kept (3 in the code)

VARIABLES
    conf,           \* secrets/: the repository and its password
    recovery,       \* secrets/backup-recovery-key.txt
    repos,          \* the repositories: password and snapshots
    status,         \* the status file that doctor reads
    job             \* of a configure: its input and the files as it found them

remote == <<conf, recovery, repos, status, job>>
remoteVars == <<vars, remote>>

Conf == [repo: Repos, password: Passwords]
Repo == [password: Passwords, snaps: SUBSET BackupDir]
ConfFile == Conf \cup {NoValue, Torn}
RecoveryFile == Passwords \cup {NoValue, Torn}

\* Where the last backup and the last restore test went, for the times the file has.
Status == [backup: Repos \cup {NoValue}, tested: Repos \cup {NoValue}, checked: BOOLEAN]
NoStatus == [backup |-> NoValue, tested |-> NoValue, checked |-> FALSE]

ASSUME RemoteAssumption ==
    /\ LocalKeep \in Nat \ {0}
    /\ {NoValue, Torn} \cap Repos = {}
    /\ {NoValue, Torn} \cap Passwords = {}
    /\ {NoValue, Torn} \cap Conf = {}
    /\ NoValue \notin Repo

RemoteTypeOK ==
    /\ TypeOK
    /\ conf \in ConfFile
    /\ recovery \in RecoveryFile
    /\ repos \in [Repos -> Repo \cup {NoValue}]
    /\ status \in Status
    /\ job # NoValue => job.input \in Conf /\ job.conf \in ConfFile /\ job.recovery \in RecoveryFile

RemoteInit ==
    /\ Init
    /\ conf = NoValue
    /\ recovery = NoValue
    /\ repos = [r \in Repos |-> NoValue]
    /\ status = NoStatus
    /\ job = NoValue

-------------------------------------------------------------------------------

Opens(c) == c \notin {NoValue, Torn} /\ repos[c.repo] # NoValue /\ repos[c.repo].password = c.password

\* The configuration, the key that the operator keeps, and the repository agree.
Agree == Opens(conf) /\ recovery = conf.password

Configured == conf \notin {NoValue, Torn}

(***************************************************************************)
(* backup configure                                                        *)
(***************************************************************************)

BeginConfigure(input) ==
    /\ Begin("configure", "conf", NoValue, NoValue)
    /\ job' = [input |-> input, conf |-> conf, recovery |-> recovery,
               fit |-> Agree \/ (conf = NoValue /\ recovery = NoValue)]
    /\ UNCHANGED <<conf, recovery, repos, status>>

\* When this write fails, what was there is not put back.
WriteConf ==
    /\ At("conf")
    /\ \/ conf' = job.input /\ Go("recovery")
       \/ conf' \in {conf, Torn} /\ FaultTo("done")
    /\ UNCHANGED <<machine, commands, recovery, repos, status, job>>

WriteRecovery ==
    /\ At("recovery")
    /\ \/ recovery' = job.input.password /\ Go("init")
       \/ recovery' \in {recovery, Torn} /\ FaultTo("unconf")
    /\ UNCHANGED <<machine, commands, conf, repos, status, job>>

Created == [repos EXCEPT ![conf.repo] = [password |-> conf.password, snaps |-> {}]]

\* restic init, which refuses a repository that exists ...
InitRepo ==
    /\ At("init")
    /\ \/ repos[conf.repo] = NoValue /\ repos' = Created /\ Go("done")
       \/ repos[conf.repo] # NoValue /\ repos' = repos /\ Go("open")
       \/ /\ repos' \in {repos, IF repos[conf.repo] = NoValue THEN Created ELSE repos}
          /\ FaultTo("open")
    /\ UNCHANGED <<machine, commands, conf, recovery, status, job>>

\* Seeded fault: a repository that exists is not opened with the new password.
OpenRepoUnchecked ==
    /\ At("open")
    /\ Go("done")
    /\ UNCHANGED <<machine, commands, remote>>

\* ... and then restic cat config, which needs the password.
OpenRepo ==
    /\ At("open")
    /\ \/ Opens(conf) /\ Go("done")
       \/ ~Opens(conf) /\ GoFailed("unconf")
       \/ FaultTo("unconf")
    /\ UNCHANGED <<machine, commands, remote>>

Unconfigure ==
    /\ At("unconf")
    /\ \/ conf' = job.conf /\ recovery' = job.recovery /\ GoFailed("done")
       \/ /\ conf' \in {conf, job.conf, Torn}
          /\ recovery' \in {recovery, job.recovery, Torn}
          /\ FaultTo("done")
    /\ UNCHANGED <<machine, commands, repos, status, job>>

(***************************************************************************)
(* backup --remote                                                         *)
(***************************************************************************)

BeginRemote ==
    /\ Configured
    /\ Begin("remote", "copy", NoValue, NoValue)
    /\ UNCHANGED remote

Uploaded == [repos EXCEPT ![conf.repo].snaps = @ \cup {cmd.own}]

\* Seeded fault: the status is saved when the upload failed, too.
UploadThenStatus ==
    /\ At("upload")
    /\ \/ Opens(conf) /\ repos' = Uploaded /\ Go("forget")
       \/ repos' = repos /\ Go("status")
    /\ UNCHANGED <<machine, commands, conf, recovery, status, job>>

\* An upload that fails may have stored the snapshot.
Upload ==
    /\ At("upload")
    /\ \/ Opens(conf) /\ repos' = Uploaded /\ Go("forget")
       \/ ~Opens(conf) /\ repos' = repos /\ GoFailed("done")
       \/ repos' \in {repos, IF Opens(conf) THEN Uploaded ELSE repos} /\ FaultTo("done")
    /\ UNCHANGED <<machine, commands, conf, recovery, status, job>>

\* restic forget --prune keeps what the daily, weekly and monthly rules ask for:
\* always the newest snapshot, and any of the others.
Forget ==
    /\ At("forget")
    /\ \E kept \in SUBSET repos[conf.repo].snaps:
          repos' = [repos EXCEPT ![conf.repo].snaps = kept \cup {cmd.own}]
    /\ Go("status") \/ FaultTo("done")
    /\ UNCHANGED <<machine, commands, conf, recovery, status, job>>

\* A status file that was cut reads as an empty one.
WriteStatus(new, next) ==
    \/ status' = new /\ Go(next)
    \/ status' \in {status, NoStatus} /\ FaultTo("done")

SaveStatus ==
    /\ At("status")
    /\ WriteStatus([status EXCEPT !.backup = conf.repo], "prune")
    /\ UNCHANGED <<machine, commands, conf, recovery, repos, job>>

Prune ==
    /\ At("prune")
    /\ backups' = Newest(backups, LocalKeep)
    /\ Go("done")
    /\ UNCHANGED <<files, volume, control, core, acked, commands, remote>>

(***************************************************************************)
(* backup check, with or without a restore test, and restore --snapshot    *)
(***************************************************************************)

BeginCheck ==
    /\ Configured
    /\ Begin("check", "check", NoValue, NoValue)
    /\ UNCHANGED remote

Check ==
    /\ At("check")
    /\ \/ Opens(conf) /\ WriteStatus([status EXCEPT !.checked = TRUE], "done")
       \/ Opens(conf) /\ Go("test") /\ status' = status
       \/ ~Opens(conf) /\ GoFailed("done") /\ status' = status
       \/ FaultTo("done") /\ status' = status
    /\ UNCHANGED <<machine, commands, conf, recovery, repos, job>>

\* The snapshot that restic downloads verifies; without one the check is lost, too.
RestoreTest ==
    /\ At("test")
    /\ \/ /\ repos[conf.repo].snaps # {}
          /\ WriteStatus([status EXCEPT !.checked = TRUE, !.tested = conf.repo], "done")
       \/ repos[conf.repo].snaps = {} /\ GoFailed("done") /\ status' = status
    /\ UNCHANGED <<machine, commands, conf, recovery, repos, job>>

BeginRemoteRestore(b) ==
    /\ Opens(conf)
    /\ b \in repos[conf.repo].snaps
    /\ Begin("restore", "download", NoValue, b)
    /\ UNCHANGED remote

Download ==
    /\ At("download")
    /\ Go("copy") \/ FaultTo("done")
    /\ UNCHANGED <<machine, commands, remote>>

-------------------------------------------------------------------------------

RemoteNext ==
    \/ Next /\ cmd'.kind # "none" /\ UNCHANGED remote
    \/ Next /\ cmd'.kind = "none" /\ job' = NoValue /\ UNCHANGED <<conf, recovery, repos, status>>
    \/ \E input \in Conf: BeginConfigure(input)
    \/ WriteConf \/ WriteRecovery \/ InitRepo \/ OpenRepo \/ Unconfigure
    \/ BeginRemote \/ Upload \/ Forget \/ SaveStatus \/ Prune
    \/ BeginCheck \/ Check \/ RestoreTest
    \/ \E r \in Repos: repos[r] # NoValue /\ \E b \in repos[r].snaps: BeginRemoteRestore(b)
    \/ Download

RemoteSpec == RemoteInit /\ [][RemoteNext]_remoteVars

-------------------------------------------------------------------------------
(***************************************************************************)
(* Properties                                                              *)
(***************************************************************************)

\* A configure that finds the files and the repository in agreement, or nothing,
\* leaves them so, or nothing, whichever of its steps fail, unless that is the
\* first write or the writes that put the files back: the key that the operator
\* keeps opens the repository that is used.
ConfigureKeepsAgreement ==
    At("done") /\ cmd.kind = "configure" /\ job.fit /\ cmd.faults \cap {"conf", "unconf"} = {}
        => Agree \/ (conf = NoValue /\ recovery = NoValue)

\* What doctor reports as a recent backup or restore test has a snapshot behind it,
\* in the repository where the backup went: whatever failed or was killed since,
\* retention never takes the last one.
StatusHasSnapshot ==
    \A r \in {status.backup, status.tested} \ {NoValue}:
        repos[r] # NoValue /\ repos[r].snaps # {}

===============================================================================
