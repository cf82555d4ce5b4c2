------------------------------ MODULE Deployment ------------------------------
(***************************************************************************)
(* A deployment and the barqctl commands that maintain it                  *)
(* (internal/deployment): upgrade, rollback, backup, restore and up.       *)
(* RemoteBackup extends it with the commands about off-site backups.       *)
(*                                                                         *)
(* A deployment is a directory of files, one data volume and the           *)
(* containers that serve from it.  A command holds the maintenance lock    *)
(* and runs step by step: a file is written, or docker is told to do       *)
(* something.  Any step may fail, the command may be killed between any    *)
(* two, and clients write data whenever the containers run, also while a   *)
(* command is under way.  What docker still does for a command that was    *)
(* killed during a step is KilledCommands' matter.                         *)
(*                                                                         *)
(* compose.yaml and the Caddyfile come together from the bundle that       *)
(* barqctl carries: the two are one file here, and so are edge and control *)
(* one service.  The files under secrets/ never change.                    *)
(***************************************************************************)
EXTENDS Naturals, Sequences, FiniteSets

CONSTANTS
    Releases,       \* releases with fixed images and a valid signature
    FirstRelease,   \* the one that init deployed
    SchemaOf,       \* the control schema of each release
    ToolSchema,     \* the newest control schema that barqctl supports
    MaxHistory,     \* earlier releases that the manifest keeps (10 in the code)
    MaxWrites,      \* bound: writes that clients make
    MaxCommands,    \* bound: commands that are run
    MaxFaults,      \* bound: steps of one command that fail
    Torn,           \* the content of a file that was cut while it was written
    NoValue

Manifest == [release: Releases, previous: Seq(Releases)]
Files == [env: Releases \cup {Torn}, manifest: Manifest \cup {Torn}, bundle: {"old", "new", Torn}]
Volume == [writes: SUBSET (1 .. MaxWrites), schema: Nat, whole: BOOLEAN]
BackupDir == [files: Files, data: Volume]

ASSUME DeploymentAssumption ==
    /\ FirstRelease \in Releases
    /\ SchemaOf \in [Releases -> Nat \ {0}]
    /\ MaxHistory \in Nat \ {0}
    /\ {ToolSchema, MaxWrites, MaxCommands, MaxFaults} \subseteq Nat
    /\ SchemaOf[FirstRelease] <= ToolSchema
    /\ {NoValue, Torn} \cap Releases = {}
    /\ Torn \notin Manifest \cup {"old", "new"}
    /\ NoValue \notin Manifest \cup Files \cup BackupDir

VARIABLES
    files,          \* .env, the manifest, and the bundle's two files
    volume,         \* the data volume: client writes and the control schema
    control,        \* the release that edge and control run, or NoValue
    core,           \* Core is running
    backups,        \* the local backups that verifyBackup accepts, oldest first
    acked,          \* history: how many writes were answered
    cmd,            \* the command that holds the maintenance lock
    commands        \* how many were started

machine == <<files, volume, control, core, backups, acked>>
vars == <<machine, cmd, commands>>

BackupSteps == {"copy", "stopAll", "archive", "seal", "upAgain"}
ChangeSteps ==
    {"preflight", "env", "manifest", "bundle", "undo", "stop", "migrate", "up", "revert"}
RestoreSteps == {"down", "unpack", "config", "upLast"}
RemoteSteps ==
    {"conf", "recovery", "init", "open", "unconf", "upload", "forget", "status", "prune",
     "check", "test", "download"}
Steps == BackupSteps \cup ChangeSteps \cup RestoreSteps \cup RemoteSteps \cup {"done"}

Command ==
    [kind: {"none", "backup", "change", "restore", "remote", "configure", "check"},
     step: Steps,
     target: Manifest \cup {NoValue},       \* the manifest to change to
     old: Files \cup {NoValue},             \* the files that a change read
     own: BackupDir \cup {NoValue},         \* the backup that the command makes
     from: BackupDir \cup {NoValue},        \* the backup that it restores
     failed: BOOLEAN,
     faults: SUBSET Steps,                  \* history: the steps that failed,
     late: SUBSET (1 .. MaxWrites),         \*   the writes answered since the archive
     fit: BOOLEAN]                          \*   and whether all was well at the start

NoCommand ==
    [kind |-> "none", step |-> "done", target |-> NoValue, old |-> NoValue, own |-> NoValue,
     from |-> NoValue, failed |-> FALSE, faults |-> {}, late |-> {}, fit |-> FALSE]

TypeOK ==
    /\ files \in Files
    /\ volume \in Volume
    /\ control \in Releases \cup {NoValue}
    /\ core \in BOOLEAN
    /\ backups \in Seq(BackupDir)
    /\ acked \in 0 .. MaxWrites
    /\ cmd \in Command
    /\ cmd.step \in RestoreSteps => cmd.from # NoValue
    /\ cmd.step \in {"manifest", "bundle", "undo", "stop", "migrate", "up", "revert"}
            => NoValue \notin {cmd.target, cmd.old, cmd.own}
    /\ commands \in 0 .. MaxCommands

\* What init and the first up leave.
Init ==
    /\ files = [env |-> FirstRelease, bundle |-> "old",
                manifest |-> [release |-> FirstRelease, previous |-> <<>>]]
    /\ volume = [writes |-> {}, schema |-> SchemaOf[FirstRelease], whole |-> TRUE]
    /\ control = FirstRelease
    /\ core = TRUE
    /\ backups = <<>>
    /\ acked = 0
    /\ cmd = NoCommand
    /\ commands = 0

-------------------------------------------------------------------------------

\* These files and this volume belong together.
Fit(f, v) ==
    /\ Torn \notin {f.env, f.bundle}
    /\ f.manifest # Torn
    /\ f.env = f.manifest.release
    /\ v.whole
    /\ v.schema = SchemaOf[f.env]

Healthy == Fit(files, volume) /\ control = files.env /\ core

At(step) == cmd.kind # "none" /\ cmd.step = step

Go(step) == cmd' = [cmd EXCEPT !.step = step]
GoFailed(step) == cmd' = [cmd EXCEPT !.step = step, !.failed = TRUE]

\* A step that fails, and where the command goes on then.
FaultTo(step) ==
    /\ Cardinality(cmd.faults) < MaxFaults
    /\ cmd' = [cmd EXCEPT !.step = step, !.failed = TRUE, !.faults = @ \cup {cmd.step}]

\* docker compose stop or down: when it fails, some containers may have stopped.
Stopped(withCore) == control' = NoValue /\ core' = (core /\ ~withCore)
StoppedInPart(withCore) ==
    \/ UNCHANGED <<control, core>>
    \/ control' = NoValue /\ core' = core
    \/ Stopped(withCore)

\* docker compose up --wait: control starts with the schema of the volume or
\* migrates it (EnsureSchema), and refuses a newer one.
CanStart ==
    /\ Torn \notin {files.env, files.bundle}
    /\ volume.schema <= SchemaOf[files.env]

Started ==
    /\ CanStart
    /\ control' = files.env
    /\ core' = TRUE
    /\ volume' = [volume EXCEPT !.schema = SchemaOf[files.env]]

\* Of an up with release r: the containers are as they were, gone, or the new ones,
\* and then the schema is migrated.
StartedInPart(r) ==
    /\ core' \in BOOLEAN
    /\ \/ control' \in {NoValue, control} /\ volume' = volume
       \/ /\ volume.schema <= SchemaOf[r]
          /\ control' \in {NoValue, r}
          /\ volume' = [volume EXCEPT !.schema = SchemaOf[r]]

\* Whether it is a fault or what it found, up fails, and not without a trace.
NotStarted ==
    \/ CanStart /\ StartedInPart(files.env)
    \/ ~CanStart /\ control' \in {NoValue, control} /\ core' \in BOOLEAN /\ volume' = volume

\* An up that fails because of what it finds is no fault of its own.
UpFails(next) ==
    /\ NotStarted
    /\ IF CanStart /\ volume.whole THEN FaultTo(next) ELSE GoFailed(next)

-------------------------------------------------------------------------------
(***************************************************************************)
(* Clients                                                                 *)
(***************************************************************************)

Write ==
    /\ control # NoValue /\ core
    /\ acked < MaxWrites
    /\ acked' = acked + 1
    /\ volume' = [volume EXCEPT !.writes = @ \cup {acked + 1}]
    /\ cmd' = IF cmd.own # NoValue /\ cmd.step \notin {"copy", "stopAll", "archive"}
                THEN [cmd EXCEPT !.late = @ \cup {acked + 1}] ELSE cmd
    /\ UNCHANGED <<files, control, core, backups, commands>>

(***************************************************************************)
(* The commands start                                                      *)
(***************************************************************************)

\* Every command takes the lock and reads the manifest.
Begin(kind, step, target, from) ==
    /\ cmd.kind = "none"
    /\ commands < MaxCommands
    /\ files.manifest # Torn
    /\ commands' = commands + 1
    /\ cmd' = [NoCommand EXCEPT
                !.kind = kind, !.step = step, !.target = target, !.from = from,
                !.fit = Healthy /\ (from # NoValue => Fit(from.files, from.data))]
    /\ UNCHANGED machine

BeginBackup == Begin("backup", "copy", NoValue, NoValue)

Newest(s, n) == IF Len(s) > n THEN SubSeq(s, Len(s) - n + 1, Len(s)) ELSE s

Kept(previous, release) == Newest(Append(previous, release), MaxHistory)

BeginUpgrade(r) ==
    /\ SchemaOf[r] <= ToolSchema
    /\ files.manifest # Torn
    /\ r # files.manifest.release
    /\ Begin("change", "preflight",
             [release |-> r, previous |-> Kept(files.manifest.previous, files.manifest.release)],
             NoValue)

\* A rollback drops its target from the history, and the change adds the release
\* that it leaves: a second rollback goes back again.
BeginRollback ==
    /\ files.manifest # Torn
    /\ LET previous == files.manifest.previous
           n == Len(previous) IN
        /\ n > 0
        /\ SchemaOf[previous[n]] <= ToolSchema
        /\ Begin("change", "preflight",
                 [release |-> previous[n],
                  previous |-> Kept(SubSeq(previous, 1, n - 1), files.manifest.release)],
                 NoValue)

\* Restore verifies the backup and then makes a safety backup.
BeginRestore(i) == i \in DOMAIN backups /\ Begin("restore", "copy", NoValue, backups[i])

\* Seeded fault: up does not take the maintenance lock.
UpUnlocked ==
    /\ commands < MaxCommands
    /\ files.manifest # Torn
    /\ Started \/ NotStarted
    /\ commands' = commands + 1
    /\ UNCHANGED <<files, backups, acked, cmd>>

Up ==
    /\ cmd.kind = "none"
    /\ commands < MaxCommands
    /\ files.manifest # Torn
    /\ Started \/ NotStarted
    /\ commands' = commands + 1
    /\ UNCHANGED <<files, backups, acked, cmd>>

-------------------------------------------------------------------------------
(***************************************************************************)
(* Backup, for itself or for a change or a restore                         *)
(***************************************************************************)

Copy ==
    /\ At("copy")
    /\ \/ cmd' = [cmd EXCEPT !.step = "stopAll", !.own = [files |-> files, data |-> volume]]
       \/ FaultTo("done")
    /\ UNCHANGED <<machine, commands>>

\* A stop that fails returns before the deferred up.
StopAll ==
    /\ At("stopAll")
    /\ \/ Stopped(TRUE) /\ Go("archive")
       \/ StoppedInPart(TRUE) /\ FaultTo("done")
    /\ UNCHANGED <<files, volume, backups, acked, commands>>

Archive ==
    /\ At("archive")
    /\ \/ cmd' = [cmd EXCEPT !.step = "seal", !.own.data = volume]
       \/ FaultTo("upAgain")
    /\ UNCHANGED <<machine, commands>>

\* backup.json, with all the hashes, comes last: without it nothing verifies.
Seal ==
    /\ At("seal")
    /\ \/ backups' = Append(backups, cmd.own) /\ Go("upAgain")
       \/ backups' = backups /\ FaultTo("upAgain")
    /\ UNCHANGED <<files, volume, control, core, acked, commands>>

\* Seeded fault: a restore goes on when its safety backup failed.
AfterBackupAnyway ==
    CASE cmd.kind = "change" /\ ~cmd.failed -> "env"
      [] cmd.kind = "restore" -> "down"
      [] cmd.kind = "remote" /\ ~cmd.failed -> "upload"
      [] OTHER -> "done"

AfterBackup ==
    CASE cmd.kind = "change" /\ ~cmd.failed -> "env"
      [] cmd.kind = "restore" /\ ~cmd.failed -> "down"
      [] cmd.kind = "remote" /\ ~cmd.failed -> "upload"
      [] OTHER -> "done"

UpAgain ==
    /\ At("upAgain")
    /\ \/ Started /\ cmd' = [cmd EXCEPT !.step = AfterBackup, !.old = files]
       \/ UpFails("done")
    /\ UNCHANGED <<files, backups, acked, commands>>

-------------------------------------------------------------------------------
(***************************************************************************)
(* A change of release                                                     *)
(***************************************************************************)

\* The images are pulled, and the target's own server checks the migration.
CheckMigration(from, to) == SchemaOf[from] <= SchemaOf[to]

Preflight ==
    /\ At("preflight")
    /\ \/ CheckMigration(files.manifest.release, cmd.target.release) /\ Go("copy")
       \/ ~CheckMigration(files.manifest.release, cmd.target.release) /\ GoFailed("done")
       \/ FaultTo("done")
    /\ UNCHANGED <<machine, commands>>

\* The write of a file fails before or after the file was cut.
WriteFile(file, value, next, onFault) ==
    /\ \/ files' = [files EXCEPT ![file] = value] /\ Go(next)
       \/ files' \in {files, [files EXCEPT ![file] = Torn]} /\ FaultTo(onFault)
    /\ UNCHANGED <<volume, control, core, backups, acked, commands>>

\* Seeded fault: an upgrade that finds its release in .env takes it for written.
WriteEnvUnlessThere ==
    /\ At("env")
    /\ IF files.env = cmd.target.release
        THEN Go("stop") /\ UNCHANGED <<machine, commands>>
        ELSE WriteFile("env", cmd.target.release, "manifest", "done")

WriteEnv == At("env") /\ WriteFile("env", cmd.target.release, "manifest", "done")
WriteManifest == At("manifest") /\ WriteFile("manifest", cmd.target, "bundle", "undo")
WriteBundle == At("bundle") /\ WriteFile("bundle", "new", "stop", "undo")

\* Some of the files are those of f, and one may be cut.
FilesInPart(f) ==
    files' \in {[env |-> e, manifest |-> m, bundle |-> b]:
                    e \in {files.env, f.env, Torn}, m \in {files.manifest, f.manifest, Torn},
                    b \in {files.bundle, f.bundle, Torn}}

\* Seeded fault: the manifest is not among the files that are put back.
UndoButManifest ==
    /\ At("undo")
    /\ \/ files' = [cmd.old EXCEPT !.manifest = files.manifest] /\ Go("done")
       \/ FilesInPart(cmd.old) /\ FaultTo("done")
    /\ UNCHANGED <<volume, control, core, backups, acked, commands>>

\* restoreOldFiles, which ignores the errors of its four writes.
Undo ==
    /\ At("undo")
    /\ \/ files' = cmd.old /\ Go("done")
       \/ FilesInPart(cmd.old) /\ FaultTo("done")
    /\ UNCHANGED <<volume, control, core, backups, acked, commands>>

Stop ==
    /\ At("stop")
    /\ \/ Stopped(FALSE) /\ Go("migrate")
       \/ StoppedInPart(FALSE) /\ FaultTo("revert")
    /\ UNCHANGED <<files, volume, backups, acked, commands>>

Migrate ==
    /\ At("migrate")
    /\ LET from == SchemaOf[cmd.old.manifest.release]
           to == SchemaOf[cmd.target.release] IN
        \/ /\ volume.schema \in {from, to}
           /\ volume' = [volume EXCEPT !.schema = to]
           /\ Go("up")
        \/ volume.schema \notin {from, to} /\ volume' = volume /\ GoFailed("revert")
        \/ volume' \in {volume, [volume EXCEPT !.schema = to]} /\ FaultTo("revert")
    /\ UNCHANGED <<files, control, core, backups, acked, commands>>

UpNew ==
    /\ At("up")
    /\ \/ Started /\ Go("done")
       \/ UpFails("revert")
    /\ UNCHANGED <<files, backups, acked, commands>>

\* Seeded fault: the files are put back, and no backup is given to restore.
RevertFilesOnly ==
    /\ At("revert")
    /\ \/ files' = cmd.old /\ Go("down")
       \/ FilesInPart(cmd.old) /\ FaultTo("done")
    /\ UNCHANGED <<volume, control, core, backups, acked, commands>>

\* restoreFailedRelease: the old files, and then the data of the backup.
Revert ==
    /\ At("revert")
    /\ \/ files' = cmd.old /\ cmd' = [cmd EXCEPT !.step = "down", !.from = cmd.own]
       \/ FilesInPart(cmd.old) /\ FaultTo("done")
    /\ UNCHANGED <<volume, control, core, backups, acked, commands>>

-------------------------------------------------------------------------------
(***************************************************************************)
(* Restore                                                                 *)
(***************************************************************************)

\* A down that fails returns before the deferred up.
Down ==
    /\ At("down")
    /\ \/ Stopped(TRUE) /\ Go("unpack")
       \/ StoppedInPart(TRUE) /\ FaultTo("done")
    /\ UNCHANGED <<files, volume, backups, acked, commands>>

\* The volume is emptied and filled from the archive: not at all or in part, when
\* that fails.
Unpack ==
    /\ At("unpack")
    /\ \/ volume' = cmd.from.data /\ Go("config")
       \/ /\ \/ volume' = volume
             \/ volume' \in [writes: SUBSET cmd.from.data.writes,
                             schema: {0, cmd.from.data.schema}, whole: {FALSE}]
          /\ FaultTo("upLast")
    /\ UNCHANGED <<files, control, core, backups, acked, commands>>

CopyBack ==
    /\ At("config")
    /\ \/ files' = cmd.from.files /\ Go("upLast")
       \/ FilesInPart(cmd.from.files) /\ FaultTo("upLast")
    /\ UNCHANGED <<volume, control, core, backups, acked, commands>>

\* The deferred up, whatever was restored.
UpLast ==
    /\ At("upLast")
    /\ \/ Started /\ Go("done")
       \/ UpFails("done")
    /\ UNCHANGED <<files, backups, acked, commands>>

\* The command returns, or it is killed while docker does nothing for it: the lock is
\* free, the containers go on.
Release ==
    /\ cmd.kind # "none"
    /\ cmd' = NoCommand
    /\ UNCHANGED <<machine, commands>>

-------------------------------------------------------------------------------

Next ==
    \/ Write
    \/ BeginBackup
    \/ \E r \in Releases: BeginUpgrade(r)
    \/ BeginRollback
    \/ \E i \in DOMAIN backups: BeginRestore(i)
    \/ Up
    \/ Copy \/ StopAll \/ Archive \/ Seal \/ UpAgain
    \/ Preflight \/ WriteEnv \/ WriteManifest \/ WriteBundle \/ Undo
    \/ Stop \/ Migrate \/ UpNew \/ Revert
    \/ Down \/ Unpack \/ CopyBack \/ UpLast
    \/ Release

Spec == Init /\ [][Next]_vars

-------------------------------------------------------------------------------
(***************************************************************************)
(* Properties                                                              *)
(***************************************************************************)

\* The volume is copied and replaced only while no container of the deployment runs.
\* KilledCommands says when that is so.
CopiesAreQuiet ==
    cmd.step \in {"archive", "unpack"} => control = NoValue /\ ~core

\* A write that was answered leaves the volume only if a verified backup has it, or
\* if it was answered after the command's own backup had been taken.
SavedBeforeReplaced ==
    [][\A w \in volume.writes \ volume'.writes:
        w \in cmd.late \/ \E i \in DOMAIN backups: w \in backups[i].data.writes]_vars

\* A change that succeeds leaves the release it was asked for, with all the files and
\* the schema in agreement and everything running, and a restore that succeeds the
\* files of the backup, likewise: also when they began with the mixture of old and new
\* files, data and containers that a command left which failed or was killed.
SuccessMends ==
    At("done") /\ ~cmd.failed =>
        /\ cmd.kind = "change" /\ volume.whole =>
                Healthy /\ files.manifest = cmd.target
        /\ cmd.kind = "restore" /\ Fit(cmd.from.files, cmd.from.data) =>
                Healthy /\ files = cmd.from.files

\* The steps whose failure alone leaves a command's deployment unhealthy.
Unhealed(kind) ==
    {"stopAll", "upAgain"}
        \cup (IF kind = "change" THEN {"env"} ELSE {})
        \cup (IF kind = "restore" THEN RestoreSteps ELSE {})

\* A command that finds a healthy deployment leaves a healthy one, if at most one
\* of its steps fails and not one of those: a change of release ends with the new
\* release or with the old one and its data, never with a mixture.
OneFaultHeals ==
    At("done") /\ cmd.fit /\ Cardinality(cmd.faults) <= 1
               /\ cmd.faults \cap Unhealed(cmd.kind) = {}
        => Healthy

===============================================================================
