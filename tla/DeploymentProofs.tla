--------------------------- MODULE DeploymentProofs ---------------------------
(***************************************************************************)
(* Theorems about Deployment and RemoteBackup together (RemoteSpec), for   *)
(* any releases, schemas, repositories and passwords and any bounds.       *)
(*                                                                         *)
(* A command is one sequence of steps that may stop anywhere.  The         *)
(* invariant says which steps a command of each kind can be at, and what   *)
(* it has established by then: that the containers are stopped, that its   *)
(* own backup has the data, that the repository has its snapshot.          *)
(***************************************************************************)
EXTENDS RemoteBackup, SequenceTheorems, TLAPS

Job == [input: Conf, conf: ConfFile, recovery: RecoveryFile, fit: BOOLEAN]

LocalTypes ==
    /\ files \in Files
    /\ volume \in Volume
    /\ control \in Releases \cup {NoValue}
    /\ core \in BOOLEAN
    /\ backups \in Seq(BackupDir)
    /\ acked \in 0 .. MaxWrites
    /\ cmd \in Command
    /\ commands \in 0 .. MaxCommands

RemoteTypes ==
    /\ conf \in ConfFile
    /\ recovery \in RecoveryFile
    /\ repos \in [Repos -> Repo \cup {NoValue}]
    /\ status \in Status
    /\ job \in Job \cup {NoValue}

Types == LocalTypes /\ RemoteTypes

ConfSteps == {"conf", "recovery", "init", "open", "unconf"}
AfterOwn == ChangeSteps \ {"preflight"}
OwnSteps ==
    AfterOwn \cup RestoreSteps
        \cup {"stopAll", "archive", "seal", "upAgain", "upload", "forget", "status", "prune"}

\* The steps of a command of each kind.
StepsOf(kind) ==
    CASE kind = "none" -> {"done"}
      [] kind = "backup" -> BackupSteps \cup {"done"}
      [] kind = "change" -> BackupSteps \cup ChangeSteps \cup RestoreSteps \cup {"done"}
      [] kind = "restore" -> {"download"} \cup BackupSteps \cup RestoreSteps \cup {"done"}
      [] kind = "remote" -> BackupSteps \cup {"upload", "forget", "status", "prune", "done"}
      [] kind = "configure" -> ConfSteps \cup {"done"}
      [] kind = "check" -> {"check", "test", "done"}

\* What a command has read or made by the step that it is at.
Shape ==
    /\ cmd.step \in StepsOf(cmd.kind)
    /\ cmd.kind = "change" => cmd.target \in Manifest
    /\ cmd.kind = "restore" => cmd.from \in BackupDir
    /\ cmd.kind \in {"remote", "check"} => conf \in Conf
    /\ cmd.kind = "configure" => job \in Job
    /\ cmd.step \in {"recovery", "init", "open"} => conf = job.input
    /\ cmd.step \in {"init", "open"} => recovery = job.input.password
    /\ cmd.step \in OwnSteps => cmd.own \in BackupDir
    /\ cmd.step \in AfterOwn => cmd.old \in Files
    /\ cmd.step \in RestoreSteps => cmd.from \in BackupDir

\* What is known of the repositories at each step: the status that is about to be
\* written, and the one that was, has a snapshot behind it.
HasSnapshot(r) == repos[r] # NoValue /\ repos[r].snaps # {}

Snapshots ==
    /\ cmd.step \in {"forget", "test"} => Opens(conf)
    /\ cmd.step = "status" => HasSnapshot(conf.repo)
    /\ status.backup # NoValue => HasSnapshot(status.backup)
    /\ status.tested # NoValue => HasSnapshot(status.tested)

Safe == Types /\ Shape

\* The step of a command that goes on.
Moved(step) ==
    /\ cmd' \in Command
    /\ cmd'.step = step
    /\ cmd'.kind = cmd.kind
    /\ cmd'.target = cmd.target
    /\ cmd'.old = cmd.old
    /\ cmd'.own = cmd.own
    /\ cmd'.from = cmd.from
    /\ cmd'.late = cmd.late
    /\ cmd.failed => cmd'.failed
    /\ cmd.faults \subseteq cmd'.faults

-------------------------------------------------------------------------------
(***************************************************************************)
(* The operators                                                           *)
(***************************************************************************)

\* A command that goes on keeps what it has.
LEMMA Moves ==
    ASSUME cmd \in Command, NEW step \in Steps,
           Go(step) \/ GoFailed(step) \/ FaultTo(step)
    PROVE  Moved(step)
    <1>1. CASE Go(step)
        BY <1>1 DEF Go, Moved, Command
    <1>2. CASE GoFailed(step)
        BY <1>2 DEF GoFailed, Moved, Command
    <1>3. CASE FaultTo(step)
        <2> DEFINE faults == cmd.faults \cup {cmd.step}
        <2>1. cmd' = [cmd EXCEPT !.step = step, !.failed = TRUE, !.faults = faults]
            BY <1>3 DEF FaultTo
        <2>2. faults \in SUBSET Steps /\ cmd.faults \subseteq faults
            BY DEF Command
        <2> HIDE DEF faults
        <2> QED BY <2>1, <2>2 DEF Moved, Command
    <1> QED BY <1>1, <1>2, <1>3

\* A step that fails is remembered.
LEMMA Faults ==
    ASSUME cmd \in Command, NEW step \in Steps, FaultTo(step)
    PROVE  cmd.step \in cmd'.faults
    BY DEF FaultTo, Command

\* The newest elements of a sequence are elements of it.
LEMMA NewestType ==
    ASSUME NEW S, NEW s \in Seq(S), NEW n \in Nat \ {0}
    PROVE  Newest(s, n) \in Seq(S)
    <1>1. CASE Len(s) > n
        <2> DEFINE m == Len(s) - n + 1
        <2>1. m \in 1 .. Len(s) /\ Len(s) \in Int
            BY <1>1
        <2>2. \A i \in m .. Len(s): s[i] \in S
            BY <2>1
        <2> HIDE DEF m
        <2>3. SubSeq(s, m, Len(s)) \in Seq(S)
            BY <2>1, <2>2, SubSeqProperties
        <2> QED BY <1>1, <2>3 DEF Newest, m
    <1>2. CASE ~(Len(s) > n)
        BY <1>2 DEF Newest
    <1> QED BY <1>1, <1>2

LEMMA KeptType ==
    ASSUME NEW previous \in Seq(Releases), NEW r \in Releases
    PROVE  Kept(previous, r) \in Seq(Releases)
    <1>1. Append(previous, r) \in Seq(Releases)
        OBVIOUS
    <1>2. MaxHistory \in Nat \ {0}
        BY DeploymentAssumption
    <1> QED BY <1>1, <1>2, NewestType DEF Kept

LEMMA NoValueIsNone ==
    /\ NoValue \notin Manifest /\ NoValue \notin Files /\ NoValue \notin BackupDir
    /\ NoValue \notin Releases /\ Torn \notin Releases
    BY DeploymentAssumption

\* An up that succeeds runs the release of .env on the data that is there.
LEMMA StartedType ==
    ASSUME Types, Started
    PROVE  /\ volume' \in Volume /\ volume'.writes = volume.writes
           /\ control' \in Releases \cup {NoValue} /\ core' \in BOOLEAN
    <1>1. files.env \in Releases
        BY DEF Started, CanStart, Types, LocalTypes, Files
    <1>2. SchemaOf[files.env] \in Nat
        BY <1>1, DeploymentAssumption
    <1> QED BY <1>1, <1>2 DEF Started, Types, LocalTypes, Volume

LEMMA StartedInPartType ==
    ASSUME Types, NEW r \in Releases, StartedInPart(r)
    PROVE  /\ volume' \in Volume /\ volume'.writes = volume.writes
           /\ control' \in Releases \cup {NoValue} /\ core' \in BOOLEAN
    <1>1. SchemaOf[r] \in Nat
        BY DeploymentAssumption
    <1> QED BY <1>1 DEF StartedInPart, Types, LocalTypes, Volume

\* One that fails writes nothing either, and a schema at most.
LEMMA NotStartedType ==
    ASSUME Types, NotStarted
    PROVE  /\ volume' \in Volume /\ volume'.writes = volume.writes
           /\ control' \in Releases \cup {NoValue} /\ core' \in BOOLEAN
    <1>1. CASE CanStart /\ StartedInPart(files.env)
        <2>1. files.env \in Releases
            BY <1>1 DEF CanStart, Types, LocalTypes, Files
        <2> QED BY <1>1, <2>1, StartedInPartType
    <1>2. CASE ~CanStart /\ control' \in {NoValue, control} /\ core' \in BOOLEAN /\ volume' = volume
        BY <1>2 DEF Types, LocalTypes
    <1> QED BY <1>1, <1>2 DEF NotStarted

\* Containers that stop stop in whole or in part.
LEMMA StoppedType ==
    ASSUME Types, NEW withCore \in BOOLEAN, Stopped(withCore) \/ StoppedInPart(withCore)
    PROVE  control' \in Releases \cup {NoValue} /\ core' \in BOOLEAN
    BY DEF Stopped, StoppedInPart, Types, LocalTypes

\* Files that were put back in whole or in part are files.
LEMMA FilesInPartType ==
    ASSUME Types, NEW f \in Files, files' = f \/ FilesInPart(f)
    PROVE  files' \in Files
    <1>1. CASE files' = f
        BY <1>1
    <1>2. CASE FilesInPart(f)
        <2>1. PICK e \in {files.env, f.env, Torn}, m \in {files.manifest, f.manifest, Torn},
                   b \in {files.bundle, f.bundle, Torn}:
                files' = [env |-> e, manifest |-> m, bundle |-> b]
            BY <1>2 DEF FilesInPart
        <2> QED BY <2>1 DEF Types, LocalTypes, Files
    <1> QED BY <1>1, <1>2

-------------------------------------------------------------------------------
(***************************************************************************)
(* Types                                                                   *)
(***************************************************************************)

Kinds == {"none", "backup", "change", "restore", "remote", "configure", "check"}

\* What every command starts with.
LEMMA BeginFields ==
    ASSUME Types, NEW kind \in Kinds, NEW step \in Steps,
           NEW target \in Manifest \cup {NoValue}, NEW from \in BackupDir \cup {NoValue},
           Begin(kind, step, target, from)
    PROVE  /\ LocalTypes'
           /\ cmd.kind = "none" /\ files.manifest \in Manifest
           /\ cmd'.kind = kind /\ cmd'.step = step /\ cmd'.target = target
           /\ cmd'.from = from /\ cmd'.own = NoValue /\ ~cmd'.failed
           /\ cmd'.faults = {} /\ UNCHANGED machine
    <1> DEFINE fit == Healthy /\ (from # NoValue => Fit(from.files, from.data))
    <1>1. fit \in BOOLEAN
        OBVIOUS
    <1>2. cmd' = [NoCommand EXCEPT !.kind = kind, !.step = step, !.target = target,
                                   !.from = from, !.fit = fit]
        BY DEF Begin
    <1> HIDE DEF fit
    <1>3. cmd' \in Command
        BY <1>1, <1>2 DEF NoCommand, Command, Kinds, Steps
    <1>4. /\ cmd'.kind = kind /\ cmd'.step = step /\ cmd'.target = target
          /\ cmd'.from = from /\ cmd'.own = NoValue /\ ~cmd'.failed
          /\ cmd'.faults = {}
        BY <1>2 DEF NoCommand
    <1>5. commands' \in 0 .. MaxCommands
        BY DeploymentAssumption DEF Begin, Types, LocalTypes
    <1>6. UNCHANGED machine /\ cmd.kind = "none" /\ files.manifest \in Manifest
        BY DEF Begin, Types, LocalTypes, Files
    <1> QED BY <1>3, <1>4, <1>5, <1>6 DEF Types, LocalTypes, machine

\* The inputs of the commands that start.
LEMMA BeginInputs ==
    ASSUME Safe
    PROVE  /\ BeginBackup => Begin("backup", "copy", NoValue, NoValue)
           /\ \A r \in Releases: BeginUpgrade(r) =>
                \E target \in Manifest: Begin("change", "preflight", target, NoValue)
           /\ BeginRollback =>
                \E target \in Manifest: Begin("change", "preflight", target, NoValue)
           /\ \A i \in DOMAIN backups: BeginRestore(i) =>
                /\ backups[i] \in BackupDir
                /\ Begin("restore", "copy", NoValue, backups[i])
    <1> USE DEF Safe, Types, LocalTypes
    <1>1. BeginBackup => Begin("backup", "copy", NoValue, NoValue)
        BY DEF BeginBackup
    <1>2. ASSUME NEW r \in Releases, BeginUpgrade(r)
          PROVE  \E target \in Manifest: Begin("change", "preflight", target, NoValue)
        <2>1. files.manifest \in Manifest
            BY <1>2 DEF BeginUpgrade, Files
        <2>2. files.manifest.previous \in Seq(Releases) /\ files.manifest.release \in Releases
            BY <2>1 DEF Manifest
        <2>3. Kept(files.manifest.previous, files.manifest.release) \in Seq(Releases)
            BY <2>2, KeptType
        <2>4. [release |-> r, previous |-> Kept(files.manifest.previous, files.manifest.release)]
                \in Manifest
            BY <2>3 DEF Manifest
        <2> QED BY <1>2, <2>4 DEF BeginUpgrade
    <1>3. ASSUME BeginRollback
          PROVE  \E target \in Manifest: Begin("change", "preflight", target, NoValue)
        <2>1. files.manifest \in Manifest
            BY <1>3 DEF BeginRollback, Files
        <2> DEFINE previous == files.manifest.previous
                   n == Len(previous)
        <2>2. previous \in Seq(Releases) /\ files.manifest.release \in Releases
            BY <2>1 DEF Manifest
        <2>3. n \in Nat /\ n > 0
            BY <1>3, <2>2 DEF BeginRollback
        <2>4. previous[n] \in Releases /\ SubSeq(previous, 1, n - 1) \in Seq(Releases)
            <3>1. \A i \in 1 .. n: previous[i] \in Releases
                BY <2>2
            <3>2. n \in 1 .. n /\ 1 .. (n - 1) \subseteq 1 .. n /\ n - 1 \in Int
                BY <2>3
            <3> HIDE DEF n, previous
            <3> QED BY <3>1, <3>2, SubSeqProperties
        <2>5. Kept(SubSeq(previous, 1, n - 1), files.manifest.release) \in Seq(Releases)
            BY <2>2, <2>4, KeptType
        <2>6. [release |-> previous[n],
               previous |-> Kept(SubSeq(previous, 1, n - 1), files.manifest.release)] \in Manifest
            BY <2>4, <2>5 DEF Manifest
        <2> QED BY <1>3, <2>6 DEF BeginRollback
    <1>4. ASSUME NEW i \in DOMAIN backups, BeginRestore(i)
          PROVE  backups[i] \in BackupDir /\ Begin("restore", "copy", NoValue, backups[i])
        BY <1>4 DEF BeginRestore
    <1> QED BY <1>1, <1>2, <1>3, <1>4

\* A command goes on to a step that has what it needs.
LEMMA ShapeMoves ==
    ASSUME Safe, NEW step \in Steps, Moved(step),
           UNCHANGED <<conf, recovery>>, job' = job \/ cmd'.kind = "none",
           step \in StepsOf(cmd.kind), step \notin {"recovery", "init", "open"},
           step \in OwnSteps => cmd.own \in BackupDir,
           step \in AfterOwn => cmd.old \in Files,
           step \in RestoreSteps => cmd.from \in BackupDir
    PROVE  Shape'
    <1>1. cmd'.step = step /\ cmd'.kind = cmd.kind /\ cmd'.target = cmd.target
          /\ cmd'.from = cmd.from /\ cmd'.own = cmd.own /\ cmd'.old = cmd.old
        BY DEF Moved
    <1> QED BY <1>1 DEF Safe, Shape

\* The kinds of command that can be at a step.
LEMMA KindOfStep ==
    ASSUME Safe
    PROVE  /\ cmd.kind \in Kinds
           /\ cmd.step \in BackupSteps => cmd.kind \in {"backup", "change", "restore", "remote"}
           /\ cmd.step \in ChangeSteps => cmd.kind = "change"
           /\ cmd.step \in RestoreSteps => cmd.kind \in {"change", "restore"}
           /\ cmd.step = "download" => cmd.kind = "restore"
           /\ cmd.step \in {"upload", "forget", "status", "prune"} => cmd.kind = "remote"
           /\ cmd.step \in ConfSteps => cmd.kind = "configure"
           /\ cmd.step \in {"check", "test"} => cmd.kind = "check"
           /\ cmd.kind = "none" => cmd.step = "done"
    <1>1. cmd.kind \in Kinds
        BY DEF Safe, Types, LocalTypes, Command, Kinds
    <1>2. cmd.step \in StepsOf(cmd.kind)
        BY DEF Safe, Shape
    <1> QED BY <1>1, <1>2
            DEF StepsOf, Kinds, BackupSteps, ChangeSteps, RestoreSteps, ConfSteps

\* Every kind of command has the steps that come next in it.
LEMMA StepsOfKind ==
    /\ \A kind \in Kinds: "done" \in StepsOf(kind)
    /\ \A kind \in {"backup", "change", "restore", "remote"}: BackupSteps \subseteq StepsOf(kind)
    /\ ChangeSteps \subseteq StepsOf("change")
    /\ \A kind \in {"change", "restore"}: RestoreSteps \subseteq StepsOf(kind)
    /\ {"upload", "forget", "status", "prune"} \subseteq StepsOf("remote")
    /\ ConfSteps \subseteq StepsOf("configure")
    /\ {"check", "test"} \subseteq StepsOf("check")
    /\ "download" \in StepsOf("restore")
    BY DEF StepsOf, Kinds

\* The steps of the backup that a command makes.
LEMMA BackupMoves ==
    ASSUME Safe, UNCHANGED <<conf, recovery>>, job' = job \/ cmd'.kind = "none"
    PROVE  /\ Copy => LocalTypes' /\ Shape'
           /\ StopAll => LocalTypes' /\ Shape'
           /\ Archive => LocalTypes' /\ Shape'
           /\ Seal => LocalTypes' /\ Shape'
           /\ UpAgain => LocalTypes' /\ Shape'
    <1> USE DEF Safe, Types
    <1>0. cmd \in Command
        BY DEF LocalTypes
    <1>1. ASSUME Copy PROVE LocalTypes' /\ Shape'
        <2>1. CASE FaultTo("done")
            <3>1. Moved("done")
                BY <1>0, <2>1, Moves DEF Steps
            <3>2. LocalTypes'
                BY <1>1, <3>1 DEF Copy, LocalTypes, machine, Moved
            <3>3. Shape'
                BY <3>1, ShapeMoves, KindOfStep, StepsOfKind
                   DEF Steps, OwnSteps, AfterOwn, ChangeSteps, RestoreSteps
            <3> QED BY <3>2, <3>3
        <2>2. CASE ~FaultTo("done")
            <3> DEFINE own == [files |-> files, data |-> volume]
            <3>1. own \in BackupDir
                BY DEF LocalTypes, BackupDir
            <3>2. cmd' = [cmd EXCEPT !.step = "stopAll", !.own = own]
                BY <1>1, <2>2 DEF Copy
            <3> HIDE DEF own
            <3>3. cmd' \in Command
                BY <1>0, <3>1, <3>2 DEF Command, Steps, BackupSteps
            <3>4. /\ cmd'.step = "stopAll" /\ cmd'.own = own /\ cmd'.kind = cmd.kind
                  /\ cmd'.target = cmd.target /\ cmd'.from = cmd.from
                BY <1>0, <3>2 DEF Command
            <3>5. LocalTypes'
                BY <1>1, <3>3 DEF Copy, LocalTypes, machine
            <3>6. cmd.step = "copy"
                BY <1>1 DEF Copy, At
            <3>7. "stopAll" \in StepsOf(cmd.kind)
                BY <3>6, KindOfStep, StepsOfKind DEF BackupSteps
            <3>8. Shape'
                BY <3>1, <3>4, <3>7 DEF Shape, AfterOwn, ChangeSteps, RestoreSteps
            <3> QED BY <3>5, <3>8
        <2> QED BY <2>1, <2>2
    <1>2. ASSUME StopAll PROVE LocalTypes' /\ Shape'
        <2>1. cmd.step = "stopAll" /\ cmd.own \in BackupDir
            BY <1>2 DEF StopAll, At, Shape, OwnSteps
        <2>2. PICK next \in {"archive", "done"}: Moved(next)
            BY <1>0, <1>2, Moves DEF StopAll, Steps, BackupSteps
        <2>3. control' \in Releases \cup {NoValue} /\ core' \in BOOLEAN
            BY <1>2, StoppedType DEF StopAll
        <2>4. LocalTypes'
            BY <1>2, <2>2, <2>3 DEF StopAll, LocalTypes, Moved
        <2>5. next \in StepsOf(cmd.kind) /\ next \in Steps
            BY <2>1, <2>2, KindOfStep, StepsOfKind DEF BackupSteps, Steps
        <2>6. Shape'
            BY <2>1, <2>2, <2>5, ShapeMoves DEF AfterOwn, ChangeSteps, RestoreSteps
        <2> QED BY <2>4, <2>6
    <1>3. ASSUME Archive PROVE LocalTypes' /\ Shape'
        <2>1. cmd.step = "archive" /\ cmd.own \in BackupDir
            BY <1>3 DEF Archive, At, Shape, OwnSteps
        <2>2. CASE FaultTo("upAgain")
            <3>1. Moved("upAgain")
                BY <1>0, <2>2, Moves DEF Steps, BackupSteps
            <3>2. LocalTypes'
                BY <1>3, <3>1 DEF Archive, LocalTypes, machine, Moved
            <3>3. "upAgain" \in StepsOf(cmd.kind) /\ "upAgain" \in Steps
                BY <2>1, KindOfStep, StepsOfKind DEF BackupSteps, Steps
            <3>4. Shape'
                BY <2>1, <3>1, <3>3, ShapeMoves DEF AfterOwn, ChangeSteps, RestoreSteps
            <3> QED BY <3>2, <3>4
        <2>3. CASE ~FaultTo("upAgain")
            <3> DEFINE own == [cmd.own EXCEPT !.data = volume]
            <3>1. own \in BackupDir
                BY <2>1 DEF LocalTypes, BackupDir
            <3>2. cmd' = [cmd EXCEPT !.step = "seal", !.own = own]
                BY <1>0, <1>3, <2>3 DEF Archive, Command
            <3> HIDE DEF own
            <3>3. cmd' \in Command
                BY <1>0, <3>1, <3>2 DEF Command, Steps, BackupSteps
            <3>4. /\ cmd'.step = "seal" /\ cmd'.own = own /\ cmd'.kind = cmd.kind
                  /\ cmd'.target = cmd.target /\ cmd'.from = cmd.from
                BY <1>0, <3>2 DEF Command
            <3>5. LocalTypes'
                BY <1>3, <3>3 DEF Archive, LocalTypes, machine
            <3>7. "seal" \in StepsOf(cmd.kind)
                BY <2>1, KindOfStep, StepsOfKind DEF BackupSteps
            <3>8. Shape'
                BY <3>1, <3>4, <3>7 DEF Shape, AfterOwn, ChangeSteps, RestoreSteps
            <3> QED BY <3>5, <3>8
        <2> QED BY <2>2, <2>3
    <1>4. ASSUME Seal PROVE LocalTypes' /\ Shape'
        <2>1. cmd.step = "seal" /\ cmd.own \in BackupDir
            BY <1>4 DEF Seal, At, Shape, OwnSteps
        <2>2. Moved("upAgain")
            BY <1>0, <1>4, Moves DEF Seal, Steps, BackupSteps
        <2>3. backups' \in Seq(BackupDir)
            BY <1>4, <2>1 DEF Seal, LocalTypes
        <2>4. LocalTypes'
            BY <1>4, <2>2, <2>3 DEF Seal, LocalTypes, Moved
        <2>5. "upAgain" \in StepsOf(cmd.kind) /\ "upAgain" \in Steps
            BY <2>1, KindOfStep, StepsOfKind DEF BackupSteps, Steps
        <2>6. Shape'
            BY <2>1, <2>2, <2>5, ShapeMoves DEF AfterOwn, ChangeSteps, RestoreSteps
        <2> QED BY <2>4, <2>6
    <1>5. ASSUME UpAgain PROVE LocalTypes' /\ Shape'
        <2>1. cmd.step = "upAgain" /\ cmd.own \in BackupDir
            BY <1>5 DEF UpAgain, At, Shape, OwnSteps
        <2>2. CASE Started /\ cmd' = [cmd EXCEPT !.step = AfterBackup, !.old = files]
            <3> DEFINE next == AfterBackup
            <3>1. next \in {"env", "down", "upload", "done"}
                BY DEF AfterBackup
            <3>2. next \in StepsOf(cmd.kind) /\ (next = "down" => cmd.kind = "restore")
                BY <2>1, KindOfStep, StepsOfKind DEF AfterBackup, BackupSteps, ChangeSteps, RestoreSteps
            <3>3. cmd' = [cmd EXCEPT !.step = next, !.old = files]
                BY <2>2
            <3> HIDE DEF next
            <3>4. cmd' \in Command
                BY <1>0, <3>1, <3>3
                   DEF LocalTypes, Command, Steps, ChangeSteps, RestoreSteps, RemoteSteps
            <3>5. /\ cmd'.step = next /\ cmd'.own = cmd.own /\ cmd'.kind = cmd.kind
                  /\ cmd'.target = cmd.target /\ cmd'.from = cmd.from /\ cmd'.old = files
                BY <1>0, <3>3 DEF Command
            <3>6. LocalTypes'
                BY <1>5, <2>2, <3>4, StartedType DEF UpAgain, LocalTypes
            <3>7. Shape'
                BY <2>1, <3>1, <3>2, <3>5
                   DEF Shape, LocalTypes, OwnSteps, AfterOwn, ChangeSteps, RestoreSteps
            <3> QED BY <3>6, <3>7
        <2>3. CASE UpFails("done")
            <3>1. Moved("done")
                BY <1>0, <2>3, Moves DEF UpFails, Steps
            <3>2. LocalTypes'
                BY <1>5, <2>3, <3>1, NotStartedType DEF UpAgain, UpFails, LocalTypes, Moved
            <3>3. Shape'
                BY <3>1, ShapeMoves, KindOfStep, StepsOfKind
                   DEF Steps, OwnSteps, AfterOwn, ChangeSteps, RestoreSteps
            <3> QED BY <3>2, <3>3
        <2> QED BY <1>5, <2>2, <2>3 DEF UpAgain
    <1> QED BY <1>1, <1>2, <1>3, <1>4, <1>5

\* The steps of a change of release.
LEMMA ChangeMoves ==
    ASSUME Safe, UNCHANGED <<conf, recovery>>, job' = job \/ cmd'.kind = "none"
    PROVE  /\ Preflight => LocalTypes' /\ Shape'
           /\ WriteEnv \/ WriteManifest \/ WriteBundle => LocalTypes' /\ Shape'
           /\ Undo => LocalTypes' /\ Shape'
           /\ Stop => LocalTypes' /\ Shape'
           /\ Migrate => LocalTypes' /\ Shape'
           /\ UpNew => LocalTypes' /\ Shape'
           /\ Revert => LocalTypes' /\ Shape'
    <1> USE DEF Safe, Types
    <1>0. cmd \in Command
        BY DEF LocalTypes
    \* Where a step of a change may go on to.
    <1>a. ASSUME NEW next \in {"copy", "done"} \cup AfterOwn, Moved(next), cmd.step \in ChangeSteps,
                 next \in AfterOwn => cmd.step \in AfterOwn
          PROVE  Shape'
        <2>1. cmd.kind = "change"
            BY <1>a, KindOfStep
        <2>2. next \in StepsOf(cmd.kind) /\ next \in Steps
            BY <2>1, KindOfStep, StepsOfKind DEF AfterOwn, BackupSteps, ChangeSteps, Steps
        <2>3. next \in OwnSteps \cup AfterOwn => cmd.own \in BackupDir /\ cmd.old \in Files
            BY <1>a DEF Shape, OwnSteps, AfterOwn, ChangeSteps, RestoreSteps
        <2>4. next \notin RestoreSteps \cup {"recovery", "init", "open"}
            BY DEF AfterOwn, ChangeSteps, RestoreSteps
        <2> QED BY <1>a, <2>2, <2>3, <2>4, ShapeMoves
    <1>b. AfterOwn \subseteq ChangeSteps /\ {"copy", "done"} \cup AfterOwn \subseteq Steps
        BY DEF AfterOwn, ChangeSteps, Steps, BackupSteps
    <1>1. ASSUME Preflight PROVE LocalTypes' /\ Shape'
        <2>1. PICK next \in {"copy", "done"}: Moved(next)
            BY <1>0, <1>1, Moves DEF Preflight, Steps, BackupSteps
        <2>2. cmd.step \in ChangeSteps /\ next \notin AfterOwn
            BY <1>1 DEF Preflight, At, ChangeSteps, AfterOwn
        <2> QED BY <1>1, <1>a, <2>1, <2>2 DEF Preflight, LocalTypes, machine, Moved
    <1>2. ASSUME WriteEnv \/ WriteManifest \/ WriteBundle PROVE LocalTypes' /\ Shape'
        <2>1. cmd.step \in {"env", "manifest", "bundle"} /\ cmd.step \in AfterOwn
            BY <1>2 DEF WriteEnv, WriteManifest, WriteBundle, At, AfterOwn, ChangeSteps
        <2>2. PICK next \in {"manifest", "bundle", "stop", "undo", "done"}: Moved(next)
            BY <1>0, <1>2, Moves
               DEF WriteEnv, WriteManifest, WriteBundle, WriteFile, Steps, ChangeSteps
        <2>3. cmd.target \in Manifest /\ cmd.target.release \in Releases
            BY <1>b, <2>1, KindOfStep DEF Shape, Manifest
        <2>4. files' \in Files
            <3>1. CASE WriteEnv
                BY <2>3, <3>1 DEF WriteEnv, WriteFile, LocalTypes, Files
            <3>2. CASE WriteManifest
                BY <2>3, <3>2 DEF WriteManifest, WriteFile, LocalTypes, Files
            <3>3. CASE WriteBundle
                BY <3>3 DEF WriteBundle, WriteFile, LocalTypes, Files
            <3> QED BY <1>2, <3>1, <3>2, <3>3
        <2>5. LocalTypes'
            BY <1>2, <2>2, <2>4
               DEF WriteEnv, WriteManifest, WriteBundle, WriteFile, LocalTypes, Moved
        <2> QED BY <1>a, <1>b, <2>1, <2>2, <2>5 DEF AfterOwn, ChangeSteps
    <1>3. ASSUME Undo PROVE LocalTypes' /\ Shape'
        <2>1. cmd.step \in AfterOwn /\ cmd.old \in Files
            BY <1>3 DEF Undo, At, AfterOwn, ChangeSteps, Shape
        <2>2. Moved("done")
            BY <1>0, <1>3, Moves DEF Undo, Steps
        <2>3. files' \in Files
            BY <1>3, <2>1, FilesInPartType DEF Undo
        <2>4. LocalTypes'
            BY <1>3, <2>2, <2>3 DEF Undo, LocalTypes, Moved
        <2> QED BY <1>a, <1>b, <2>1, <2>2, <2>4
    <1>4. ASSUME Stop PROVE LocalTypes' /\ Shape'
        <2>1. cmd.step \in AfterOwn
            BY <1>4 DEF Stop, At, AfterOwn, ChangeSteps
        <2>2. PICK next \in {"migrate", "revert"}: Moved(next)
            BY <1>0, <1>4, Moves DEF Stop, Steps, ChangeSteps
        <2>3. control' \in Releases \cup {NoValue} /\ core' \in BOOLEAN
            BY <1>4, StoppedType DEF Stop
        <2>4. LocalTypes'
            BY <1>4, <2>2, <2>3 DEF Stop, LocalTypes, Moved
        <2> QED BY <1>a, <1>b, <2>1, <2>2, <2>4 DEF AfterOwn, ChangeSteps
    <1>5. ASSUME Migrate PROVE LocalTypes' /\ Shape'
        <2>1. cmd.step \in AfterOwn
            BY <1>5 DEF Migrate, At, AfterOwn, ChangeSteps
        <2>2. PICK next \in {"up", "revert"}: Moved(next)
            BY <1>0, <1>5, Moves DEF Migrate, Steps, ChangeSteps
        <2>3. cmd.target \in Manifest /\ cmd.target.release \in Releases
            BY <1>b, <2>1, KindOfStep DEF Shape, Manifest
        <2>4. SchemaOf[cmd.target.release] \in Nat
            BY <2>3, DeploymentAssumption
        <2>5. volume' \in Volume
            BY <1>5, <2>4 DEF Migrate, LocalTypes, Volume
        <2>6. LocalTypes'
            BY <1>5, <2>2, <2>5 DEF Migrate, LocalTypes, Moved
        <2> QED BY <1>a, <1>b, <2>1, <2>2, <2>6 DEF AfterOwn, ChangeSteps
    <1>6. ASSUME UpNew PROVE LocalTypes' /\ Shape'
        <2>1. cmd.step \in AfterOwn
            BY <1>6 DEF UpNew, At, AfterOwn, ChangeSteps
        <2>2. PICK next \in {"done", "revert"}: Moved(next)
            BY <1>0, <1>6, Moves DEF UpNew, UpFails, Steps, ChangeSteps
        <2>3. volume' \in Volume /\ control' \in Releases \cup {NoValue} /\ core' \in BOOLEAN
            BY <1>6, StartedType, NotStartedType DEF UpNew, UpFails, LocalTypes
        <2>4. LocalTypes'
            BY <1>6, <2>2, <2>3 DEF UpNew, LocalTypes, Moved
        <2> QED BY <1>a, <1>b, <2>1, <2>2, <2>4 DEF AfterOwn, ChangeSteps
    <1>7. ASSUME Revert PROVE LocalTypes' /\ Shape'
        <2>1. cmd.step \in AfterOwn /\ cmd.old \in Files /\ cmd.own \in BackupDir
            BY <1>7 DEF Revert, At, AfterOwn, ChangeSteps, Shape, OwnSteps
        <2>2. files' \in Files
            BY <1>7, <2>1, FilesInPartType DEF Revert
        <2>3. CASE cmd' = [cmd EXCEPT !.step = "down", !.from = cmd.own]
            <3>1. cmd' \in Command
                BY <1>0, <2>1, <2>3 DEF Command, Steps, RestoreSteps
            <3>2. /\ cmd'.step = "down" /\ cmd'.own = cmd.own /\ cmd'.kind = cmd.kind
                  /\ cmd'.target = cmd.target /\ cmd'.from = cmd.own /\ cmd'.old = cmd.old
                BY <1>0, <2>3 DEF Command
            <3>3. LocalTypes'
                BY <1>7, <2>2, <3>1 DEF Revert, LocalTypes
            <3>4. "down" \in StepsOf(cmd.kind)
                BY <1>b, <2>1, KindOfStep, StepsOfKind DEF RestoreSteps
            <3>5. Shape'
                BY <2>1, <3>2, <3>4 DEF Shape, AfterOwn, ChangeSteps
            <3> QED BY <3>3, <3>5
        <2>4. CASE FaultTo("done")
            <3>1. Moved("done")
                BY <1>0, <2>4, Moves DEF Steps
            <3>2. LocalTypes'
                BY <1>7, <2>2, <3>1 DEF Revert, LocalTypes, Moved
            <3> QED BY <1>a, <1>b, <2>1, <3>1, <3>2
        <2> QED BY <1>7, <2>3, <2>4 DEF Revert
    <1> QED BY <1>1, <1>2, <1>3, <1>4, <1>5, <1>6, <1>7

\* The steps of a restore.
LEMMA RestoreMoves ==
    ASSUME Safe, UNCHANGED <<conf, recovery>>, job' = job \/ cmd'.kind = "none"
    PROVE  /\ Down => LocalTypes' /\ Shape'
           /\ Unpack => LocalTypes' /\ Shape'
           /\ CopyBack => LocalTypes' /\ Shape'
           /\ UpLast => LocalTypes' /\ Shape'
    <1> USE DEF Safe, Types
    <1>0. cmd \in Command
        BY DEF LocalTypes
    <1>a. ASSUME NEW next \in {"done"} \cup RestoreSteps, Moved(next), cmd.step \in RestoreSteps
          PROVE  Shape'
        <2>1. next \in StepsOf(cmd.kind) /\ next \in Steps
            BY <1>a, KindOfStep, StepsOfKind DEF Steps
        <2>2. cmd.own \in BackupDir /\ cmd.from \in BackupDir
            BY <1>a DEF Shape, OwnSteps
        <2>3. next \notin AfterOwn \cup {"recovery", "init", "open"}
            BY DEF AfterOwn, ChangeSteps, RestoreSteps
        <2> QED BY <1>a, <2>1, <2>2, <2>3, ShapeMoves
    <1>1. ASSUME Down PROVE LocalTypes' /\ Shape'
        <2>1. cmd.step \in RestoreSteps
            BY <1>1 DEF Down, At, RestoreSteps
        <2>2. PICK next \in {"unpack", "done"}: Moved(next)
            BY <1>0, <1>1, Moves DEF Down, Steps, RestoreSteps
        <2>3. control' \in Releases \cup {NoValue} /\ core' \in BOOLEAN
            BY <1>1, StoppedType DEF Down
        <2>4. LocalTypes'
            BY <1>1, <2>2, <2>3 DEF Down, LocalTypes, Moved
        <2> QED BY <1>a, <2>1, <2>2, <2>4 DEF RestoreSteps
    <1>2. ASSUME Unpack PROVE LocalTypes' /\ Shape'
        <2>1. cmd.step \in RestoreSteps /\ cmd.from.data \in Volume
            BY <1>2 DEF Unpack, At, RestoreSteps, Shape, BackupDir
        <2>2. PICK next \in {"config", "upLast"}: Moved(next)
            BY <1>0, <1>2, Moves DEF Unpack, Steps, RestoreSteps
        <2>3. volume' \in Volume
            <3> DEFINE data == cmd.from.data
            <3>1. data.writes \in SUBSET (1 .. MaxWrites) /\ data.schema \in Nat
                BY <2>1 DEF Volume
            <3>2. [writes: SUBSET data.writes, schema: {0, data.schema}, whole: {FALSE}]
                    \subseteq Volume
                <4> HIDE DEF data
                <4>1. SUBSET data.writes \subseteq SUBSET (1 .. MaxWrites)
                    BY <3>1
                <4>2. {0, data.schema} \subseteq Nat
                    BY <3>1
                <4> DEFINE W == SUBSET data.writes
                           N == {0, data.schema}
                <4>3. ASSUME NEW v \in [writes: W, schema: N, whole: {FALSE}] PROVE v \in Volume
                    <5> HIDE DEF W, N
                    <5>1. W \subseteq SUBSET (1 .. MaxWrites) /\ N \subseteq Nat
                        BY <4>1, <4>2 DEF W, N
                    <5> QED BY <5>1 DEF Volume
                <4> QED BY <4>3
            <3>3. \/ volume' = data \/ volume' = volume
                  \/ volume' \in [writes: SUBSET data.writes, schema: {0, data.schema},
                                  whole: {FALSE}]
                BY <1>2 DEF Unpack
            <3> HIDE DEF data
            <3>4. data \in Volume
                BY <2>1 DEF data
            <3> QED BY <3>2, <3>3, <3>4 DEF LocalTypes
        <2>4. LocalTypes'
            BY <1>2, <2>2, <2>3 DEF Unpack, LocalTypes, Moved
        <2> QED BY <1>a, <2>1, <2>2, <2>4 DEF RestoreSteps
    <1>3. ASSUME CopyBack PROVE LocalTypes' /\ Shape'
        <2>1. cmd.step \in RestoreSteps /\ cmd.from.files \in Files
            BY <1>3 DEF CopyBack, At, RestoreSteps, Shape, BackupDir
        <2>2. Moved("upLast")
            BY <1>0, <1>3, Moves DEF CopyBack, Steps, RestoreSteps
        <2>3. files' \in Files
            BY <1>3, <2>1, FilesInPartType DEF CopyBack
        <2>4. LocalTypes'
            BY <1>3, <2>2, <2>3 DEF CopyBack, LocalTypes, Moved
        <2> QED BY <1>a, <2>1, <2>2, <2>4 DEF RestoreSteps
    <1>4. ASSUME UpLast PROVE LocalTypes' /\ Shape'
        <2>1. cmd.step \in RestoreSteps
            BY <1>4 DEF UpLast, At, RestoreSteps
        <2>2. Moved("done")
            BY <1>0, <1>4, Moves DEF UpLast, UpFails, Steps
        <2>3. volume' \in Volume /\ control' \in Releases \cup {NoValue} /\ core' \in BOOLEAN
            BY <1>4, StartedType, NotStartedType DEF UpLast, UpFails, LocalTypes
        <2>4. LocalTypes'
            BY <1>4, <2>2, <2>3 DEF UpLast, LocalTypes, Moved
        <2> QED BY <1>a, <2>1, <2>2, <2>4
    <1> QED BY <1>1, <1>2, <1>3, <1>4

\* A command that starts has nothing yet but its input.
LEMMA ShapeBegin ==
    ASSUME cmd' \in Command, cmd'.kind \in Kinds \ {"none", "configure"},
           cmd'.step \in {"copy", "preflight", "check", "download"},
           cmd'.step \in StepsOf(cmd'.kind),
           cmd'.kind = "change" => cmd'.target \in Manifest,
           cmd'.kind = "restore" => cmd'.from \in BackupDir,
           cmd'.kind \in {"remote", "check"} => conf' \in Conf
    PROVE  Shape'
    BY DEF Shape, OwnSteps, AfterOwn, ChangeSteps, RestoreSteps

\* The other steps that are not about remote backups.
LEMMA OtherMoves ==
    ASSUME Safe, UNCHANGED <<conf, recovery>>, job' = job \/ cmd'.kind = "none"
    PROVE  /\ Write => LocalTypes' /\ Shape'
           /\ BeginBackup => LocalTypes' /\ Shape'
           /\ \A r \in Releases: BeginUpgrade(r) => LocalTypes' /\ Shape'
           /\ BeginRollback => LocalTypes' /\ Shape'
           /\ \A i \in DOMAIN backups: BeginRestore(i) => LocalTypes' /\ Shape'
           /\ Up => LocalTypes' /\ Shape'
    <1> USE DEF Safe, Types
    <1>0. cmd \in Command
        BY DEF LocalTypes
    <1>1. ASSUME Write PROVE LocalTypes' /\ Shape'
        <2>1. acked + 1 \in 1 .. MaxWrites /\ acked' = acked + 1
            BY <1>1, DeploymentAssumption DEF Write, LocalTypes
        <2>2. volume' \in Volume
            <3> DEFINE writes == volume.writes \cup {acked + 1}
            <3>1. writes \in SUBSET (1 .. MaxWrites)
                BY <2>1 DEF LocalTypes, Volume
            <3>2. volume' = [volume EXCEPT !.writes = writes]
                BY <1>1 DEF Write
            <3> HIDE DEF writes
            <3> QED BY <3>1, <3>2 DEF LocalTypes, Volume
        <2>3. /\ cmd' \in Command
              /\ cmd'.step = cmd.step /\ cmd'.kind = cmd.kind /\ cmd'.target = cmd.target
              /\ cmd'.from = cmd.from /\ cmd'.own = cmd.own /\ cmd'.old = cmd.old
            <3> DEFINE late == cmd.late \cup {acked + 1}
            <3>1. late \in SUBSET (1 .. MaxWrites)
                BY <1>0, <2>1 DEF Command
            <3>2. cmd' = cmd \/ cmd' = [cmd EXCEPT !.late = late]
                BY <1>1 DEF Write
            <3> HIDE DEF late
            <3> QED BY <1>0, <3>1, <3>2 DEF Command
        <2>4. LocalTypes'
            BY <1>1, <2>1, <2>2, <2>3 DEF Write, LocalTypes
        <2> QED BY <2>3, <2>4, KindOfStep DEF Shape
    <1>2. ASSUME BeginBackup PROVE LocalTypes' /\ Shape'
        <2>1. Begin("backup", "copy", NoValue, NoValue)
            BY <1>2, BeginInputs
        <2>2. LocalTypes' /\ cmd'.kind = "backup" /\ cmd'.step = "copy"
            BY <2>1, BeginFields DEF Kinds, Steps, BackupSteps
        <2> QED BY <2>2, ShapeBegin, StepsOfKind DEF Kinds, BackupSteps, LocalTypes
    <1>3. ASSUME NEW target \in Manifest, Begin("change", "preflight", target, NoValue)
          PROVE  LocalTypes' /\ Shape'
        <2>1. LocalTypes' /\ cmd'.kind = "change" /\ cmd'.step = "preflight" /\ cmd'.target = target
            BY <1>3, BeginFields DEF Kinds, Steps, ChangeSteps
        <2> QED BY <2>1, ShapeBegin, StepsOfKind DEF Kinds, ChangeSteps, LocalTypes
    <1>4. ASSUME NEW i \in DOMAIN backups, BeginRestore(i) PROVE LocalTypes' /\ Shape'
        <2>1. backups[i] \in BackupDir /\ Begin("restore", "copy", NoValue, backups[i])
            BY <1>4, BeginInputs
        <2>2. LocalTypes' /\ cmd'.kind = "restore" /\ cmd'.step = "copy" /\ cmd'.from = backups[i]
            BY <2>1, BeginFields DEF Kinds, Steps, BackupSteps
        <2> QED BY <2>1, <2>2, ShapeBegin, StepsOfKind DEF Kinds, BackupSteps, LocalTypes
    <1>5. ASSUME Up PROVE LocalTypes' /\ Shape'
        <2>1. volume' \in Volume /\ control' \in Releases \cup {NoValue} /\ core' \in BOOLEAN
            BY <1>5, StartedType, NotStartedType DEF Up, LocalTypes
        <2>2. commands' \in 0 .. MaxCommands
            BY <1>5, DeploymentAssumption DEF Up, LocalTypes
        <2>3. LocalTypes'
            BY <1>5, <2>1, <2>2 DEF Up, LocalTypes
        <2> QED BY <1>5, <2>3, KindOfStep DEF Up, Shape
    <1> QED BY <1>1, <1>2, <1>3, <1>4, <1>5, BeginInputs

LEMMA NoCommandType == NoCommand \in Command /\ NoCommand.kind = "none" /\ NoCommand.step = "done"
    BY DEF NoCommand, Command, Steps

LEMMA ReleaseMoves ==
    ASSUME Safe, Release
    PROVE  LocalTypes' /\ Shape'
    <1>1. cmd' \in Command /\ cmd'.kind = "none" /\ cmd'.step = "done"
        BY NoCommandType DEF Release
    <1>2. "done" \in StepsOf("none")
        BY DEF StepsOf
    <1>3. LocalTypes'
        BY <1>1 DEF Release, Safe, Types, LocalTypes, machine
    <1> QED BY <1>1, <1>2, <1>3 DEF Shape, OwnSteps, AfterOwn, ChangeSteps, RestoreSteps

\* What is not about remote backups keeps the types and the shape.
LEMMA LocalNext ==
    ASSUME Safe, Next, UNCHANGED <<conf, recovery>>, job' = job \/ cmd'.kind = "none"
    PROVE  LocalTypes' /\ Shape'
    <1>1. CASE Release
        BY <1>1, ReleaseMoves
    <1>2. CASE ~Release
        BY <1>2, OtherMoves, BackupMoves, ChangeMoves, RestoreMoves DEF Next
    <1> QED BY <1>1, <1>2

\* The files that a configuration writes.
LEMMA ShapeConf ==
    ASSUME Safe, cmd.kind = "configure", NEW step \in ConfSteps \cup {"done"}, Moved(step),
           job' = job,
           step \in {"recovery", "init", "open"} => conf' = job.input,
           step \in {"init", "open"} => recovery' = job.input.password
    PROVE  Shape'
    <1>1. step \in StepsOf("configure")
        BY StepsOfKind DEF Kinds
    <1>2. cmd'.kind = "configure" /\ cmd'.step = step
        BY DEF Moved
    <1>3. step \notin OwnSteps \cup AfterOwn \cup RestoreSteps
        BY DEF OwnSteps, AfterOwn, ChangeSteps, RestoreSteps, ConfSteps
    <1> QED BY <1>1, <1>2, <1>3 DEF Safe, Shape

\* What the machine is does not change while a command works on remote backups.
LEMMA MachineStays ==
    ASSUME Safe, UNCHANGED <<machine, commands>>, cmd' \in Command
    PROVE  LocalTypes'
    BY DEF Safe, Types, LocalTypes, machine

LEMMA CreatedType ==
    ASSUME Types, conf \in Conf
    PROVE  Created \in [Repos -> Repo \cup {NoValue}]
    <1>1. [password |-> conf.password, snaps |-> {}] \in Repo
        BY DEF Conf, Repo
    <1> QED BY <1>1 DEF Created, Types, RemoteTypes

LEMMA UploadedType ==
    ASSUME Types, conf \in Conf, cmd.own \in BackupDir, Opens(conf)
    PROVE  /\ Uploaded \in [Repos -> Repo \cup {NoValue}]
           /\ Uploaded[conf.repo] \in Repo
           /\ Uploaded[conf.repo].password = repos[conf.repo].password
    <1>1. conf.repo \in Repos
        BY DEF Conf
    <1>2. repos[conf.repo] \in Repo
        BY <1>1 DEF Opens, Types, RemoteTypes
    <1> DEFINE snaps == repos[conf.repo].snaps \cup {cmd.own}
               repo == [repos[conf.repo] EXCEPT !.snaps = snaps]
    <1>3. snaps \in SUBSET BackupDir
        BY <1>2 DEF Repo
    <1> HIDE DEF snaps
    <1>4. repo \in Repo /\ repo.password = repos[conf.repo].password
        BY <1>2, <1>3 DEF Repo
    <1>5. Uploaded = [repos EXCEPT ![conf.repo] = repo]
        BY DEF Uploaded, snaps
    <1> HIDE DEF repo
    <1> QED BY <1>1, <1>4, <1>5 DEF Types, RemoteTypes

\* Retention leaves the snapshot of this backup.
LEMMA ForgetType ==
    ASSUME Types, conf \in Conf, cmd.own \in BackupDir, repos[conf.repo] \in Repo, Forget
    PROVE  /\ repos' \in [Repos -> Repo \cup {NoValue}]
           /\ repos'[conf.repo] \in Repo /\ repos'[conf.repo].snaps # {}
           /\ \A r \in Repos \ {conf.repo}: repos'[r] = repos[r]
    <1>1. PICK kept \in SUBSET repos[conf.repo].snaps:
            repos' = [repos EXCEPT ![conf.repo].snaps = kept \cup {cmd.own}]
        BY DEF Forget
    <1> DEFINE snaps == kept \cup {cmd.own}
               repo == [repos[conf.repo] EXCEPT !.snaps = snaps]
    <1>2. snaps \in SUBSET BackupDir /\ snaps # {}
        BY <1>1 DEF Repo
    <1>3. repos' = [repos EXCEPT ![conf.repo] = repo]
        BY <1>1
    <1> HIDE DEF snaps
    <1>4. repo \in Repo /\ repo.snaps = snaps
        BY <1>2 DEF Repo
    <1> HIDE DEF repo
    <1> QED BY <1>2, <1>3, <1>4 DEF Types, RemoteTypes, Conf

\* The steps of a configuration.
LEMMA ConfigureMoves ==
    ASSUME Safe
    PROVE  /\ \A input \in Conf: BeginConfigure(input) => Safe'
           /\ WriteConf => Safe'
           /\ WriteRecovery => Safe'
           /\ InitRepo => Safe'
           /\ OpenRepo => Safe'
           /\ Unconfigure => Safe'
    <1> USE DEF Safe, Types
    <1>0. cmd \in Command
        BY DEF LocalTypes
    <1>a. ConfSteps \cup {"done"} \subseteq Steps
        BY DEF ConfSteps, Steps, RemoteSteps
    <1>b. cmd.step \in ConfSteps => cmd.kind = "configure" /\ job \in Job
        BY KindOfStep DEF Shape
    <1>1. ASSUME NEW input \in Conf, BeginConfigure(input) PROVE Safe'
        <2>1. Begin("configure", "conf", NoValue, NoValue)
            BY <1>1 DEF BeginConfigure
        <2>2. LocalTypes' /\ cmd'.kind = "configure" /\ cmd'.step = "conf"
            BY <2>1, BeginFields DEF Kinds, Steps, RemoteSteps
        <2>3. job' \in Job
            <3> DEFINE fit == Agree \/ (conf = NoValue /\ recovery = NoValue)
            <3>1. fit \in BOOLEAN
                OBVIOUS
            <3>2. job' = [input |-> input, conf |-> conf, recovery |-> recovery, fit |-> fit]
                BY <1>1 DEF BeginConfigure
            <3> HIDE DEF fit
            <3> QED BY <3>1, <3>2 DEF Job, RemoteTypes
        <2>4. RemoteTypes'
            BY <1>1, <2>3 DEF BeginConfigure, RemoteTypes
        <2>5. "conf" \in StepsOf("configure")
            BY StepsOfKind DEF ConfSteps
        <2>6. Shape'
            BY <2>2, <2>3, <2>5 DEF Shape, OwnSteps, AfterOwn, ChangeSteps, RestoreSteps
        <2> QED BY <2>2, <2>4, <2>6
    <1>2. ASSUME WriteConf PROVE Safe'
        <2>1. cmd.step \in ConfSteps
            BY <1>2 DEF WriteConf, At, ConfSteps
        <2>2. job \in Job /\ job.input \in Conf
            BY <1>b, <2>1 DEF Job
        <2>3. PICK next \in {"recovery", "done"}:
                Moved(next) /\ (next = "recovery" => conf' = job.input)
            BY <1>0, <1>2, <1>a, Moves DEF WriteConf, ConfSteps
        <2>4. LocalTypes'
            BY <1>2, <2>3, MachineStays DEF WriteConf, Moved
        <2>5. RemoteTypes'
            BY <1>2, <2>2 DEF WriteConf, RemoteTypes, ConfFile
        <2>6. Shape'
            BY <1>2, <1>b, <2>1, <2>3, ShapeConf DEF WriteConf, ConfSteps
        <2> QED BY <2>4, <2>5, <2>6
    <1>3. ASSUME WriteRecovery PROVE Safe'
        <2>1. cmd.step \in ConfSteps /\ conf = job.input
            BY <1>3 DEF WriteRecovery, At, ConfSteps, Shape
        <2>2. job \in Job /\ job.input.password \in Passwords
            BY <1>b, <2>1 DEF Job, Conf
        <2>3. PICK next \in {"init", "unconf"}:
                Moved(next) /\ (next = "init" => recovery' = job.input.password)
            BY <1>0, <1>3, <1>a, Moves DEF WriteRecovery, ConfSteps
        <2>4. LocalTypes'
            BY <1>3, <2>3, MachineStays DEF WriteRecovery, Moved
        <2>5. RemoteTypes'
            BY <1>3, <2>2 DEF WriteRecovery, RemoteTypes, RecoveryFile
        <2>6. Shape'
            BY <1>3, <1>b, <2>1, <2>3, ShapeConf DEF WriteRecovery, ConfSteps
        <2> QED BY <2>4, <2>5, <2>6
    <1>4. ASSUME InitRepo PROVE Safe'
        <2>1. cmd.step \in ConfSteps /\ conf = job.input /\ recovery = job.input.password
            BY <1>4 DEF InitRepo, At, ConfSteps, Shape
        <2>2. job \in Job /\ conf \in Conf
            BY <1>b, <2>1 DEF Job
        <2>3. PICK next \in {"done", "open"}: Moved(next)
            BY <1>0, <1>4, <1>a, Moves DEF InitRepo, ConfSteps
        <2>4. LocalTypes'
            BY <1>4, <2>3, MachineStays DEF InitRepo, Moved
        <2>5. repos' = repos \/ repos' = Created
            BY <1>4 DEF InitRepo
        <2>6. RemoteTypes'
            BY <1>4, <2>2, <2>5, CreatedType DEF InitRepo, RemoteTypes
        <2>7. Shape'
            BY <1>4, <1>b, <2>1, <2>3, ShapeConf DEF InitRepo, ConfSteps
        <2> QED BY <2>4, <2>6, <2>7
    <1>5. ASSUME OpenRepo PROVE Safe'
        <2>1. cmd.step \in ConfSteps
            BY <1>5 DEF OpenRepo, At, ConfSteps
        <2>2. PICK next \in {"done", "unconf"}: Moved(next)
            BY <1>0, <1>5, <1>a, Moves DEF OpenRepo, ConfSteps
        <2>3. LocalTypes'
            BY <1>5, <2>2, MachineStays DEF OpenRepo, Moved
        <2>4. RemoteTypes'
            BY <1>5 DEF OpenRepo, RemoteTypes, remote
        <2>5. Shape'
            BY <1>5, <1>b, <2>1, <2>2, ShapeConf DEF OpenRepo, ConfSteps, remote
        <2> QED BY <2>3, <2>4, <2>5
    <1>6. ASSUME Unconfigure PROVE Safe'
        <2>1. cmd.step \in ConfSteps
            BY <1>6 DEF Unconfigure, At, ConfSteps
        <2>2. job \in Job /\ job.conf \in ConfFile /\ job.recovery \in RecoveryFile
            BY <1>b, <2>1 DEF Job
        <2>3. Moved("done")
            BY <1>0, <1>6, <1>a, Moves DEF Unconfigure, ConfSteps
        <2>4. LocalTypes'
            BY <1>6, <2>3, MachineStays DEF Unconfigure, Moved
        <2>5. RemoteTypes'
            BY <1>6, <2>2 DEF Unconfigure, RemoteTypes, ConfFile, RecoveryFile
        <2>6. Shape'
            BY <1>6, <1>b, <2>1, <2>3, ShapeConf DEF Unconfigure, ConfSteps
        <2> QED BY <2>4, <2>5, <2>6
    <1> QED BY <1>1, <1>2, <1>3, <1>4, <1>5, <1>6

UploadSteps == {"upload", "forget", "status", "prune"}

\* The status that a command writes, or what is left of it.
LEMMA WriteStatusType ==
    ASSUME Safe, NEW new \in Status, NEW next \in Steps, WriteStatus(new, next)
    PROVE  /\ status' \in Status
           /\ Moved(next) \/ Moved("done")
           /\ status' \in {status, new, NoStatus}
           /\ ~Moved("done") => status' = new
    <1>1. NoStatus \in Status
        BY DEF NoStatus, Status
    <1>2. cmd \in Command /\ "done" \in Steps
        BY DEF Safe, Types, LocalTypes, Steps
    <1>3. CASE status' = new /\ Go(next)
        BY <1>2, <1>3, Moves
    <1>4. CASE status' \in {status, NoStatus} /\ FaultTo("done")
        BY <1>1, <1>2, <1>4, Moves DEF Safe, Types, RemoteTypes
    <1> QED BY <1>3, <1>4 DEF WriteStatus

\* The steps of a backup to a repository.
LEMMA UploadMoves ==
    ASSUME Safe, cmd.step = "forget" => repos[conf.repo] # NoValue
    PROVE  /\ BeginRemote => Safe'
           /\ Upload => Safe'
           /\ Forget => Safe'
           /\ SaveStatus => Safe'
           /\ Prune => Safe'
    <1> USE DEF Safe, Types
    <1>0. cmd \in Command
        BY DEF LocalTypes
    <1>a. UploadSteps \cup {"done"} \subseteq Steps
        BY DEF UploadSteps, Steps, RemoteSteps
    <1>b. cmd.step \in UploadSteps => conf \in Conf /\ conf.repo \in Repos /\ cmd.own \in BackupDir
        BY KindOfStep DEF Shape, UploadSteps, OwnSteps, Conf
    <1>c. ASSUME cmd.step \in UploadSteps, NEW next \in UploadSteps \cup {"done"}, Moved(next),
                 UNCHANGED <<conf, recovery, job>>
          PROVE  Shape'
        <2>1. next \in StepsOf(cmd.kind)
            BY <1>c, KindOfStep, StepsOfKind DEF UploadSteps
        <2>2. next \notin AfterOwn \cup RestoreSteps \cup {"recovery", "init", "open"}
            BY DEF AfterOwn, ChangeSteps, RestoreSteps, UploadSteps
        <2> QED BY <1>a, <1>b, <1>c, <2>1, <2>2, ShapeMoves
    <1>1. ASSUME BeginRemote PROVE Safe'
        <2>1. Begin("remote", "copy", NoValue, NoValue) /\ conf \in Conf
            BY <1>1 DEF BeginRemote, Configured, RemoteTypes, ConfFile
        <2>2. LocalTypes' /\ cmd'.kind = "remote" /\ cmd'.step = "copy"
            BY <2>1, BeginFields DEF Kinds, Steps, BackupSteps
        <2>3. RemoteTypes'
            BY <1>1 DEF BeginRemote, RemoteTypes, remote
        <2>4. Shape'
            BY <1>1, <2>1, <2>2, ShapeBegin, StepsOfKind
               DEF Kinds, BackupSteps, LocalTypes, BeginRemote, remote
        <2> QED BY <2>2, <2>3, <2>4
    <1>2. ASSUME Upload PROVE Safe'
        <2>1. cmd.step \in UploadSteps
            BY <1>2 DEF Upload, At, UploadSteps
        <2>2. PICK next \in {"forget", "done"}: Moved(next)
            BY <1>0, <1>2, <1>a, Moves DEF Upload, UploadSteps
        <2>3. LocalTypes'
            BY <1>2, <2>2, MachineStays DEF Upload, Moved
        <2>4. repos' = repos \/ (Opens(conf) /\ repos' = Uploaded)
            BY <1>2 DEF Upload
        <2>5. RemoteTypes'
            BY <1>2, <1>b, <2>1, <2>4, UploadedType DEF Upload, RemoteTypes
        <2>6. Shape'
            BY <1>2, <1>c, <2>1, <2>2 DEF Upload, UploadSteps
        <2> QED BY <2>3, <2>5, <2>6
    <1>3. ASSUME Forget PROVE Safe'
        <2>1. cmd.step = "forget" /\ cmd.step \in UploadSteps
            BY <1>3 DEF Forget, At, UploadSteps
        <2>0. repos[conf.repo] \in Repo
            BY <1>b, <2>1 DEF RemoteTypes
        <2>2. PICK next \in {"status", "done"}: Moved(next)
            BY <1>0, <1>3, <1>a, Moves DEF Forget, UploadSteps
        <2>3. LocalTypes'
            BY <1>3, <2>2, MachineStays DEF Forget, Moved
        <2>4. repos' \in [Repos -> Repo \cup {NoValue}]
            BY <1>3, <1>b, <2>0, <2>1, ForgetType
        <2>5. RemoteTypes'
            BY <1>3, <2>4 DEF Forget, RemoteTypes
        <2>6. Shape'
            BY <1>3, <1>c, <2>1, <2>2 DEF Forget, UploadSteps
        <2> QED BY <2>3, <2>5, <2>6
    <1>4. ASSUME SaveStatus PROVE Safe'
        <2>1. cmd.step \in UploadSteps
            BY <1>4 DEF SaveStatus, At, UploadSteps
        <2> DEFINE new == [status EXCEPT !.backup = conf.repo]
        <2>2. new \in Status
            BY <1>b, <2>1 DEF RemoteTypes, Status
        <2>3. WriteStatus(new, "prune")
            BY <1>4 DEF SaveStatus
        <2> HIDE DEF new
        <2>4. status' \in Status /\ (Moved("prune") \/ Moved("done"))
            BY <1>a, <2>2, <2>3, WriteStatusType DEF UploadSteps
        <2>5. LocalTypes'
            BY <1>4, <2>4, MachineStays DEF SaveStatus, Moved
        <2>6. RemoteTypes'
            BY <1>4, <2>4 DEF SaveStatus, RemoteTypes
        <2>7. Shape'
            BY <1>4, <1>c, <2>1, <2>4 DEF SaveStatus, UploadSteps
        <2> QED BY <2>5, <2>6, <2>7
    <1>5. ASSUME Prune PROVE Safe'
        <2>1. cmd.step \in UploadSteps
            BY <1>5 DEF Prune, At, UploadSteps
        <2>2. Moved("done")
            BY <1>0, <1>5, <1>a, Moves DEF Prune
        <2>3. backups' \in Seq(BackupDir)
            BY <1>5, NewestType, RemoteAssumption DEF Prune, LocalTypes
        <2>4. LocalTypes'
            BY <1>5, <2>2, <2>3 DEF Prune, LocalTypes, Moved
        <2>5. RemoteTypes'
            BY <1>5 DEF Prune, RemoteTypes, remote
        <2>6. Shape'
            BY <1>5, <1>c, <2>1, <2>2 DEF Prune, remote
        <2> QED BY <2>4, <2>5, <2>6
    <1> QED BY <1>1, <1>2, <1>3, <1>4, <1>5

\* The steps of a check, and of a restore from a repository before it is one.
LEMMA CheckMoves ==
    ASSUME Safe
    PROVE  /\ BeginCheck => Safe'
           /\ Check => Safe'
           /\ RestoreTest => Safe'
           /\ \A r \in Repos: repos[r] # NoValue =>
                \A b \in repos[r].snaps: BeginRemoteRestore(b) => Safe'
           /\ Download => Safe'
    <1> USE DEF Safe, Types
    <1>0. cmd \in Command /\ {"test", "done", "copy"} \subseteq Steps
        BY DEF LocalTypes, Steps, RemoteSteps, BackupSteps
    <1>a. ASSUME cmd.step \in {"check", "test"}, NEW next \in {"test", "done"}, Moved(next),
                 UNCHANGED <<conf, recovery, job>>
          PROVE  Shape'
        <2>1. next \in StepsOf(cmd.kind)
            BY <1>a, KindOfStep, StepsOfKind
        <2>2. next \notin OwnSteps \cup AfterOwn \cup RestoreSteps \cup {"recovery", "init", "open"}
            BY DEF OwnSteps, AfterOwn, ChangeSteps, RestoreSteps
        <2> QED BY <1>0, <1>a, <2>1, <2>2, ShapeMoves
    <1>b. cmd.step \in {"check", "test"} => conf \in Conf /\ conf.repo \in Repos
        BY KindOfStep DEF Shape, Conf
    <1>1. ASSUME BeginCheck PROVE Safe'
        <2>1. Begin("check", "check", NoValue, NoValue) /\ conf \in Conf
            BY <1>1 DEF BeginCheck, Configured, RemoteTypes, ConfFile
        <2>2. LocalTypes' /\ cmd'.kind = "check" /\ cmd'.step = "check"
            BY <2>1, BeginFields DEF Kinds, Steps, RemoteSteps
        <2>3. RemoteTypes'
            BY <1>1 DEF BeginCheck, RemoteTypes, remote
        <2>4. Shape'
            BY <1>1, <2>1, <2>2, ShapeBegin, StepsOfKind DEF Kinds, LocalTypes, BeginCheck, remote
        <2> QED BY <2>2, <2>3, <2>4
    <1>2. ASSUME Check PROVE Safe'
        <2> DEFINE new == [status EXCEPT !.checked = TRUE]
        <2>1. cmd.step = "check" /\ new \in Status
            BY <1>2 DEF Check, At, RemoteTypes, Status
        <2>2. \/ WriteStatus(new, "done")
              \/ status' = status /\ (Go("test") \/ GoFailed("done") \/ FaultTo("done"))
            BY <1>2 DEF Check
        <2> HIDE DEF new
        <2>3. status' \in Status /\ (Moved("test") \/ Moved("done"))
            <3>1. CASE WriteStatus(new, "done")
                BY <1>0, <2>1, <3>1, WriteStatusType
            <3>2. CASE status' = status /\ (Go("test") \/ GoFailed("done") \/ FaultTo("done"))
                BY <1>0, <3>2, Moves DEF RemoteTypes
            <3> QED BY <2>2, <3>1, <3>2
        <2>4. LocalTypes'
            BY <1>2, <2>3, MachineStays DEF Check, Moved
        <2>5. RemoteTypes'
            BY <1>2, <2>3 DEF Check, RemoteTypes
        <2>6. Shape'
            BY <1>2, <1>a, <2>1, <2>3 DEF Check
        <2> QED BY <2>4, <2>5, <2>6
    <1>3. ASSUME RestoreTest PROVE Safe'
        <2> DEFINE new == [status EXCEPT !.checked = TRUE, !.tested = conf.repo]
        <2>1. cmd.step = "test"
            BY <1>3 DEF RestoreTest, At
        <2>2. new \in Status
            BY <1>b, <2>1 DEF RemoteTypes, Status
        <2>3. WriteStatus(new, "done") \/ (status' = status /\ GoFailed("done"))
            BY <1>3 DEF RestoreTest
        <2> HIDE DEF new
        <2>4. status' \in Status /\ Moved("done")
            <3>1. CASE WriteStatus(new, "done")
                BY <1>0, <2>2, <3>1, WriteStatusType
            <3>2. CASE status' = status /\ GoFailed("done")
                BY <1>0, <3>2, Moves DEF RemoteTypes
            <3> QED BY <2>3, <3>1, <3>2
        <2>5. LocalTypes'
            BY <1>3, <2>4, MachineStays DEF RestoreTest, Moved
        <2>6. RemoteTypes'
            BY <1>3, <2>4 DEF RestoreTest, RemoteTypes
        <2>7. Shape'
            BY <1>3, <1>a, <2>1, <2>4 DEF RestoreTest
        <2> QED BY <2>5, <2>6, <2>7
    <1>4. ASSUME NEW r \in Repos, repos[r] # NoValue, NEW b \in repos[r].snaps, BeginRemoteRestore(b)
          PROVE  Safe'
        <2>1. b \in BackupDir
            <3>1. repos[r] \in Repo
                BY <1>4 DEF RemoteTypes
            <3> QED BY <1>4, <3>1 DEF Repo
        <2>2. Begin("restore", "download", NoValue, b)
            BY <1>4 DEF BeginRemoteRestore
        <2>3. LocalTypes' /\ cmd'.kind = "restore" /\ cmd'.step = "download" /\ cmd'.from = b
            BY <2>1, <2>2, BeginFields DEF Kinds, Steps, RemoteSteps
        <2>4. RemoteTypes'
            BY <1>4 DEF BeginRemoteRestore, RemoteTypes, remote
        <2>5. Shape'
            BY <2>1, <2>3, ShapeBegin, StepsOfKind DEF Kinds, LocalTypes
        <2> QED BY <2>3, <2>4, <2>5
    <1>5. ASSUME Download PROVE Safe'
        <2>1. cmd.step = "download"
            BY <1>5 DEF Download, At
        <2>2. PICK next \in {"copy", "done"}: Moved(next)
            BY <1>0, <1>5, Moves DEF Download
        <2>3. LocalTypes'
            BY <1>5, <2>2, MachineStays DEF Download, Moved
        <2>4. RemoteTypes'
            BY <1>5 DEF Download, RemoteTypes, remote
        <2>5. next \in StepsOf(cmd.kind)
            BY <2>1, <2>2, KindOfStep, StepsOfKind DEF BackupSteps, Kinds
        <2>6. next \notin OwnSteps \cup AfterOwn \cup RestoreSteps \cup {"recovery", "init", "open"}
            BY <2>2 DEF OwnSteps, AfterOwn, ChangeSteps, RestoreSteps
        <2>7. Shape'
            BY <1>0, <1>5, <2>2, <2>5, <2>6, ShapeMoves DEF Download, remote
        <2> QED BY <2>3, <2>4, <2>7
    <1> QED BY <1>1, <1>2, <1>3, <1>4, <1>5

LEMMA SafeNext ==
    ASSUME Safe, Snapshots, [RemoteNext]_remoteVars
    PROVE  Safe'
    <1>0. cmd.step = "forget" => repos[conf.repo] # NoValue
        BY DEF Snapshots, Opens
    <1>1. ASSUME Next, UNCHANGED <<conf, recovery, repos, status>>,
                 job' = job \/ (job' = NoValue /\ cmd'.kind = "none")
          PROVE  Safe'
        <2>1. LocalTypes' /\ Shape'
            BY <1>1, LocalNext
        <2>2. RemoteTypes'
            BY <1>1 DEF Safe, Types, RemoteTypes
        <2> QED BY <2>1, <2>2 DEF Safe, Types
    <1>2. CASE UNCHANGED remoteVars
        BY <1>2 DEF remoteVars, vars, machine, remote, Safe, Types, LocalTypes, RemoteTypes, Shape
    <1> QED BY <1>0, <1>1, <1>2, ConfigureMoves, UploadMoves, CheckMoves DEF RemoteNext, remote

-------------------------------------------------------------------------------
(***************************************************************************)
(* Where each step goes on to                                              *)
(***************************************************************************)

LEMMA NextStep ==
    ASSUME Safe
    PROVE  /\ Copy => cmd'.step \in {"stopAll", "done"}
           /\ StopAll => cmd'.step \in {"archive", "done"}
           /\ Archive => cmd'.step \in {"seal", "upAgain"}
           /\ Seal => cmd'.step \in {"upAgain"}
           /\ UpAgain => cmd'.step \in {"env", "down", "upload", "done"}
           /\ Preflight => cmd'.step \in {"copy", "done"}
           /\ WriteEnv => cmd'.step \in {"manifest", "done"}
           /\ WriteManifest => cmd'.step \in {"bundle", "undo"}
           /\ WriteBundle => cmd'.step \in {"stop", "undo"}
           /\ Undo => cmd'.step \in {"done"}
           /\ Stop => cmd'.step \in {"migrate", "revert"}
           /\ Migrate => cmd'.step \in {"up", "revert"}
           /\ UpNew => cmd'.step \in {"done", "revert"}
           /\ Revert => cmd'.step \in {"down", "done"}
           /\ Down => cmd'.step \in {"unpack", "done"}
           /\ Unpack => cmd'.step \in {"config", "upLast"}
           /\ CopyBack => cmd'.step \in {"upLast"}
           /\ UpLast => cmd'.step \in {"done"}
           /\ WriteConf => cmd'.step \in {"recovery", "done"}
           /\ WriteRecovery => cmd'.step \in {"init", "unconf"}
           /\ InitRepo => cmd'.step \in {"done", "open"}
           /\ OpenRepo => cmd'.step \in {"done", "unconf"}
           /\ Unconfigure => cmd'.step \in {"done"}
           /\ Upload => cmd'.step \in {"forget", "done"}
           /\ Forget => cmd'.step \in {"status", "done"}
           /\ SaveStatus => cmd'.step \in {"prune", "done"}
           /\ Prune => cmd'.step \in {"done"}
           /\ Check => cmd'.step \in {"test", "done"}
           /\ RestoreTest => cmd'.step \in {"done"}
           /\ Download => cmd'.step \in {"copy", "done"}
    <1> USE Moves DEF Moved, At, Steps, BackupSteps, ChangeSteps, RestoreSteps, RemoteSteps
    <1>0. cmd \in Command
        BY DEF Safe, Types, LocalTypes
    <1>1. Copy => cmd'.step \in {"stopAll", "done"}
        <2>1. (\E own: cmd' = [cmd EXCEPT !.step = "stopAll", !.own = own]) => cmd'.step = "stopAll"
            BY <1>0 DEF Command
        <2>2. FaultTo("done") => cmd'.step = "done"
            BY <1>0
        <2> QED BY <2>1, <2>2 DEF Copy
    <1>2. StopAll => cmd'.step \in {"archive", "done"}
        BY <1>0 DEF StopAll
    <1>3. Archive => cmd'.step \in {"seal", "upAgain"}
        BY <1>0 DEF Archive, Command
    <1>4. Seal => cmd'.step \in {"upAgain"}
        BY <1>0 DEF Seal
    <1>5. UpAgain => cmd'.step \in {"env", "down", "upload", "done"}
        <2>1. cmd' = [cmd EXCEPT !.step = AfterBackup, !.old = files] => cmd'.step = AfterBackup
            BY <1>0 DEF Command
        <2>2. UpFails("done") => cmd'.step = "done"
            BY <1>0 DEF UpFails
        <2> QED BY <2>1, <2>2 DEF UpAgain, AfterBackup
    <1>6. Preflight => cmd'.step \in {"copy", "done"}
        BY <1>0 DEF Preflight
    <1>7. WriteEnv => cmd'.step \in {"manifest", "done"}
        BY <1>0 DEF WriteEnv, WriteFile
    <1>8. WriteManifest => cmd'.step \in {"bundle", "undo"}
        BY <1>0 DEF WriteManifest, WriteFile
    <1>9. WriteBundle => cmd'.step \in {"stop", "undo"}
        BY <1>0 DEF WriteBundle, WriteFile
    <1>10. Undo => cmd'.step \in {"done"}
        BY <1>0 DEF Undo
    <1>11. Stop => cmd'.step \in {"migrate", "revert"}
        BY <1>0 DEF Stop
    <1>12. Migrate => cmd'.step \in {"up", "revert"}
        BY <1>0 DEF Migrate
    <1>13. UpNew => cmd'.step \in {"done", "revert"}
        BY <1>0 DEF UpNew, UpFails
    <1>14. Revert => cmd'.step \in {"down", "done"}
        <2>1. cmd' = [cmd EXCEPT !.step = "down", !.from = cmd.own] => cmd'.step = "down"
            BY <1>0 DEF Command
        <2>2. FaultTo("done") => cmd'.step = "done"
            BY <1>0
        <2> QED BY <2>1, <2>2 DEF Revert
    <1>15. Down => cmd'.step \in {"unpack", "done"}
        BY <1>0 DEF Down
    <1>16. Unpack => cmd'.step \in {"config", "upLast"}
        BY <1>0 DEF Unpack
    <1>17. CopyBack => cmd'.step \in {"upLast"}
        BY <1>0 DEF CopyBack
    <1>18. UpLast => cmd'.step \in {"done"}
        BY <1>0 DEF UpLast, UpFails
    <1>19. WriteConf => cmd'.step \in {"recovery", "done"}
        BY <1>0 DEF WriteConf
    <1>20. WriteRecovery => cmd'.step \in {"init", "unconf"}
        BY <1>0 DEF WriteRecovery
    <1>21. InitRepo => cmd'.step \in {"done", "open"}
        BY <1>0 DEF InitRepo
    <1>22. OpenRepo => cmd'.step \in {"done", "unconf"}
        BY <1>0 DEF OpenRepo
    <1>23. Unconfigure => cmd'.step \in {"done"}
        BY <1>0 DEF Unconfigure
    <1>24. Upload => cmd'.step \in {"forget", "done"}
        BY <1>0 DEF Upload
    <1>25. Forget => cmd'.step \in {"status", "done"}
        BY <1>0 DEF Forget
    <1>26. SaveStatus => cmd'.step \in {"prune", "done"}
        BY <1>0 DEF SaveStatus, WriteStatus
    <1>27. Prune => cmd'.step \in {"done"}
        BY <1>0 DEF Prune
    <1>28. Check => cmd'.step \in {"test", "done"}
        BY <1>0 DEF Check, WriteStatus
    <1>29. RestoreTest => cmd'.step \in {"done"}
        BY <1>0 DEF RestoreTest, WriteStatus
    <1>30. Download => cmd'.step \in {"copy", "done"}
        BY <1>0 DEF Download
    <1> QED BY <1>1, <1>2, <1>3, <1>4, <1>5, <1>6, <1>7, <1>8, <1>9, <1>10,
               <1>11, <1>12, <1>13, <1>14, <1>15, <1>16, <1>17, <1>18, <1>19, <1>20,
               <1>21, <1>22, <1>23, <1>24, <1>25, <1>26, <1>27, <1>28, <1>29, <1>30

Begins ==
    \/ BeginBackup \/ BeginRollback \/ BeginRemote \/ BeginCheck
    \/ \E r \in Releases: BeginUpgrade(r)
    \/ \E i \in DOMAIN backups: BeginRestore(i)
    \/ \E input \in Conf: BeginConfigure(input)
    \/ \E r \in Repos: repos[r] # NoValue /\ \E b \in repos[r].snaps: BeginRemoteRestore(b)

\* The steps that keep what the command has.
Continues ==
    \/ StopAll \/ Seal \/ Preflight
    \/ WriteEnv \/ WriteManifest \/ WriteBundle \/ Undo \/ Stop \/ Migrate \/ UpNew
    \/ Down \/ CopyBack \/ UpLast
    \/ WriteConf \/ WriteRecovery \/ InitRepo \/ OpenRepo \/ Unconfigure
    \/ Upload \/ Forget \/ SaveStatus \/ Check \/ RestoreTest \/ Download

\* Every step is one of these.
LEMMA StepKinds ==
    ASSUME [RemoteNext]_remoteVars
    PROVE  \/ Begins \/ Continues
           \/ Write \/ Up \/ Release \/ Copy \/ Archive \/ UpAgain \/ Revert \/ Unpack \/ Prune
           \/ UNCHANGED remoteVars
    BY DEF RemoteNext, Next, Begins, Continues

LEMMA BeginsStep ==
    ASSUME Safe, Begins
    PROVE  /\ cmd'.step \in {"copy", "preflight", "conf", "check", "download"}
           /\ cmd'.faults = {}
           /\ cmd.kind = "none"
           /\ UNCHANGED machine
    <1>0. {"copy", "preflight", "conf", "check", "download"} \subseteq Steps
        BY DEF Steps, BackupSteps, ChangeSteps, RemoteSteps
    <1>1. ASSUME NEW kind \in Kinds, NEW step \in {"copy", "preflight", "conf", "check", "download"},
                 NEW target \in Manifest \cup {NoValue}, NEW from \in BackupDir \cup {NoValue},
                 Begin(kind, step, target, from)
          PROVE  /\ cmd'.step \in {"copy", "preflight", "conf", "check", "download"}
                 /\ cmd'.faults = {}
                 /\ cmd.kind = "none"
                 /\ UNCHANGED machine
        BY <1>0, <1>1, BeginFields DEF Safe
    <1>2. CASE BeginBackup \/ BeginRollback \/ \E r \in Releases: BeginUpgrade(r)
        BY <1>1, <1>2, BeginInputs DEF Kinds
    <1>3. ASSUME NEW i \in DOMAIN backups, BeginRestore(i)
          PROVE  \E from \in BackupDir: Begin("restore", "copy", NoValue, from)
        BY <1>3, BeginInputs
    <1>4. CASE BeginRemote \/ BeginCheck \/ \E input \in Conf: BeginConfigure(input)
        BY <1>1, <1>4 DEF Kinds, BeginRemote, BeginCheck, BeginConfigure
    <1>5. ASSUME NEW r \in Repos, repos[r] # NoValue, NEW b \in repos[r].snaps, BeginRemoteRestore(b)
          PROVE  \E from \in BackupDir: Begin("restore", "download", NoValue, from)
        <2>1. repos[r] \in Repo
            BY <1>5 DEF Safe, Types, RemoteTypes
        <2> QED BY <1>5, <2>1 DEF Repo, BeginRemoteRestore
    <1> QED BY <1>1, <1>2, <1>3, <1>4, <1>5 DEF Begins, Kinds

\* What the steps that go on keep.
LEMMA ContinuesKeep ==
    ASSUME Safe, Continues
    PROVE  /\ cmd'.own = cmd.own
           /\ cmd'.late = cmd.late
           /\ cmd.failed => cmd'.failed
           /\ cmd'.kind = cmd.kind
           /\ cmd.faults \subseteq cmd'.faults
    <1> DEFINE Keeps == /\ cmd'.own = cmd.own
                        /\ cmd'.late = cmd.late
                        /\ cmd.failed => cmd'.failed
                        /\ cmd'.kind = cmd.kind
                        /\ cmd.faults \subseteq cmd'.faults
    <1>0. cmd \in Command
        BY DEF Safe, Types, LocalTypes
    <1> USE Moves DEF Moved, Steps, BackupSteps, ChangeSteps, RestoreSteps, RemoteSteps
    <1>2. CASE StopAll \/ Seal \/ Preflight
        BY <1>0, <1>2 DEF StopAll, Seal, Preflight
    <1>3. CASE WriteEnv \/ WriteManifest \/ WriteBundle \/ Undo
        BY <1>0, <1>3 DEF WriteEnv, WriteManifest, WriteBundle, WriteFile, Undo
    <1>4. CASE Stop \/ Migrate \/ UpNew
        BY <1>0, <1>4 DEF Stop, Migrate, UpNew, UpFails
    <1>5. CASE Down \/ CopyBack \/ UpLast
        BY <1>0, <1>5 DEF Down, CopyBack, UpLast, UpFails
    <1>6. CASE WriteConf \/ WriteRecovery \/ InitRepo \/ OpenRepo \/ Unconfigure
        BY <1>0, <1>6 DEF WriteConf, WriteRecovery, InitRepo, OpenRepo, Unconfigure
    <1>7. CASE Upload \/ Forget \/ SaveStatus
        BY <1>0, <1>7 DEF Upload, Forget, SaveStatus, WriteStatus
    <1>8. CASE Check \/ RestoreTest \/ Download
        BY <1>0, <1>8 DEF Check, RestoreTest, Download, WriteStatus
    <1>9. Keeps
        BY <1>2, <1>3, <1>4, <1>5, <1>6, <1>7, <1>8 DEF Continues
    <1> QED BY <1>9 DEF Keeps

\* Only an unpacking takes writes from the volume, and only a pruning takes backups.
LEMMA DataStays ==
    ASSUME Safe, [RemoteNext]_remoteVars
    PROVE  /\ ~Unpack /\ ~Write => volume'.writes = volume.writes
           /\ Write => volume.writes \subseteq volume'.writes
           /\ ~Prune => \A i \in DOMAIN backups:
                            i \in DOMAIN backups' /\ backups'[i] = backups[i]
    <1>0. Safe /\ Types
        BY DEF Safe
    <1>1. ~Unpack /\ ~Write => volume'.writes = volume.writes
        <2>1. CASE Up \/ UpAgain \/ UpNew \/ UpLast
            BY <1>0, <2>1, StartedType, NotStartedType DEF Up, UpAgain, UpNew, UpLast, UpFails
        <2>2. CASE Migrate
            BY <1>0, <2>2 DEF Migrate, Types, LocalTypes, Volume
        <2>3. CASE Begins
            BY <2>3, BeginsStep DEF machine
        <2>4. CASE UNCHANGED remoteVars
            BY <2>4 DEF remoteVars, vars, machine
        <2>5. CASE /\ Continues \/ Release \/ Copy \/ Archive \/ Revert \/ Prune
                   /\ ~UpNew /\ ~UpLast /\ ~Migrate
            BY <2>5 DEF Continues, Release, Copy, Archive, Revert, Prune, StopAll, Seal, Preflight,
                    WriteEnv, WriteManifest, WriteBundle, WriteFile, Undo, Stop, Down, CopyBack,
                    WriteConf, WriteRecovery, InitRepo, OpenRepo, Unconfigure, Upload, Forget,
                    SaveStatus, Check, RestoreTest, Download, machine
        <2> QED BY <2>1, <2>2, <2>3, <2>4, <2>5, StepKinds
    <1>2. Write => volume.writes \subseteq volume'.writes
        BY DEF Write, Safe, Types, LocalTypes, Volume
    <1>3. ~Prune => \A i \in DOMAIN backups: i \in DOMAIN backups' /\ backups'[i] = backups[i]
        <2>1. CASE Seal
            BY <2>1 DEF Seal, Safe, Types, LocalTypes
        <2>2. CASE Begins
            BY <2>2, BeginsStep DEF machine
        <2>3. CASE UNCHANGED remoteVars
            BY <2>3 DEF remoteVars, vars, machine
        <2>4. CASE /\ Continues \/ Write \/ Up \/ Release \/ Copy \/ Archive \/ UpAgain \/ Revert
                        \/ Unpack
                   /\ ~Seal
            BY <2>4 DEF Continues, Write, Up, Release, Copy, Archive, UpAgain, Revert, Unpack,
                    StopAll, Preflight, WriteEnv, WriteManifest, WriteBundle, WriteFile, Undo,
                    Stop, Migrate, UpNew, Down, CopyBack, UpLast, WriteConf, WriteRecovery,
                    InitRepo, OpenRepo, Unconfigure, Upload, Forget, SaveStatus, Check,
                    RestoreTest, Download, machine
        <2> QED BY <2>1, <2>2, <2>3, <2>4, StepKinds
    <1> QED BY <1>1, <1>2, <1>3

-------------------------------------------------------------------------------
(***************************************************************************)
(* The invariants                                                          *)
(***************************************************************************)

\* The step before a copy, or before the volume is replaced, stopped everything; and
\* nobody starts it as long as the lock is held.
LEMMA QuietNext ==
    ASSUME Safe, CopiesAreQuiet, [RemoteNext]_remoteVars
    PROVE  CopiesAreQuiet'
    <1> DEFINE Loud == cmd'.step \notin {"archive", "unpack"}
    <1>0. cmd \in Command
        BY DEF Safe, Types, LocalTypes
    <1>1. CASE UNCHANGED remoteVars
        BY <1>1 DEF remoteVars, vars, machine, CopiesAreQuiet
    <1>2. CASE Begins
        BY <1>2, BeginsStep DEF CopiesAreQuiet
    <1>3. CASE Write
        <2>1. cmd'.step = cmd.step
            BY <1>0, <1>3 DEF Write, Command
        <2> QED BY <1>3, <2>1 DEF Write, CopiesAreQuiet
    <1>4. CASE Up
        <2>1. cmd.step = "done" /\ cmd' = cmd
            BY <1>4, KindOfStep DEF Up
        <2> QED BY <2>1 DEF CopiesAreQuiet
    <1>5. CASE Release
        BY <1>5 DEF Release, NoCommand, CopiesAreQuiet
    <1>6. CASE StopAll
        <2>1. FaultTo("done") => cmd'.step = "done"
            BY <1>0 DEF FaultTo, Command
        <2> QED BY <1>6, <2>1, NextStep DEF StopAll, Stopped, CopiesAreQuiet
    <1>7. CASE Down
        <2>1. FaultTo("done") => cmd'.step = "done"
            BY <1>0 DEF FaultTo, Command
        <2> QED BY <1>7, <2>1, NextStep DEF Down, Stopped, CopiesAreQuiet
    <1>8. CASE Continues /\ ~StopAll /\ ~Down
        <2>1. Loud
            BY <1>8, NextStep DEF Continues
        <2> QED BY <2>1 DEF CopiesAreQuiet
    <1>9. CASE Copy \/ Archive \/ UpAgain \/ Revert \/ Unpack \/ Prune
        <2>1. Loud
            BY <1>9, NextStep
        <2> QED BY <2>1 DEF CopiesAreQuiet
    <1> QED BY <1>1, <1>2, <1>3, <1>4, <1>5, <1>6, <1>7, <1>8, <1>9, StepKinds

\* From the archive until the volume is replaced, the command's own backup has what
\* was on the volume and what was not written since, and from the seal on it is
\* among the backups.
HasArchive ==
    \/ cmd.step \in {"seal", "down", "unpack"} \cup AfterOwn
    \/ cmd.step = "upAgain" /\ ~cmd.failed

Saved ==
    HasArchive =>
        /\ volume.writes \subseteq cmd.own.data.writes \cup cmd.late
        /\ cmd.step # "seal" => \E i \in DOMAIN backups: backups[i] = cmd.own

LEMMA SavedContinues ==
    ASSUME Safe, Saved, Continues, ~Write, [RemoteNext]_remoteVars
    PROVE  Saved'
    <1>0. cmd \in Command
        BY DEF Safe, Types, LocalTypes
    <1>1. CASE Seal
        <2>1. cmd.step = "seal" /\ HasArchive /\ cmd'.step = "upAgain"
            BY <1>1, NextStep DEF Seal, At, HasArchive
        <2>2. volume' = volume /\ cmd'.own = cmd.own /\ cmd'.late = cmd.late
            BY <1>1, ContinuesKeep DEF Seal
        <2>3. FaultTo("upAgain") => cmd'.failed
            BY <1>0 DEF FaultTo, Command
        <2>4. ~cmd'.failed => \E i \in DOMAIN backups': backups'[i] = cmd.own
            <3>1. CASE cmd'.failed
                BY <3>1
            <3>2. CASE ~cmd'.failed
                <4>1. backups' = Append(backups, cmd.own)
                    BY <1>1, <2>3, <3>2 DEF Seal
                <4>2. backups \in Seq(BackupDir) /\ cmd.own \in BackupDir
                    BY <2>1 DEF Safe, Types, LocalTypes, Shape, OwnSteps
                <4> QED BY <4>1, <4>2
            <3> QED BY <3>1, <3>2
        <2> QED BY <2>1, <2>2, <2>4 DEF Saved, HasArchive, AfterOwn, ChangeSteps
    <1>2. CASE ~Seal
        <2>1. HasArchive' => HasArchive /\ cmd.step # "seal"
            BY <1>2, NextStep
               DEF Continues, HasArchive, AfterOwn, ChangeSteps, StopAll, Preflight, WriteEnv,
                   WriteManifest, WriteBundle, Undo, Stop, Migrate, UpNew, Down, CopyBack, UpLast,
                   At
        <2>2. cmd'.own = cmd.own /\ cmd'.late = cmd.late
            BY ContinuesKeep
        <2>3. HasArchive' => ~Unpack /\ ~Prune
            BY NextStep DEF HasArchive, AfterOwn, ChangeSteps
        <2> QED BY <2>1, <2>2, <2>3, DataStays DEF Saved
    <1> QED BY <1>1, <1>2

LEMMA SavedNext ==
    ASSUME Safe, Saved, [RemoteNext]_remoteVars
    PROVE  Saved'
    <1>0. cmd \in Command /\ volume \in Volume
        BY DEF Safe, Types, LocalTypes
    <1>1. CASE UNCHANGED remoteVars
        BY <1>1 DEF remoteVars, vars, machine, Saved, HasArchive
    <1>2. CASE Begins
        BY <1>2, BeginsStep DEF Saved, HasArchive, AfterOwn, ChangeSteps
    <1>3. CASE Write
        <2>1. HasArchive => cmd.own \in BackupDir /\ cmd.step \notin {"copy", "stopAll", "archive"}
            BY DEF HasArchive, Safe, Shape, OwnSteps, AfterOwn, ChangeSteps, RestoreSteps
        <2>2. /\ cmd'.step = cmd.step /\ cmd'.own = cmd.own /\ cmd'.failed = cmd.failed
              /\ HasArchive => cmd'.late = cmd.late \cup {acked + 1}
            BY <1>0, <1>3, <2>1, NoValueIsNone DEF Write, Command
        <2>3. volume'.writes = volume.writes \cup {acked + 1} /\ backups' = backups
            BY <1>0, <1>3 DEF Write, Volume
        <2> QED BY <2>2, <2>3 DEF Saved, HasArchive
    <1>4. CASE Up
        <2>1. cmd.step = "done" /\ cmd' = cmd
            BY <1>4, KindOfStep DEF Up
        <2> QED BY <2>1 DEF Saved, HasArchive, AfterOwn, ChangeSteps
    <1>5. CASE Release
        BY <1>5 DEF Release, NoCommand, Saved, HasArchive, AfterOwn, ChangeSteps
    <1>6. CASE Archive
        <2>1. CASE cmd' = [cmd EXCEPT !.step = "seal", !.own.data = volume]
            <3>1. cmd.own \in BackupDir
                BY <1>6 DEF Archive, At, Safe, Shape, OwnSteps
            <3> DEFINE own == [cmd.own EXCEPT !.data = volume]
            <3>2. cmd' = [cmd EXCEPT !.step = "seal", !.own = own] /\ own.data = volume
                BY <2>1, <3>1 DEF BackupDir
            <3> HIDE DEF own
            <3>3. cmd'.own = own /\ cmd'.step = "seal"
                BY <1>0, <3>2 DEF Command
            <3> QED BY <1>6, <3>2, <3>3 DEF Archive, machine, Saved
        <2>2. CASE FaultTo("upAgain")
            BY <1>0, <2>2 DEF FaultTo, Command, Saved, HasArchive, AfterOwn, ChangeSteps
        <2> QED BY <1>6, <2>1, <2>2 DEF Archive
    <1>7. CASE UpAgain /\ HasArchive'
        <2>1. FaultTo("done") \/ GoFailed("done") => cmd'.step = "done"
            BY <1>0 DEF FaultTo, GoFailed, Command
        <2>2. cmd' = [cmd EXCEPT !.step = AfterBackup, !.old = files]
            BY <1>7, <2>1 DEF UpAgain, UpFails, HasArchive, AfterOwn, ChangeSteps
        <2>3. cmd'.step = AfterBackup /\ cmd'.own = cmd.own /\ cmd'.late = cmd.late
            BY <1>0, <2>2 DEF Command
        <2>4. cmd.step = "upAgain" /\ ~cmd.failed
            BY <1>7, <2>3 DEF UpAgain, At, AfterBackup, HasArchive, AfterOwn, ChangeSteps
        <2>5. volume'.writes = volume.writes /\ backups' = backups
            BY <1>7, StartedType, NotStartedType DEF UpAgain, UpFails, Safe
        <2> QED BY <2>3, <2>4, <2>5 DEF Saved, HasArchive
    <1>8. CASE Revert
        <2>1. FaultTo("done") => cmd'.step = "done"
            BY <1>0 DEF FaultTo, Command
        <2>2. \/ cmd'.step = "done"
              \/ cmd'.own = cmd.own /\ cmd'.late = cmd.late
            BY <1>0, <1>8, <2>1 DEF Revert, Command
        <2>3. cmd.step = "revert" /\ volume' = volume /\ backups' = backups
            BY <1>8 DEF Revert, At
        <2> QED BY <2>2, <2>3 DEF Saved, HasArchive, AfterOwn, ChangeSteps
    <1>9. CASE Copy \/ Unpack \/ Prune \/ (UpAgain /\ ~HasArchive')
        <2>1. ~HasArchive'
            BY <1>9, NextStep DEF HasArchive, AfterOwn, ChangeSteps
        <2> QED BY <2>1 DEF Saved
    <1>10. CASE Continues /\ ~Write
        BY <1>10, SavedContinues
    <1>11. CASE UpAgain
        BY <1>7, <1>9, <1>11
    <1> QED BY <1>1, <1>2, <1>3, <1>4, <1>5, <1>6, <1>8, <1>9, <1>10, <1>11, StepKinds

\* No step takes the last snapshot of a repository.
LEMMA SnapshotsStay ==
    ASSUME Safe, Snapshots, [RemoteNext]_remoteVars, NEW r \in Repos, HasSnapshot(r)
    PROVE  HasSnapshot(r)'
    <1> USE DEF HasSnapshot
    <1>0. repos \in [Repos -> Repo \cup {NoValue}]
        BY DEF Safe, Types, RemoteTypes
    <1>1. CASE repos' = repos
        BY <1>1
    <1>2. CASE InitRepo
        BY <1>0, <1>2 DEF InitRepo, Created
    <1>3. CASE Upload
        <2>1. conf \in Conf /\ cmd.own \in BackupDir
            BY <1>3, KindOfStep DEF Upload, At, Safe, Shape, OwnSteps
        <2>2. (Opens(conf) /\ repos' = Uploaded) \/ repos' = repos
            BY <1>3 DEF Upload
        <2>3. Opens(conf) => repos[conf.repo] \in Repo
            BY <1>0, <2>1 DEF Opens, Conf
        <2> QED BY <1>0, <2>1, <2>2, <2>3, NoValueIsNone, RemoteAssumption DEF Uploaded, Repo
    <1>4. CASE Forget
        <2>1. conf \in Conf /\ Opens(conf) /\ cmd.own \in BackupDir
            BY <1>4, KindOfStep DEF Forget, At, Safe, Shape, Snapshots, OwnSteps
        <2>2. repos[conf.repo] \in Repo
            BY <1>0, <2>1 DEF Opens, Conf
        <2> QED BY <1>4, <2>1, <2>2, ForgetType, RemoteAssumption DEF Safe
    <1>5. InitRepo \/ Upload \/ Forget \/ repos' = repos
        BY DEF RemoteNext, remoteVars, remote, BeginConfigure, WriteConf, WriteRecovery, OpenRepo,
               Unconfigure, BeginRemote, SaveStatus, Prune, BeginCheck, Check, RestoreTest,
               BeginRemoteRestore, Download
    <1> QED BY <1>1, <1>2, <1>3, <1>4, <1>5

\* What a command is about to write to the status file, or has written, has a
\* snapshot behind it.
LEMMA SnapshotsNext ==
    ASSUME Safe, Snapshots, [RemoteNext]_remoteVars
    PROVE  Snapshots'
    <1> DEFINE Written == \A r \in {status'.backup, status'.tested} \ {NoValue}: HasSnapshot(r)
               Quiet == cmd'.step \notin {"forget", "test", "status"}
    <1>0. cmd \in Command /\ status \in Status
        BY DEF Safe, Types, LocalTypes, RemoteTypes
    <1>a. status' \in Status
        BY SafeNext DEF Safe, Types, RemoteTypes
    <1>b. ASSUME Written
          PROVE  /\ (status.backup # NoValue => HasSnapshot(status.backup))'
                 /\ (status.tested # NoValue => HasSnapshot(status.tested))'
        <2>1. \A r \in Repos: HasSnapshot(r) => repos'[r] # NoValue /\ repos'[r].snaps # {}
            BY SnapshotsStay DEF HasSnapshot
        <2>2. {status'.backup, status'.tested} \subseteq Repos \cup {NoValue}
            BY <1>a DEF Status
        <2> QED BY <1>b, <2>1, <2>2 DEF HasSnapshot
    <1>c. ASSUME status' = status PROVE Written
        BY <1>c DEF Snapshots
    <1>d. ASSUME NEW new \in Status, NEW next \in Steps, WriteStatus(new, next),
                 \A r \in {new.backup, new.tested} \ {NoValue}: HasSnapshot(r)
          PROVE  Written
        BY <1>d, WriteStatusType DEF Snapshots, NoStatus
    <1>e. ASSUME Written, Quiet PROVE Snapshots'
        BY <1>b, <1>e DEF Snapshots
    <1>f. /\ {"prune", "done", "test"} \subseteq Steps
          /\ FaultTo("done") \/ GoFailed("done") => cmd'.step = "done"
        BY <1>0 DEF Steps, RemoteSteps, FaultTo, GoFailed, Command
    <1> HIDE DEF Written
    <1>1. CASE UNCHANGED remoteVars
        BY <1>1 DEF remoteVars, vars, remote, Snapshots, HasSnapshot, Opens
    <1>2. CASE Upload
        <2>1. /\ conf \in Conf /\ cmd.own \in BackupDir
              /\ conf' = conf /\ status' = status
            BY <1>2, KindOfStep DEF Upload, At, Safe, Shape, OwnSteps
        <2>2. cmd'.step \in {"forget", "done"} /\ (cmd'.step = "forget" => Opens(conf) /\ repos' = Uploaded)
            BY <1>2, <1>f, NextStep DEF Upload
        <2>3. cmd'.step = "forget" => Opens(conf)'
            <3>1. cmd'.step = "forget" =>
                    /\ Opens(conf) /\ repos' = Uploaded
                    /\ Uploaded[conf.repo] \in Repo
                    /\ Uploaded[conf.repo].password = repos[conf.repo].password
                BY <2>1, <2>2, UploadedType DEF Safe
            <3> QED BY <2>1, <3>1, RemoteAssumption DEF Opens
        <2> QED BY <1>b, <1>c, <2>1, <2>2, <2>3 DEF Snapshots
    <1>3. CASE Forget
        <2>1. /\ conf \in Conf /\ cmd.own \in BackupDir /\ Opens(conf)
              /\ conf' = conf /\ status' = status
            BY <1>3, KindOfStep DEF Forget, At, Safe, Shape, OwnSteps, Snapshots
        <2>2. repos[conf.repo] \in Repo
            BY <2>1 DEF Opens, Conf, Safe, Types, RemoteTypes
        <2>4. HasSnapshot(conf.repo)'
            BY <1>3, <2>1, <2>2, ForgetType, RemoteAssumption DEF HasSnapshot, Safe
        <2>3. cmd'.step \in {"status", "done"}
            BY <1>3, NextStep
        <2> QED BY <1>b, <1>c, <2>1, <2>3, <2>4 DEF Snapshots
    <1>4. CASE SaveStatus
        <2>1. conf \in Conf /\ HasSnapshot(conf.repo)
            BY <1>4, KindOfStep DEF SaveStatus, At, Safe, Shape, Snapshots
        <2> DEFINE new == [status EXCEPT !.backup = conf.repo]
        <2>2. new \in Status /\ new.backup = conf.repo /\ new.tested = status.tested
            BY <1>0, <2>1 DEF Status, Conf
        <2>3. WriteStatus(new, "prune")
            BY <1>4 DEF SaveStatus
        <2> HIDE DEF new
        <2>4. Written
            BY <1>d, <1>f, <2>1, <2>2, <2>3 DEF Snapshots
        <2> QED BY <1>4, <1>e, <2>4, NextStep
    <1>5. CASE Check
        <2> DEFINE new == [status EXCEPT !.checked = TRUE]
        <2>1. new \in Status /\ new.backup = status.backup /\ new.tested = status.tested
            BY <1>0 DEF Status
        <2>2. WriteStatus(new, "done") \/ status' = status
            BY <1>5 DEF Check
        <2> HIDE DEF new
        <2>3. Written
            BY <1>c, <1>d, <1>f, <2>1, <2>2 DEF Snapshots
        <2>4. WriteStatus(new, "done") => cmd'.step = "done"
            BY <1>0, <1>f, Moves DEF WriteStatus, Moved
        <2>5. cmd'.step \in {"test", "done"} /\ (cmd'.step = "test" => Opens(conf))
            BY <1>5, <1>f, <2>4, NextStep DEF Check, new
        <2>6. UNCHANGED <<conf, repos>>
            BY <1>5 DEF Check
        <2>7. cmd'.step = "test" => Opens(conf)'
            BY <2>5, <2>6 DEF Opens
        <2> QED BY <1>b, <2>3, <2>5, <2>7 DEF Snapshots
    <1>6. CASE RestoreTest
        <2>1. conf \in Conf /\ Opens(conf)
            BY <1>6, KindOfStep DEF RestoreTest, At, Safe, Shape, Snapshots
        <2> DEFINE new == [status EXCEPT !.checked = TRUE, !.tested = conf.repo]
        <2>2. new \in Status /\ new.backup = status.backup /\ new.tested = conf.repo
            BY <1>0, <2>1 DEF Status, Conf
        <2>3. \/ WriteStatus(new, "done") /\ repos[conf.repo].snaps # {}
              \/ status' = status
            BY <1>6 DEF RestoreTest
        <2> HIDE DEF new
        <2>4. Written
            BY <1>c, <1>d, <1>f, <2>1, <2>2, <2>3 DEF Snapshots, HasSnapshot, Opens
        <2> QED BY <1>6, <1>e, <2>4, NextStep
    <1>7. CASE WriteConf \/ WriteRecovery \/ InitRepo \/ Unconfigure
        <2>1. status' = status
            BY <1>7 DEF WriteConf, WriteRecovery, InitRepo, Unconfigure
        <2> QED BY <1>7, <1>c, <1>e, <2>1, NextStep
    <1>8. CASE /\ UNCHANGED <<conf, repos, status>>
               /\ ~(Upload \/ Forget \/ SaveStatus \/ Check \/ RestoreTest)
        <2>1. Write \/ Up => cmd'.step = cmd.step
            BY <1>0 DEF Write, Up, Command
        <2>2. cmd'.step = cmd.step \/ Quiet
            BY <1>1, <1>8, <2>1, BeginsStep, NextStep, StepKinds
               DEF Continues, Release, NoCommand, remoteVars, vars
        <2> QED BY <1>8, <1>c, <1>e, <2>2 DEF Snapshots, HasSnapshot, Opens
    <1>9. \/ UNCHANGED remoteVars
          \/ Upload \/ Forget \/ SaveStatus \/ Check \/ RestoreTest
          \/ WriteConf \/ WriteRecovery \/ InitRepo \/ Unconfigure
          \/ UNCHANGED <<conf, repos, status>>
        BY DEF RemoteNext, remote, BeginConfigure, OpenRepo, BeginRemote, Prune, BeginCheck,
               BeginRemoteRestore, Download
    <1> QED BY <1>1, <1>2, <1>3, <1>4, <1>5, <1>6, <1>7, <1>8, <1>9

\* A configuration and a recovery key that agree with a repository, or nothing.
WasFit(c, key) == (Opens(c) /\ key = c.password) \/ (c = NoValue /\ key = NoValue)

\* What a configure found is there to go back to until it ends.
Agreement ==
    cmd.kind = "configure" /\ job.fit =>
        /\ cmd.step \in ConfSteps => WasFit(job.conf, job.recovery)
        /\ cmd.step = "done" /\ cmd.faults \cap {"conf", "unconf"} = {} => WasFit(conf, recovery)

\* A command that starts is of the kind that it says.
LEMMA BeginsKind ==
    ASSUME NEW kind, NEW step, NEW target, NEW from, Begin(kind, step, target, from)
    PROVE  cmd'.kind = kind
    BY DEF Begin, NoCommand

\* Only a configure becomes one.
LEMMA ConfigureBegins ==
    ASSUME Safe, [RemoteNext]_remoteVars, cmd.kind # "configure", cmd'.kind = "configure"
    PROVE  \E input \in Conf: BeginConfigure(input)
    <1>0. cmd \in Command
        BY DEF Safe, Types, LocalTypes
    <1>1. ~UNCHANGED remoteVars /\ ~Continues
        BY ContinuesKeep DEF remoteVars, vars
    <1>2. ~Write /\ ~Up /\ ~Release
        BY <1>0 DEF Write, Up, Release, NoCommand, Command
    <1>3. ~Copy /\ ~Archive /\ ~UpAgain /\ ~Revert /\ ~Unpack /\ ~Prune
        BY <1>0 DEF Copy, Archive, UpAgain, UpFails, Revert, Unpack, Prune, Go, GoFailed, FaultTo,
                    Command
    <1>4. ~BeginBackup /\ ~BeginRollback /\ \A r \in Releases: ~BeginUpgrade(r)
        BY BeginInputs, BeginsKind
    <1>5. ~BeginRemote /\ ~BeginCheck
        BY BeginsKind DEF BeginRemote, BeginCheck
    <1>6. \A i \in DOMAIN backups: ~BeginRestore(i)
        BY BeginsKind DEF BeginRestore
    <1>7. ~\E r \in Repos: repos[r] # NoValue /\ \E b \in repos[r].snaps: BeginRemoteRestore(b)
        BY BeginsKind DEF BeginRemoteRestore
    <1> QED BY <1>1, <1>2, <1>3, <1>4, <1>5, <1>6, <1>7, StepKinds DEF Begins

LEMMA AgreementNext ==
    ASSUME Safe, Agreement, [RemoteNext]_remoteVars
    PROVE  Agreement'
    <1>0. cmd \in Command /\ {"recovery", "init", "open", "unconf", "done"} \subseteq Steps
        BY DEF Safe, Types, LocalTypes, Steps, RemoteSteps
    <1>1. CASE cmd'.kind # "configure"
        BY <1>1 DEF Agreement
    <1>2. CASE cmd.kind # "configure" /\ cmd'.kind = "configure"
        <2>1. PICK input \in Conf: BeginConfigure(input)
            BY <1>2, ConfigureBegins
        <2>2. cmd'.step = "conf"
            BY <2>1, BeginFields DEF BeginConfigure, Kinds, Steps, RemoteSteps, Safe
        <2>3. job'.fit => WasFit(conf, recovery)
            BY <2>1 DEF BeginConfigure, WasFit, Agree
        <2>4. UNCHANGED <<conf, recovery, repos>> /\ job'.conf = conf /\ job'.recovery = recovery
            BY <2>1 DEF BeginConfigure
        <2> QED BY <2>2, <2>3, <2>4 DEF Agreement, WasFit, Opens
    <1>3. CASE cmd.kind = "configure" /\ cmd'.kind = "configure"
        <2>0. cmd.step \in ConfSteps \cup {"done"} /\ job \in Job
            BY <1>3 DEF Safe, Shape, StepsOf
        <2>1. CASE UNCHANGED remote /\ cmd'.step = cmd.step /\ cmd'.faults = cmd.faults
            BY <1>3, <2>1 DEF remote, Agreement, WasFit, Opens
        <2>2. CASE WriteConf
            <3>1. UNCHANGED <<repos, job>> /\ cmd.step = "conf"
                BY <2>2 DEF WriteConf, At
            <3>2. cmd'.step = "recovery" \/ (cmd'.step = "done" /\ "conf" \in cmd'.faults)
                BY <1>0, <2>2, <3>1, Moves, Faults DEF WriteConf, Moved
            <3> QED BY <1>3, <3>1, <3>2 DEF Agreement, WasFit, Opens, ConfSteps
        <2>3. CASE WriteRecovery
            <3>1. UNCHANGED <<repos, job>> /\ cmd.step = "recovery"
                BY <2>3 DEF WriteRecovery, At
            <3>2. cmd'.step \in {"init", "unconf"}
                BY <2>3, NextStep
            <3> QED BY <1>3, <3>1, <3>2 DEF Agreement, WasFit, Opens, ConfSteps
        <2>4. CASE InitRepo
            <3>1. /\ cmd.step = "init" /\ UNCHANGED <<conf, recovery, job>>
                  /\ conf = job.input /\ recovery = conf.password /\ conf \in Conf
                BY <2>0, <2>4 DEF InitRepo, At, Safe, Shape, Job
            <3>2. repos \in [Repos -> Repo \cup {NoValue}] /\ conf.repo \in Repos
                BY <3>1 DEF Safe, Types, RemoteTypes, Conf
            <3>3. \/ cmd'.step = "open"
                  \/ cmd'.step = "done" /\ repos' = Created /\ repos[conf.repo] = NoValue
                BY <1>0, <2>4, Moves DEF InitRepo, Moved
            <3>4. repos' = repos \/ (repos[conf.repo] = NoValue /\ repos' = Created)
                BY <2>4 DEF InitRepo
            <3>5. \A r \in Repos: repos[r] # NoValue => repos'[r] = repos[r]
                BY <3>2, <3>4 DEF Created
            <3>6. job.conf \in Conf \cup {NoValue, Torn}
                BY <2>0 DEF Job, ConfFile
            <3>7. job.fit => WasFit(job.conf, job.recovery)'
                BY <1>3, <3>1, <3>5, <3>6 DEF Agreement, WasFit, Opens, ConfSteps, Conf
            <3>8. cmd'.step = "done" => WasFit(conf, recovery)'
                <4>1. [password |-> conf.password, snaps |-> {}] \in Repo
                    BY <3>1 DEF Conf, Repo
                <4>2. cmd'.step = "done" =>
                        repos'[conf.repo] = [password |-> conf.password, snaps |-> {}]
                    BY <3>2, <3>3 DEF Created
                <4> QED BY <3>1, <4>1, <4>2, RemoteAssumption DEF WasFit, Opens
            <3> QED BY <3>1, <3>7, <3>8 DEF Agreement
        <2>5. CASE OpenRepo
            <3>1. /\ cmd.step = "open" /\ UNCHANGED <<conf, recovery, repos, job>>
                  /\ recovery = conf.password
                BY <2>5 DEF OpenRepo, At, remote, Safe, Shape
            <3>2. cmd'.step = "unconf" \/ (cmd'.step = "done" /\ Opens(conf))
                BY <1>0, <2>5, Moves DEF OpenRepo, Moved
            <3> QED BY <1>3, <3>1, <3>2 DEF Agreement, WasFit, Opens, ConfSteps
        <2>6. CASE Unconfigure
            <3>1. cmd.step = "unconf" /\ UNCHANGED <<repos, job>>
                BY <2>6 DEF Unconfigure, At
            <3>2. /\ cmd'.step = "done"
                  /\ \/ conf' = job.conf /\ recovery' = job.recovery
                     \/ "unconf" \in cmd'.faults
                BY <1>0, <2>6, <3>1, Moves, Faults DEF Unconfigure, Moved
            <3> QED BY <1>3, <3>1, <3>2 DEF Agreement, WasFit, Opens, ConfSteps
        <2>7. \/ WriteConf \/ WriteRecovery \/ InitRepo \/ OpenRepo \/ Unconfigure
              \/ UNCHANGED remote /\ cmd'.step = cmd.step /\ cmd'.faults = cmd.faults
            <3>1. CASE UNCHANGED remoteVars
                BY <3>1 DEF remoteVars, vars
            <3>2. ~Begins /\ ~Up /\ ~Release
                BY <1>3, BeginsStep DEF Up, Release, NoCommand
            <3>3. /\ ~Copy /\ ~StopAll /\ ~Archive /\ ~Seal /\ ~UpAgain /\ ~Preflight
                  /\ ~WriteEnv /\ ~WriteManifest /\ ~WriteBundle /\ ~Undo /\ ~Stop /\ ~Migrate
                  /\ ~UpNew /\ ~Revert /\ ~Down /\ ~Unpack /\ ~CopyBack /\ ~UpLast
                BY <2>0 DEF At, ConfSteps, Copy, StopAll, Archive, Seal, UpAgain, Preflight, WriteEnv,
                            WriteManifest, WriteBundle, Undo, Stop, Migrate, UpNew, Revert, Down,
                            Unpack, CopyBack, UpLast
            <3>4. /\ ~Upload /\ ~Forget /\ ~SaveStatus /\ ~Prune
                  /\ ~Check /\ ~RestoreTest /\ ~Download
                BY <2>0 DEF At, ConfSteps, Upload, Forget, SaveStatus, Prune, Check, RestoreTest,
                            Download
            <3>5. Write => cmd'.step = cmd.step /\ cmd'.faults = cmd.faults
                BY <1>0 DEF Write, Command
            <3>6. Next => Write
                BY <3>2, <3>3 DEF Next, Begins
            <3> QED BY <1>3, <3>1, <3>2, <3>4, <3>5, <3>6 DEF RemoteNext, Begins
        <2> QED BY <2>1, <2>2, <2>3, <2>4, <2>5, <2>6, <2>7
    <1> QED BY <1>1, <1>2, <1>3

IInv == Safe /\ CopiesAreQuiet /\ Saved /\ Snapshots /\ Agreement

LEMMA Initially == RemoteInit => IInv
    <1> SUFFICES ASSUME RemoteInit PROVE IInv
        OBVIOUS
    <1>1. LocalTypes
        <2>1. FirstRelease \in Releases /\ SchemaOf[FirstRelease] \in Nat
            BY DeploymentAssumption
        <2>2. files \in Files
            BY <2>1 DEF RemoteInit, Init, Files, Manifest
        <2>3. volume \in Volume
            BY <2>1 DEF RemoteInit, Init, Volume
        <2>4. cmd \in Command
            BY DEF RemoteInit, Init, NoCommand, Command, Steps
        <2> QED BY <2>1, <2>2, <2>3, <2>4, DeploymentAssumption DEF RemoteInit, Init, LocalTypes
    <1>2. RemoteTypes
        BY DEF RemoteInit, RemoteTypes, ConfFile, RecoveryFile, Status, NoStatus
    <1>3. cmd.kind = "none" /\ cmd.step = "done" /\ status = NoStatus
        BY DEF RemoteInit, Init, NoCommand
    <1>4. Shape
        BY <1>3 DEF Shape, StepsOf, OwnSteps, AfterOwn, ChangeSteps, RestoreSteps
    <1>5. CopiesAreQuiet /\ Saved /\ Snapshots /\ Agreement
        BY <1>3 DEF CopiesAreQuiet, Saved, HasArchive, Snapshots, Agreement, AfterOwn,
                    ChangeSteps, NoStatus
    <1> QED BY <1>1, <1>2, <1>4, <1>5 DEF IInv, Safe, Types

LEMMA Inductive ==
    ASSUME IInv, [RemoteNext]_remoteVars
    PROVE  IInv'
    BY SafeNext, QuietNext, SavedNext, SnapshotsNext, AgreementNext DEF IInv

LEMMA Invariance == RemoteSpec => []IInv
    BY Initially, Inductive, PTL DEF RemoteSpec

-------------------------------------------------------------------------------
(***************************************************************************)
(* The theorems                                                            *)
(***************************************************************************)

\* A command has what its step reads: the manifest that it changes to, the files that
\* it may put back, its own backup, and the one that it restores.
LEMMA SafeIsTyped ==
    ASSUME Safe
    PROVE  RemoteTypeOK
    <1>1. Types /\ Shape
        BY DEF Safe
    <1>2. cmd.step \in RestoreSteps => cmd.from # NoValue
        BY <1>1, NoValueIsNone DEF Shape
    <1>3. cmd.step \in {"manifest", "bundle", "undo", "stop", "migrate", "up", "revert"}
            => NoValue \notin {cmd.target, cmd.old, cmd.own}
        <2>1. cmd.step \in ChangeSteps => cmd.kind = "change"
            BY KindOfStep
        <2> QED BY <1>1, <2>1, NoValueIsNone DEF Shape, AfterOwn, OwnSteps, ChangeSteps
    <1> QED BY <1>1, <1>2, <1>3 DEF RemoteTypeOK, TypeOK, Types, LocalTypes, RemoteTypes, Job

\* Every variable keeps its type, and a command has what its step reads.
THEOREM TypeCorrect == RemoteSpec => []RemoteTypeOK
    <1>1. IInv => RemoteTypeOK
        BY SafeIsTyped DEF IInv
    <1> QED BY <1>1, Invariance, PTL

\* A write that was answered leaves the volume only for a backup that has it, unless
\* it was answered after that backup.
THEOREM SavedFirst == RemoteSpec => SavedBeforeReplaced
    <1>1. ASSUME IInv, [RemoteNext]_remoteVars
          PROVE  \A w \in volume.writes \ volume'.writes:
                    w \in cmd.late \/ \E i \in DOMAIN backups: w \in backups[i].data.writes
        <2>1. CASE Unpack
            <3>1. HasArchive /\ cmd.step = "unpack"
                BY <2>1 DEF Unpack, At, HasArchive
            <3> QED BY <1>1, <3>1 DEF IInv, Saved
        <2>2. CASE ~Unpack
            BY <1>1, <2>2, DataStays DEF IInv
        <2> QED BY <2>1, <2>2
    <1>2. IInv /\ [RemoteNext]_remoteVars =>
            [\A w \in volume.writes \ volume'.writes:
                w \in cmd.late \/ \E i \in DOMAIN backups: w \in backups[i].data.writes]_vars
        BY <1>1
    <1> QED BY <1>2, Invariance, PTL DEF RemoteSpec, SavedBeforeReplaced

\* The status that doctor reads has a snapshot behind it.
THEOREM StatusIsBacked == RemoteSpec => []StatusHasSnapshot
    <1>1. IInv => StatusHasSnapshot
        BY DEF IInv, Snapshots, HasSnapshot, StatusHasSnapshot
    <1> QED BY <1>1, Invariance, PTL

\* A configure that ends leaves a key that opens the repository, or nothing, as it
\* found it.
THEOREM KeyOpensRepository == RemoteSpec => []ConfigureKeepsAgreement
    <1>1. IInv => ConfigureKeepsAgreement
        BY DEF IInv, Agreement, ConfigureKeepsAgreement, WasFit, Agree, At
    <1> QED BY <1>1, Invariance, PTL

===============================================================================
