---------------------------- MODULE HealingProofs ----------------------------
(*************************************************************************)
(* OneFaultHeals and SuccessMends of Deployment, as theorems of          *)
(* RemoteSpec: a command that finds a healthy deployment leaves a        *)
(* healthy one if one step fails that the command can make good, and a   *)
(* change or a restore that succeeds leaves a healthy one whatever it    *)
(* found.                                                                *)
(*                                                                       *)
(* For the first, the invariant follows a command that has met at most   *)
(* one such fault along its course: what the files, the volume and the   *)
(* containers are at each step, and that a change that puts something    *)
(* back has had its fault already, so that the way back has none.        *)
(*                                                                       *)
(* For the second, it follows a command that has met none: what each     *)
(* step has brought into place stays there until the end.                *)
(*************************************************************************)
EXTENDS DeploymentProofs, FiniteSetTheorems

\* A command that found all well and met at most one fault, and none of Unhealed.
OneFault == \A a, b \in cmd.faults: a = b

Sound ==
    /\ cmd.fit
    /\ OneFault
    /\ cmd.faults \cap Unhealed(cmd.kind) = {}

BackSteps == {"undo", "revert"} \cup RestoreSteps

HealthySteps ==
    {"download", "preflight", "copy", "stopAll", "env", "done"}
        \cup ConfSteps \cup UploadSteps \cup {"check", "test"}

\* What such a command has established at each of its steps.
Course ==
    /\ cmd.step \in HealthySteps => Healthy
    /\ cmd.step \in {"archive", "seal", "upAgain", "up", "upLast"} => Fit(files, volume)
    /\ cmd.step \in {"stopAll", "archive", "seal", "upAgain"} =>
            cmd.own.files = files /\ Fit(cmd.own.files, cmd.own.data)
    /\ cmd.step \in AfterOwn => cmd.old = cmd.own.files /\ Fit(cmd.own.files, cmd.own.data)
    /\ cmd.step = "env" => cmd.old = files
    /\ cmd.step \in {"manifest", "bundle", "undo"} => control = cmd.old.env /\ core
    /\ cmd.step \in {"manifest", "bundle", "undo", "stop", "migrate"} => Fit(cmd.old, volume)
    /\ cmd.step \in {"manifest", "bundle", "stop", "migrate"} =>
            files.env = cmd.target.release
    /\ cmd.step \in {"bundle", "stop", "migrate"} => files.manifest = cmd.target
    /\ cmd.step \in {"stop", "migrate"} => files.bundle = "new"
    /\ cmd.kind = "restore" \/ cmd.step \in RestoreSteps =>
            Fit(cmd.from.files, cmd.from.data)
    /\ cmd.step = "config" => Fit(cmd.from.files, volume)
    /\ cmd.kind = "change" /\ cmd.step \in BackSteps =>
            \E s \in cmd.faults: s \notin BackSteps

Heals == cmd.kind # "none" /\ Sound => Course

\* The fault that may happen at this step: it is the first.
Alone == cmd.step \notin Unhealed(cmd.kind) /\ \A s \in cmd.faults: s = cmd.step

-------------------------------------------------------------------------------
(***************************************************************************)
(* The operators                                                           *)
(***************************************************************************)

\* A command whose course is sound after a step was sound before it.
LEMMA SoundBefore ==
    ASSUME Safe, cmd'.fit = cmd.fit, cmd'.kind = cmd.kind, cmd.faults \subseteq cmd'.faults, Sound'
    PROVE  Sound
    BY DEF Sound, OneFault, Unhealed

LEMMA GoesOn ==
    ASSUME Safe, NEW step \in Steps, Go(step) \/ GoFailed(step) \/ FaultTo(step)
    PROVE  Moved(step) /\ cmd'.fit = cmd.fit
    <1>1. cmd \in Command
        BY DEF Safe, Types, LocalTypes
    <1>2. Moved(step)
        BY <1>1, Moves
    <1>3. CASE Go(step) \/ GoFailed(step)
        BY <1>1, <1>2, <1>3 DEF Go, GoFailed, Command
    <1>4. CASE FaultTo(step)
        <2> DEFINE faults == cmd.faults \cup {cmd.step}
        <2>1. cmd' = [cmd EXCEPT !.step = step, !.failed = TRUE, !.faults = faults]
            BY <1>4 DEF FaultTo
        <2> HIDE DEF faults
        <2> QED BY <1>1, <1>2, <2>1 DEF Command
    <1> QED BY <1>2, <1>3, <1>4

\* A step of a sound course that fails is the first that does and can be made good.
LEMMA FaultIsAlone ==
    ASSUME Safe, NEW step \in Steps, FaultTo(step), Sound'
    PROVE  Alone
    <1>1. cmd.step \in cmd'.faults /\ Moved(step)
        BY Faults, GoesOn DEF Safe, Types, LocalTypes
    <1> QED BY <1>1 DEF Alone, Sound, OneFault, Moved, Unhealed

\* The way back of a change is not sound with another fault.
LEMMA BackIsSafe ==
    ASSUME Safe, Course, NEW step \in Steps, FaultTo(step), Sound'
    PROVE  cmd.step \notin {"stopAll", "upAgain"} \cup BackSteps /\ cmd.step # "env"
    <1>1. Alone
        BY FaultIsAlone
    <1>2. cmd.step \in BackSteps => cmd.kind \in {"change", "restore"}
        BY KindOfStep DEF BackSteps, ChangeSteps
    <1>3. cmd.step \in {"undo", "revert", "env"} => cmd.kind = "change"
        BY KindOfStep DEF ChangeSteps
    <1> QED BY <1>1, <1>2, <1>3 DEF Alone, Course, Unhealed, BackSteps

\* What is read from a file that was cut is none of the contents of files.
LEMMA TornIsNoFile == Torn \notin Releases /\ Torn \notin Manifest /\ Torn # "new"
    BY DeploymentAssumption

\* Whether files and data fit is a matter of the schema.
LEMMA FitSame ==
    ASSUME NEW f, NEW v, NEW w, v.whole = w.whole, v.schema = w.schema, Fit(f, v)
    PROVE  Fit(f, w)
    BY DEF Fit

\* Files that fit the data start, whole; and then only a fault of docker is in the way.
LEMMA FitStarts ==
    ASSUME Types, Fit(files, volume)
    PROVE  /\ Started /\ UNCHANGED files => Healthy'
           /\ \A next: UpFails(next) => FaultTo(next)
    <1>1. files.env \in Releases /\ volume \in Volume
        BY DEF Fit, Types, LocalTypes, Files
    <1>2. SchemaOf[files.env] \in Nat
        BY <1>1, DeploymentAssumption
    <1>3. CanStart /\ volume.whole
        BY <1>2 DEF CanStart, Fit
    <1>4. \A next: UpFails(next) => FaultTo(next)
        BY <1>3 DEF UpFails
    <1>5. Started /\ UNCHANGED files => Healthy'
        <2> SUFFICES ASSUME Started, UNCHANGED files
                     PROVE  Healthy'
            OBVIOUS
        <2>1. volume'.whole = volume.whole /\ volume'.schema = volume.schema
            BY <1>1 DEF Started, Fit, Volume
        <2>2. control' = files'.env /\ core'
            BY DEF Started
        <2> QED BY <2>1, <2>2 DEF Healthy, Fit
    <1> QED BY <1>4, <1>5

-------------------------------------------------------------------------------
(***************************************************************************)
(* The steps of a sound course                                             *)
(***************************************************************************)

\* A command that goes on over a healthy deployment, and makes no change to it.
LEMMA StaysHealthy ==
    ASSUME Safe, Course, NEW step \in Steps, Moved(step),
           step \in HealthySteps \ {"env", "stopAll"}, Healthy'
    PROVE  Course'
    <1>1. /\ cmd'.step = step /\ cmd'.kind = cmd.kind /\ cmd'.from = cmd.from
          /\ cmd'.own = cmd.own /\ cmd'.old = cmd.old
        BY DEF Moved
    <1>2. step \notin {"env", "stopAll", "archive", "seal", "upAgain"} \cup AfterOwn \cup RestoreSteps
                          \cup BackSteps
        BY DEF HealthySteps, AfterOwn, ChangeSteps, RestoreSteps, BackSteps, ConfSteps, UploadSteps
    <1>3. cmd.kind = "restore" => Fit(cmd.from.files, cmd.from.data)
        BY DEF Course
    <1> QED BY <1>1, <1>2, <1>3 DEF Course, AfterOwn, ChangeSteps, RestoreSteps

\* The backup.  Its copy fits, because files and data do; a fault of it that is not one
\* of the containers ends the command where it began.
LEMMA BackupCourse ==
    ASSUME Safe, Course, Sound'
    PROVE  /\ Copy => Course'
           /\ StopAll => Course'
           /\ Archive => Course'
           /\ Seal => Course'
           /\ UpAgain => Course'
    <1>0. cmd \in Command /\ Types
        BY DEF Safe, Types, LocalTypes
    <1> USE DEF AfterOwn, ChangeSteps, RestoreSteps, BackSteps, HealthySteps, ConfSteps, UploadSteps
    <1>1. ASSUME Copy PROVE Course'
        <2>1. cmd.step = "copy" /\ Healthy
            BY <1>1 DEF Copy, At, Course
        <2>2. Healthy'
            BY <1>1, <2>1 DEF Copy, machine, Healthy
        <2>3. CASE FaultTo("done")
            BY <2>2, <2>3, GoesOn, StaysHealthy DEF Steps
        <2>4. CASE cmd' = [cmd EXCEPT !.step = "stopAll", !.own = [files |-> files, data |-> volume]]
            <3> DEFINE own == [files |-> files, data |-> volume]
            <3>1. own.files = files /\ Fit(own.files, own.data)
                BY <2>1 DEF Healthy
            <3>2. cmd' = [cmd EXCEPT !.step = "stopAll", !.own = own]
                BY <2>4
            <3> HIDE DEF own
            <3>3. /\ cmd'.step = "stopAll" /\ cmd'.own = own /\ cmd'.kind = cmd.kind
                  /\ cmd'.from = cmd.from
                BY <1>0, <3>2 DEF Command
            <3>4. UNCHANGED <<files, volume>>
                BY <1>1 DEF Copy, machine
            <3> QED BY <2>1, <2>2, <3>1, <3>3, <3>4 DEF Course
        <2> QED BY <1>1, <2>3, <2>4 DEF Copy
    <1>2. ASSUME StopAll PROVE Course'
        <2>1. cmd.step = "stopAll" /\ Healthy
            BY <1>2 DEF StopAll, At, Course
        <2>2. ~FaultTo("done")
            BY <2>1, BackIsSafe DEF Steps
        <2>3. Go("archive")
            BY <1>2, <2>2 DEF StopAll
        <2>4. Moved("archive")
            BY <2>3, GoesOn DEF Steps, BackupSteps
        <2>5. UNCHANGED <<files, volume>>
            BY <1>2 DEF StopAll
        <2> QED BY <2>1, <2>4, <2>5 DEF Course, Moved, Healthy
    <1>3. ASSUME Archive PROVE Course'
        <2>1. cmd.step = "archive" /\ UNCHANGED <<files, volume>>
            BY <1>3 DEF Archive, At, machine
        <2>2. CASE FaultTo("upAgain")
            <3>1. Moved("upAgain")
                BY <2>2, GoesOn DEF Steps, BackupSteps
            <3> QED BY <2>1, <3>1 DEF Course, Moved
        <2>3. CASE cmd' = [cmd EXCEPT !.step = "seal", !.own.data = volume]
            <3>1. cmd.own \in BackupDir
                BY <2>1 DEF Safe, Shape, OwnSteps
            <3>2. /\ cmd'.step = "seal" /\ cmd'.kind = cmd.kind /\ cmd'.from = cmd.from
                  /\ cmd'.own.files = cmd.own.files /\ cmd'.own.data = volume
                BY <1>0, <2>3, <3>1 DEF Command, BackupDir
            <3>3. cmd.own.files = files /\ Fit(files, volume)
                BY <2>1 DEF Course
            <3> QED BY <2>1, <3>2, <3>3 DEF Course
        <2> QED BY <1>3, <2>2, <2>3 DEF Archive
    <1>4. ASSUME Seal PROVE Course'
        <2>1. cmd.step = "seal" /\ UNCHANGED <<files, volume>>
            BY <1>4 DEF Seal, At
        <2>2. Moved("upAgain")
            BY <1>4, GoesOn DEF Seal, Steps, BackupSteps
        <2> QED BY <2>1, <2>2 DEF Course, Moved
    <1>5. ASSUME UpAgain PROVE Course'
        <2>1. cmd.step = "upAgain" /\ Fit(files, volume) /\ UNCHANGED files
            BY <1>5 DEF UpAgain, At, Course
        <2>2. ~UpFails("done")
            BY <1>0, <2>1, BackIsSafe, FitStarts DEF Steps
        <2>3. Started /\ cmd' = [cmd EXCEPT !.step = AfterBackup, !.old = files]
            BY <1>5, <2>2 DEF UpAgain
        <2>4. Healthy'
            BY <1>0, <2>1, <2>3, FitStarts
        <2>5. /\ cmd'.step = AfterBackup /\ cmd'.old = files /\ cmd'.own = cmd.own
              /\ cmd'.kind = cmd.kind /\ cmd'.from = cmd.from
            BY <1>0, <2>3 DEF Command
        <2>6. cmd.own.files = files /\ Fit(cmd.own.files, cmd.own.data)
            BY <2>1 DEF Course
        <2>7. AfterBackup \in {"env", "upload", "done"}
                \/ (AfterBackup = "down" /\ cmd.kind = "restore")
            BY DEF AfterBackup
        <2>8. cmd.kind = "restore" => Fit(cmd.from.files, cmd.from.data)
            BY DEF Course
        <2>9. CASE AfterBackup \in {"env", "upload", "done"}
            BY <2>1, <2>4, <2>5, <2>6, <2>8, <2>9 DEF Course
        <2>10. CASE AfterBackup = "down" /\ cmd.kind = "restore"
            BY <2>4, <2>5, <2>8, <2>10 DEF Course
        <2> QED BY <2>7, <2>9, <2>10
    <1> QED BY <1>1, <1>2, <1>3, <1>4, <1>5

\* The change, forward.  Up to the migration the old files fit the data; a fault in it
\* is the first, and the way back that follows has none.
LEMMA ChangeCourse ==
    ASSUME Safe, Course, Sound'
    PROVE  /\ Preflight => Course'
           /\ WriteEnv => Course'
           /\ WriteManifest => Course'
           /\ WriteBundle => Course'
           /\ Stop => Course'
           /\ Migrate => Course'
           /\ UpNew => Course'
    <1>0. Types /\ files \in Files /\ volume \in Volume
        BY DEF Safe, Types, LocalTypes
    <1>a. \A step \in Steps: FaultTo(step) => cmd.step \in cmd'.faults
        BY Faults DEF Safe, Types, LocalTypes
    <1>b. cmd.step \in ChangeSteps => cmd.kind = "change" /\ cmd.target \in Manifest
        BY KindOfStep DEF Safe, Shape
    <1> USE DEF AfterOwn, ChangeSteps, RestoreSteps, BackSteps, HealthySteps, ConfSteps, UploadSteps
    <1>1. ASSUME Preflight PROVE Course'
        <2>1. cmd.step = "preflight" /\ Healthy /\ UNCHANGED machine
            BY <1>1 DEF Preflight, At, Course
        <2>2. PICK step \in {"copy", "done"}: Go(step) \/ GoFailed(step) \/ FaultTo(step)
            BY <1>1 DEF Preflight
        <2>3. Moved(step)
            BY <2>2, GoesOn DEF Steps, BackupSteps
        <2>4. Healthy'
            BY <2>1 DEF machine, Healthy
        <2> QED BY <2>2, <2>3, <2>4, StaysHealthy DEF Steps, BackupSteps
    <1>2. ASSUME WriteEnv PROVE Course'
        <2>1. cmd.step = "env" /\ Healthy /\ cmd.old = files
              /\ cmd.old = cmd.own.files /\ Fit(cmd.own.files, cmd.own.data)
            BY <1>2 DEF WriteEnv, At, Course
        <2>2. ~FaultTo("done")
            BY <2>1, BackIsSafe DEF Steps
        <2>3. /\ files' = [files EXCEPT !["env"] = cmd.target.release] /\ Go("manifest")
              /\ UNCHANGED <<volume, control, core>>
            BY <1>2, <2>2 DEF WriteEnv, WriteFile
        <2>4. Moved("manifest")
            BY <2>3, GoesOn DEF Steps
        <2>5. files'.env = cmd.target.release
            BY <1>0, <2>3 DEF Files
        <2> QED BY <1>b, <2>1, <2>3, <2>4, <2>5 DEF Course, Moved, Healthy
    <1>3. ASSUME WriteManifest PROVE Course'
        <2>1. cmd.step = "manifest" /\ UNCHANGED <<volume, control, core>>
            BY <1>3 DEF WriteManifest, WriteFile, At
        <2>2. CASE FaultTo("undo")
            <3>1. Moved("undo") /\ cmd.step \in cmd'.faults
                BY <1>a, <2>2, GoesOn DEF Steps
            <3> QED BY <1>b, <2>1, <3>1 DEF Course, Moved
        <2>3. CASE files' = [files EXCEPT !["manifest"] = cmd.target] /\ Go("bundle")
            <3>1. Moved("bundle")
                BY <2>3, GoesOn DEF Steps
            <3>2. files'.env = files.env /\ files'.manifest = cmd.target
                BY <1>0, <2>3 DEF Files
            <3> QED BY <1>b, <2>1, <3>1, <3>2 DEF Course, Moved
        <2> QED BY <1>3, <2>2, <2>3 DEF WriteManifest, WriteFile
    <1>4. ASSUME WriteBundle PROVE Course'
        <2>1. cmd.step = "bundle" /\ UNCHANGED <<volume, control, core>>
            BY <1>4 DEF WriteBundle, WriteFile, At
        <2>2. CASE FaultTo("undo")
            <3>1. Moved("undo") /\ cmd.step \in cmd'.faults
                BY <1>a, <2>2, GoesOn DEF Steps
            <3> QED BY <1>b, <2>1, <3>1 DEF Course, Moved
        <2>3. CASE files' = [files EXCEPT !["bundle"] = "new"] /\ Go("stop")
            <3>1. Moved("stop")
                BY <2>3, GoesOn DEF Steps
            <3>2. files'.env = files.env /\ files'.manifest = files.manifest /\ files'.bundle = "new"
                BY <1>0, <2>3 DEF Files
            <3> QED BY <1>b, <2>1, <3>1, <3>2 DEF Course, Moved
        <2> QED BY <1>4, <2>2, <2>3 DEF WriteBundle, WriteFile
    <1>5. ASSUME Stop PROVE Course'
        <2>1. cmd.step = "stop" /\ UNCHANGED <<files, volume>>
            BY <1>5 DEF Stop, At
        <2>2. PICK step \in {"migrate", "revert"}: Moved(step) /\ (step = "revert" => FaultTo(step))
            BY <1>5, GoesOn DEF Stop, Steps
        <2>3. step = "revert" => "stop" \in cmd'.faults
            BY <1>a, <2>1, <2>2 DEF Steps
        <2> QED BY <1>b, <2>1, <2>2, <2>3 DEF Course, Moved
    <1>6. ASSUME Migrate PROVE Course'
        <2>1. cmd.step = "migrate" /\ UNCHANGED files /\ Fit(cmd.old, volume)
              /\ files.env = cmd.target.release /\ files.manifest = cmd.target /\ files.bundle = "new"
            BY <1>6 DEF Migrate, At, Course
        <2>2. volume.schema = SchemaOf[cmd.old.manifest.release] /\ volume.whole
            BY <2>1 DEF Fit
        <2>3. CASE FaultTo("revert")
            <3>1. Moved("revert") /\ cmd.step \in cmd'.faults
                BY <1>a, <2>3, GoesOn DEF Steps
            <3> QED BY <1>b, <2>1, <3>1 DEF Course, Moved
        <2>4. CASE volume' = [volume EXCEPT !.schema = SchemaOf[cmd.target.release]] /\ Go("up")
            <3>1. Moved("up")
                BY <2>4, GoesOn DEF Steps
            <3>2. volume'.schema = SchemaOf[cmd.target.release] /\ volume'.whole
                BY <1>0, <2>2, <2>4 DEF Volume
            <3>3. cmd.target \in Manifest /\ cmd.target.release \in Releases
                BY <1>b, <2>1 DEF Manifest
            <3>4. Fit(files, volume')
                BY <2>1, <3>2, <3>3, TornIsNoFile DEF Fit
            <3> QED BY <1>b, <2>1, <3>1, <3>4 DEF Course, Moved
        <2> QED BY <1>6, <2>2, <2>3, <2>4 DEF Migrate
    <1>7. ASSUME UpNew PROVE Course'
        <2>1. cmd.step = "up" /\ UNCHANGED files /\ Fit(files, volume)
            BY <1>7 DEF UpNew, At, Course
        <2>2. CASE Started /\ Go("done")
            <3>1. Healthy' /\ Moved("done")
                BY <1>0, <2>1, <2>2, FitStarts, GoesOn DEF Steps
            <3> QED BY <3>1, StaysHealthy DEF Steps
        <2>3. CASE UpFails("revert")
            <3>1. FaultTo("revert")
                BY <1>0, <2>1, <2>3, FitStarts
            <3>2. Moved("revert") /\ cmd.step \in cmd'.faults
                BY <1>a, <3>1, GoesOn DEF Steps
            <3> QED BY <1>b, <2>1, <3>2 DEF Course, Moved
        <2> QED BY <1>7, <2>2, <2>3 DEF UpNew
    <1> QED BY <1>1, <1>2, <1>3, <1>4, <1>5, <1>6, <1>7

\* The way back, and a restore: no step of it fails, and the files come with their data.
LEMMA BackCourse ==
    ASSUME Safe, Course, Sound'
    PROVE  /\ Undo => Course'
           /\ Revert => Course'
           /\ Down => Course'
           /\ Unpack => Course'
           /\ CopyBack => Course'
           /\ UpLast => Course'
    <1>0. cmd \in Command /\ Types
        BY DEF Safe, Types, LocalTypes
    <1>a. ASSUME cmd.step \in BackSteps, NEW step \in Steps PROVE ~FaultTo(step)
        BY <1>a, BackIsSafe
    <1> USE DEF AfterOwn, ChangeSteps, RestoreSteps, BackSteps, HealthySteps, ConfSteps, UploadSteps
    <1>1. ASSUME Undo PROVE Course'
        <2>1. /\ cmd.step = "undo" /\ Fit(cmd.old, volume) /\ control = cmd.old.env /\ core
              /\ UNCHANGED <<volume, control, core>>
            BY <1>1 DEF Undo, At, Course
        <2>2. files' = cmd.old /\ Go("done")
            BY <1>1, <1>a, <2>1 DEF Undo, Steps
        <2>3. Moved("done")
            BY <2>2, GoesOn DEF Steps
        <2>4. Healthy'
            BY <2>1, <2>2 DEF Healthy
        <2> QED BY <2>3, <2>4, StaysHealthy DEF Steps
    <1>2. ASSUME Revert PROVE Course'
        <2>1. /\ cmd.step = "revert" /\ cmd.kind = "change"
              /\ Fit(cmd.own.files, cmd.own.data)
              /\ \E s \in cmd.faults: s \notin BackSteps
            BY <1>2, KindOfStep DEF Revert, At, Course
        <2>2. cmd' = [cmd EXCEPT !.step = "down", !.from = cmd.own]
            BY <1>2, <1>a, <2>1 DEF Revert, Steps
        <2>3. /\ cmd'.step = "down" /\ cmd'.from = cmd.own /\ cmd'.kind = cmd.kind
              /\ cmd'.faults = cmd.faults
            BY <1>0, <2>2 DEF Command
        <2> QED BY <2>1, <2>3 DEF Course
    <1>3. ASSUME Down PROVE Course'
        <2>1. cmd.step = "down"
            BY <1>3 DEF Down, At
        <2>2. Go("unpack")
            BY <1>3, <1>a, <2>1 DEF Down, Steps
        <2>3. Moved("unpack")
            BY <2>2, GoesOn DEF Steps
        <2> QED BY <2>1, <2>3 DEF Course, Moved
    <1>4. ASSUME Unpack PROVE Course'
        <2>1. cmd.step = "unpack"
            BY <1>4 DEF Unpack, At
        <2>2. volume' = cmd.from.data /\ Go("config")
            BY <1>4, <1>a, <2>1 DEF Unpack, Steps
        <2>3. Moved("config")
            BY <2>2, GoesOn DEF Steps
        <2> QED BY <2>1, <2>2, <2>3 DEF Course, Moved
    <1>5. ASSUME CopyBack PROVE Course'
        <2>1. cmd.step = "config"
            BY <1>5 DEF CopyBack, At
        <2>2. files' = cmd.from.files /\ Go("upLast") /\ UNCHANGED volume
            BY <1>5, <1>a, <2>1 DEF CopyBack, Steps
        <2>3. Moved("upLast")
            BY <2>2, GoesOn DEF Steps
        <2> QED BY <2>1, <2>2, <2>3 DEF Course, Moved
    <1>6. ASSUME UpLast PROVE Course'
        <2>1. cmd.step = "upLast" /\ Fit(files, volume) /\ UNCHANGED files
            BY <1>6 DEF UpLast, At, Course
        <2>2. ~UpFails("done")
            BY <1>0, <1>a, <2>1, FitStarts DEF Steps
        <2>3. Started /\ Go("done")
            BY <1>6, <2>2 DEF UpLast
        <2>4. Healthy' /\ Moved("done")
            BY <1>0, <2>1, <2>3, FitStarts, GoesOn DEF Steps
        <2> QED BY <2>4, StaysHealthy DEF Steps
    <1> QED BY <1>1, <1>2, <1>3, <1>4, <1>5, <1>6

\* The commands about off-site backups leave the deployment alone.
RemoteMoves ==
    \/ WriteConf \/ WriteRecovery \/ InitRepo \/ OpenRepo \/ Unconfigure
    \/ Upload \/ Forget \/ SaveStatus \/ Prune \/ Check \/ RestoreTest \/ Download

LEMMA RemoteCourse ==
    ASSUME Safe, Course, RemoteMoves
    PROVE  Course'
    <1> DEFINE To == HealthySteps \ {"env", "stopAll"}
    <1>1. cmd.step \in HealthySteps /\ UNCHANGED <<files, volume, control, core>>
        BY DEF RemoteMoves, WriteConf, WriteRecovery, InitRepo, OpenRepo, Unconfigure, Upload, Forget,
               SaveStatus, Prune, Check, RestoreTest, Download, machine, At, HealthySteps, ConfSteps,
               UploadSteps
    <1>2. Healthy'
        BY <1>1 DEF Course, Healthy
    <1>3. \E step \in To: Go(step) \/ GoFailed(step) \/ FaultTo(step)
        BY DEF RemoteMoves, WriteConf, WriteRecovery, InitRepo, OpenRepo, Unconfigure, Upload, Forget,
               SaveStatus, WriteStatus, Prune, Check, RestoreTest, Download, HealthySteps, ConfSteps,
               UploadSteps
    <1>4. To \subseteq Steps
        BY DEF HealthySteps, ConfSteps, UploadSteps, Steps, RemoteSteps, ChangeSteps, BackupSteps
    <1>5. PICK step \in To: Moved(step)
        BY <1>3, <1>4, GoesOn
    <1> QED BY <1>2, <1>4, <1>5, StaysHealthy

-------------------------------------------------------------------------------
(***************************************************************************)
(* The invariant                                                           *)
(***************************************************************************)

\* The steps of a command, each of which its course depends on.
LocalMoves ==
    \/ Copy \/ StopAll \/ Archive \/ Seal \/ UpAgain
    \/ Preflight \/ WriteEnv \/ WriteManifest \/ WriteBundle \/ Undo
    \/ Stop \/ Migrate \/ UpNew \/ Revert
    \/ Down \/ Unpack \/ CopyBack \/ UpLast

LEMMA CourseSteps ==
    ASSUME Safe, LocalMoves \/ RemoteMoves, Sound'
    PROVE  Sound
    <1>0. cmd \in Command
        BY DEF Safe, Types, LocalTypes
    <1> DEFINE Same == cmd'.fit = cmd.fit /\ cmd'.kind = cmd.kind /\ cmd.faults \subseteq cmd'.faults
    <1>1. ASSUME NEW step \in Steps, Go(step) \/ GoFailed(step) \/ FaultTo(step)
          PROVE  Same
        BY <1>1, GoesOn DEF Moved
    <1>2. ASSUME NEW step, NEW own, NEW old, NEW from,
                 \/ cmd' = [cmd EXCEPT !.step = step, !.own = own]
                 \/ cmd' = [cmd EXCEPT !.step = step, !.old = old]
                 \/ cmd' = [cmd EXCEPT !.step = step, !.from = from]
                 \/ cmd' = [cmd EXCEPT !.step = step, !.own.data = own]
          PROVE  Same
        BY <1>0, <1>2 DEF Command
    <1> HIDE DEF Same
    <1> USE DEF Steps, BackupSteps, ChangeSteps, RestoreSteps, RemoteSteps
    <1>3. ASSUME Copy PROVE Same
        BY <1>0, <1>1, <1>2, <1>3 DEF Copy
    <1>4. ASSUME StopAll \/ Seal PROVE Same
        BY <1>1, <1>4 DEF StopAll, Seal
    <1>5. ASSUME Archive PROVE Same
        BY <1>0, <1>1, <1>2, <1>5 DEF Archive
    <1>6. ASSUME UpAgain PROVE Same
        BY <1>0, <1>1, <1>2, <1>6 DEF UpAgain, UpFails
    <1>7. ASSUME Preflight \/ WriteEnv \/ WriteManifest \/ WriteBundle \/ Undo PROVE Same
        BY <1>1, <1>7 DEF Preflight, WriteEnv, WriteManifest, WriteBundle, WriteFile, Undo
    <1>8. ASSUME Stop \/ Migrate \/ UpNew PROVE Same
        BY <1>1, <1>8 DEF Stop, Migrate, UpNew, UpFails
    <1>9. ASSUME Revert PROVE Same
        BY <1>0, <1>1, <1>2, <1>9 DEF Revert
    <1>10. ASSUME Down \/ Unpack \/ CopyBack \/ UpLast PROVE Same
        BY <1>1, <1>10 DEF Down, Unpack, CopyBack, UpLast, UpFails
    <1>11. ASSUME RemoteMoves PROVE Same
        BY <1>1, <1>11 DEF RemoteMoves, WriteConf, WriteRecovery, InitRepo, OpenRepo, Unconfigure,
               Upload, Forget, SaveStatus, WriteStatus, Prune, Check, RestoreTest, Download
    <1>12. Same
        BY <1>3, <1>4, <1>5, <1>6, <1>7, <1>8, <1>9, <1>10, <1>11 DEF LocalMoves
    <1> QED BY <1>12, SoundBefore DEF Same

\* A command starts its course where the deployment is healthy, and if it restores,
\* with a backup that fits.
LEMMA CourseBegins ==
    ASSUME Safe, Begins
    PROVE  Heals'
    <1> DEFINE First == {"copy", "preflight", "conf", "check", "download"}
    <1>1. ASSUME NEW kind \in Kinds, NEW step \in First,
                 NEW target \in Manifest \cup {NoValue}, NEW from \in BackupDir \cup {NoValue},
                 kind = "restore" => from \in BackupDir,
                 Begin(kind, step, target, from)
          PROVE  Heals'
        <2>1. /\ cmd'.kind = kind /\ cmd'.step = step /\ cmd'.from = from
              /\ UNCHANGED machine
            BY <1>1, BeginFields DEF Safe, Steps, BackupSteps, ChangeSteps, RemoteSteps
        <2> DEFINE fit == Healthy /\ (from # NoValue => Fit(from.files, from.data))
        <2>2. cmd' = [NoCommand EXCEPT !.kind = kind, !.step = step, !.target = target,
                                       !.from = from, !.fit = fit]
            BY <1>1 DEF Begin
        <2>3. cmd'.fit = fit
            <3> HIDE DEF fit
            <3> QED BY <2>2 DEF NoCommand
        <2>4. SUFFICES ASSUME Sound'
                       PROVE  Course'
            BY DEF Heals
        <2>5. Healthy /\ (kind = "restore" => Fit(from.files, from.data))
            BY <1>1, <2>3, <2>4, NoValueIsNone DEF Sound
        <2>6. Healthy'
            BY <2>1, <2>5 DEF machine, Healthy
        <2>7. step \notin {"stopAll", "env", "archive", "seal", "upAgain", "config"}
                            \cup AfterOwn \cup RestoreSteps \cup BackSteps
            BY DEF AfterOwn, ChangeSteps, RestoreSteps, BackSteps
        <2> QED BY <2>1, <2>5, <2>6, <2>7 DEF Course, AfterOwn, ChangeSteps, RestoreSteps
    <1>2. CASE BeginBackup \/ BeginRollback \/ \E r \in Releases: BeginUpgrade(r)
        BY <1>1, <1>2, BeginInputs DEF Kinds
    <1>3. ASSUME NEW i \in DOMAIN backups, BeginRestore(i)
          PROVE  \E from \in BackupDir: Begin("restore", "copy", NoValue, from)
        BY <1>3, BeginInputs
    <1>4. CASE BeginRemote \/ BeginCheck \/ \E input \in Conf: BeginConfigure(input)
        BY <1>1, <1>4 DEF Kinds, BeginRemote, BeginCheck, BeginConfigure
    <1>5. ASSUME NEW r \in Repos, repos[r] # NoValue, NEW b \in repos[r].snaps, BeginRemoteRestore(b)
          PROVE  \E from \in BackupDir: Begin("restore", "download", NoValue, from)
        <2>1. repos[r] \in Repo
            BY <1>5 DEF Safe, Types, RemoteTypes
        <2> QED BY <1>5, <2>1 DEF Repo, BeginRemoteRestore
    <1> QED BY <1>1, <1>2, <1>3, <1>4, <1>5 DEF Begins, Kinds

\* Clients write what does not matter to it.
LEMMA CourseWrite ==
    ASSUME Safe, Heals, Write
    PROVE  Heals'
    <1>0. cmd \in Command /\ volume \in Volume
        BY DEF Safe, Types, LocalTypes
    <1>1. UNCHANGED <<files, control, core>>
        BY DEF Write
    <1>2. volume'.whole = volume.whole /\ volume'.schema = volume.schema
        BY <1>0 DEF Write, Volume
    <1>3. /\ cmd'.kind = cmd.kind /\ cmd'.step = cmd.step /\ cmd'.target = cmd.target
          /\ cmd'.old = cmd.old /\ cmd'.own = cmd.own /\ cmd'.from = cmd.from
          /\ cmd'.faults = cmd.faults /\ cmd'.fit = cmd.fit
        BY <1>0 DEF Write, Command
    <1>4. SUFFICES ASSUME cmd'.kind # "none", Sound'
                   PROVE  Course'
        BY DEF Heals
    <1>5. Course
        BY <1>3, <1>4 DEF Heals, Sound, OneFault, Unhealed
    <1>6. \A f: Fit(f, volume) => Fit(f, volume')
        BY <1>2, FitSame
    <1>7. Healthy => Healthy'
        BY <1>1, <1>6 DEF Healthy
    <1> QED BY <1>1, <1>3, <1>5, <1>6, <1>7 DEF Course

LEMMA HealsNext ==
    ASSUME Safe, Heals, [RemoteNext]_remoteVars
    PROVE  Heals'
    <1>0. cmd \in Command
        BY DEF Safe, Types, LocalTypes
    <1>1. CASE LocalMoves \/ RemoteMoves
        <2> SUFFICES ASSUME Sound' PROVE Course'
            BY DEF Heals
        <2>1. cmd.kind # "none"
            BY <1>1 DEF LocalMoves, RemoteMoves, At, Copy, StopAll, Archive, Seal, UpAgain, Preflight,
                   WriteEnv, WriteManifest, WriteBundle, Undo, Stop, Migrate, UpNew, Revert, Down,
                   Unpack, CopyBack, UpLast, WriteConf, WriteRecovery, InitRepo, OpenRepo,
                   Unconfigure, Upload, Forget, SaveStatus, Prune, Check, RestoreTest, Download
        <2>2. Course
            BY <1>1, <2>1, CourseSteps DEF Heals
        <2> QED BY <1>1, <2>2, BackupCourse, ChangeCourse, BackCourse, RemoteCourse DEF LocalMoves
    <1>2. CASE Begins
        BY <1>2, CourseBegins
    <1>3. CASE Write
        BY <1>3, CourseWrite
    <1>4. CASE Up \/ Release
        BY <1>4 DEF Up, Release, NoCommand, Heals
    <1>5. CASE UNCHANGED remoteVars
        BY <1>5 DEF remoteVars, vars, machine, Heals, Sound, OneFault, Course, Healthy
    <1> QED BY <1>1, <1>2, <1>3, <1>4, <1>5 DEF RemoteNext, Next, Begins, LocalMoves, RemoteMoves

LEMMA ThreeFinite == \A a, b, c: IsFiniteSet({a, b, c})
    <1> SUFFICES ASSUME NEW a, NEW b, NEW c
                 PROVE  IsFiniteSet({a, b, c})
        OBVIOUS
    <1>1. IsFiniteSet({a} \cup {b})
        BY FS_Singleton, FS_Union
    <1>2. IsFiniteSet(({a} \cup {b}) \cup {c})
        BY <1>1, FS_Singleton, FS_Union
    <1>3. {a, b, c} = ({a} \cup {b}) \cup {c}
        OBVIOUS
    <1> QED BY <1>2, <1>3

\* There are finitely many steps that can fail.
LEMMA StepsFinite == IsFiniteSet(Steps)
    <1>1. \A S, T: IsFiniteSet(S) /\ IsFiniteSet(T) => IsFiniteSet(S \cup T)
        BY FS_Union
    <1>2. IsFiniteSet(BackupSteps)
        <2>1. BackupSteps = {"copy", "stopAll", "archive"} \cup {"seal", "upAgain", "upAgain"}
            BY DEF BackupSteps
        <2> QED BY <1>1, <2>1, ThreeFinite
    <1>3. IsFiniteSet(ChangeSteps)
        <2>1. ChangeSteps = ({"preflight", "env", "manifest"} \cup {"bundle", "undo", "stop"})
                                \cup {"migrate", "up", "revert"}
            BY DEF ChangeSteps
        <2>2. IsFiniteSet({"preflight", "env", "manifest"} \cup {"bundle", "undo", "stop"})
            BY <1>1, ThreeFinite
        <2> QED BY <1>1, <2>1, <2>2, ThreeFinite
    <1>4. IsFiniteSet(RestoreSteps)
        <2>1. RestoreSteps = {"down", "unpack", "config"} \cup {"upLast", "upLast", "upLast"}
            BY DEF RestoreSteps
        <2> QED BY <1>1, <2>1, ThreeFinite
    <1>5. IsFiniteSet(RemoteSteps)
        <2>1. RemoteSteps = ({"conf", "recovery", "init"} \cup {"open", "unconf", "upload"})
                                \cup ({"forget", "status", "prune"} \cup {"check", "test", "download"})
            BY DEF RemoteSteps
        <2>2. IsFiniteSet({"conf", "recovery", "init"} \cup {"open", "unconf", "upload"})
            BY <1>1, ThreeFinite
        <2>3. IsFiniteSet({"forget", "status", "prune"} \cup {"check", "test", "download"})
            BY <1>1, ThreeFinite
        <2> QED BY <1>1, <2>1, <2>2, <2>3
    <1>6. IsFiniteSet(BackupSteps \cup ChangeSteps)
        BY <1>1, <1>2, <1>3
    <1>7. IsFiniteSet((BackupSteps \cup ChangeSteps) \cup RestoreSteps)
        BY <1>1, <1>4, <1>6
    <1>8. IsFiniteSet(((BackupSteps \cup ChangeSteps) \cup RestoreSteps) \cup RemoteSteps)
        BY <1>1, <1>5, <1>7
    <1>9. IsFiniteSet({"done"})
        BY FS_Singleton
    <1> QED BY <1>1, <1>8, <1>9 DEF Steps

\* The course that a sound command keeps, from any state on.
LEMMA HealsInvariance == RemoteSpec => []Heals
    <1>1. RemoteInit => Heals
        BY DEF RemoteInit, Init, NoCommand, Heals
    <1>2. IInv /\ Heals /\ [RemoteNext]_remoteVars => Heals'
        BY HealsNext DEF IInv
    <1> QED BY <1>1, <1>2, Invariance, PTL DEF RemoteSpec

\* A change of release ends with the new release or with the old one and its data, a
\* backup or a restore with what it found or what it restored: Upgrade and Rollback,
\* Backup and Restore, and the commands about off-site backups, when they found all
\* well and at most one step failed that is none of Unhealed.
THEOREM CommandsHeal == RemoteSpec => []OneFaultHeals
    <1>1. ASSUME IInv, Heals
          PROVE  OneFaultHeals
        <2> SUFFICES ASSUME At("done"), cmd.fit, Cardinality(cmd.faults) <= 1,
                            cmd.faults \cap Unhealed(cmd.kind) = {}
                     PROVE  Healthy
            BY DEF OneFaultHeals
        <2>1. IsFiniteSet(cmd.faults)
            <3>1. cmd.faults \subseteq Steps
                BY <1>1 DEF IInv, Safe, Types, LocalTypes, Command
            <3>2. IsFiniteSet(Steps)
                BY StepsFinite
            <3> QED BY <3>1, <3>2, FS_Subset
        <2>2. OneFault
            <3>1. Cardinality(cmd.faults) \in Nat
                BY <2>1, FS_CardinalityType
            <3>2. Cardinality(cmd.faults) \in {0, 1}
                BY <3>1
            <3>3. cmd.faults = {} \/ \E s: cmd.faults = {s}
                BY <2>1, <3>2, FS_EmptySet, FS_Singleton
            <3> QED BY <3>3 DEF OneFault
        <2>3. Course
            BY <1>1, <2>2 DEF Heals, Sound, At
        <2> QED BY <2>3 DEF Course, At, HealthySteps
    <1> QED BY <1>1, Invariance, HealsInvariance, PTL

-------------------------------------------------------------------------------
(***************************************************************************)
(* A command that succeeds                                                 *)
(***************************************************************************)

\* What runs is the release of .env, on its schema.
Running == control = files.env /\ core /\ volume.schema = SchemaOf[files.env]

\* What a change has done of its way, and a restore, as long as nothing failed.
Achieved ==
    /\ cmd.kind = "change" =>
        /\ cmd.step \notin BackSteps
        /\ cmd.step \in {"manifest", "bundle", "stop", "migrate", "up", "done"} =>
                files.env = cmd.target.release
        /\ cmd.step \in {"bundle", "stop", "migrate", "up", "done"} =>
                files.manifest = cmd.target
        /\ cmd.step \in {"stop", "migrate", "up", "done"} => files.bundle = "new"
        /\ cmd.step = "done" => Running
    /\ cmd.kind = "restore" =>
        /\ cmd.step \in {"config", "upLast", "done"} => volume.whole = cmd.from.data.whole
        /\ cmd.step \in {"upLast", "done"} => files = cmd.from.files
        /\ cmd.step = "done" => Running

Progress == ~cmd.failed => Achieved

\* A command that has not failed went on with each of its steps.
LEMMA NoFailure ==
    ASSUME Safe, NEW step \in Steps, ~cmd'.failed
    PROVE  /\ ~GoFailed(step) /\ ~FaultTo(step)
           /\ Go(step) => ~cmd.failed /\ Moved(step)
    <1>1. cmd \in Command
        BY DEF Safe, Types, LocalTypes
    <1>2. ~GoFailed(step)
        BY <1>1 DEF GoFailed, Command
    <1>3. ~FaultTo(step)
        <2> SUFFICES ASSUME FaultTo(step) PROVE FALSE
            OBVIOUS
        <2> DEFINE faults == cmd.faults \cup {cmd.step}
        <2>1. cmd' = [cmd EXCEPT !.step = step, !.failed = TRUE, !.faults = faults]
            BY DEF FaultTo
        <2> HIDE DEF faults
        <2> QED BY <1>1, <2>1 DEF Command
    <1>4. Go(step) => ~cmd.failed /\ Moved(step)
        BY <1>1, Moves DEF Moved
    <1> QED BY <1>2, <1>3, <1>4

\* An up that succeeds runs what .env says.
LEMMA StartedRuns ==
    ASSUME Types, Started, UNCHANGED files
    PROVE  Running' /\ volume'.whole = volume.whole
    <1>1. files.env \in Releases
        BY DEF Started, CanStart, Types, LocalTypes, Files
    <1> QED BY <1>1 DEF Started, Running, Types, LocalTypes, Volume

\* Nothing is achieved yet on the way to the first change of the deployment.
LEMMA NotYet ==
    ASSUME cmd'.step \in {"download", "preflight", "copy", "stopAll", "archive", "seal", "upAgain", "env"}
                \/ cmd'.kind \notin {"change", "restore"}
                \/ (cmd'.kind = "restore" /\ cmd'.step \in {"down", "unpack"})
    PROVE  Achieved'
    BY DEF Achieved, BackSteps, RestoreSteps

LEMMA BackupAchieves ==
    ASSUME Safe, ~cmd'.failed, Copy \/ StopAll \/ Archive \/ Seal \/ UpAgain \/ Preflight
    PROVE  Achieved'
    <1>0. cmd \in Command
        BY DEF Safe, Types, LocalTypes
    <1> USE DEF Steps, BackupSteps, ChangeSteps
    <1>1. CASE Copy
        <2> DEFINE own == [files |-> files, data |-> volume]
        <2>1. cmd' = [cmd EXCEPT !.step = "stopAll", !.own = own]
            BY <1>1, NoFailure DEF Copy
        <2> HIDE DEF own
        <2>2. cmd'.step = "stopAll"
            BY <1>0, <2>1 DEF Command
        <2> QED BY <2>2, NotYet
    <1>2. CASE StopAll
        <2>1. Moved("archive")
            BY <1>2, NoFailure DEF StopAll
        <2> QED BY <2>1, NotYet DEF Moved
    <1>3. CASE Archive
        <2>1. cmd' = [cmd EXCEPT !.step = "seal", !.own.data = volume]
            BY <1>3, NoFailure DEF Archive
        <2>2. cmd'.step = "seal"
            BY <1>0, <2>1 DEF Command
        <2> QED BY <2>2, NotYet
    <1>4. CASE Seal
        <2>1. Moved("upAgain")
            BY <1>4, NoFailure DEF Seal
        <2> QED BY <2>1, NotYet DEF Moved
    <1>5. CASE UpAgain
        <2>1. cmd' = [cmd EXCEPT !.step = AfterBackup, !.old = files]
            BY <1>5, NoFailure DEF UpAgain, UpFails
        <2>2. cmd'.step = AfterBackup /\ cmd'.kind = cmd.kind /\ ~cmd.failed
            BY <1>0, <2>1 DEF Command
        <2> QED BY <2>2, NotYet DEF AfterBackup
    <1>6. CASE Preflight
        <2>1. Moved("copy")
            BY <1>6, NoFailure DEF Preflight
        <2> QED BY <2>1, NotYet DEF Moved
    <1> QED BY <1>1, <1>2, <1>3, <1>4, <1>5, <1>6

\* The change writes its files, one after the other, and its up runs them.
LEMMA ChangeAchieves ==
    ASSUME Safe, Progress, ~cmd'.failed,
           \/ WriteEnv \/ WriteManifest \/ WriteBundle \/ Stop \/ Migrate \/ UpNew
           \/ Undo \/ Revert
    PROVE  Achieved'
    <1>0. cmd \in Command /\ files \in Files /\ Types
        BY DEF Safe, Types, LocalTypes
    <1> USE DEF Steps, ChangeSteps, RestoreSteps, BackSteps
    <1>1. cmd.kind = "change"
        BY KindOfStep DEF WriteEnv, WriteManifest, WriteBundle, Stop, Migrate, UpNew, Undo, Revert, At
    <1>2. CASE WriteEnv
        <2>1. Moved("manifest") /\ files' = [files EXCEPT !["env"] = cmd.target.release]
            BY <1>2, NoFailure DEF WriteEnv, WriteFile
        <2>2. files'.env = cmd.target.release
            BY <1>0, <2>1 DEF Files
        <2> QED BY <1>1, <2>1, <2>2 DEF Achieved, Moved
    <1>3. CASE WriteManifest
        <2>1. /\ Moved("bundle") /\ ~cmd.failed /\ cmd.step = "manifest"
              /\ files' = [files EXCEPT !["manifest"] = cmd.target]
            BY <1>3, NoFailure DEF WriteManifest, WriteFile, At
        <2>2. files'.env = files.env /\ files'.manifest = cmd.target
            BY <1>0, <2>1 DEF Files
        <2> QED BY <1>1, <2>1, <2>2 DEF Achieved, Moved, Progress
    <1>4. CASE WriteBundle
        <2>1. /\ Moved("stop") /\ ~cmd.failed /\ cmd.step = "bundle"
              /\ files' = [files EXCEPT !["bundle"] = "new"]
            BY <1>4, NoFailure DEF WriteBundle, WriteFile, At
        <2>2. files'.env = files.env /\ files'.manifest = files.manifest /\ files'.bundle = "new"
            BY <1>0, <2>1 DEF Files
        <2> QED BY <1>1, <2>1, <2>2 DEF Achieved, Moved, Progress
    <1>5. CASE Stop
        <2>1. Moved("migrate") /\ ~cmd.failed /\ cmd.step = "stop" /\ UNCHANGED files
            BY <1>5, NoFailure DEF Stop, At
        <2> QED BY <1>1, <2>1 DEF Achieved, Moved, Progress
    <1>6. CASE Migrate
        <2>1. Moved("up") /\ ~cmd.failed /\ cmd.step = "migrate" /\ UNCHANGED files
            BY <1>6, NoFailure DEF Migrate, At
        <2> QED BY <1>1, <2>1 DEF Achieved, Moved, Progress
    <1>7. CASE UpNew
        <2>1. /\ Moved("done") /\ ~cmd.failed /\ cmd.step = "up" /\ UNCHANGED files
              /\ Started
            BY <1>7, NoFailure DEF UpNew, UpFails, At
        <2>2. Running'
            BY <1>0, <2>1, StartedRuns
        <2> QED BY <1>1, <2>1, <2>2 DEF Achieved, Moved, Progress
    <1>8. CASE Undo \/ Revert
        <2>1. ~cmd.failed
            <3>1. Undo => ~cmd.failed
                BY NoFailure DEF Undo
            <3>2. Revert /\ ~FaultTo("done") => ~cmd.failed
                BY <1>0 DEF Revert, Command
            <3> QED BY <1>8, <3>1, <3>2, NoFailure
        <2> QED BY <1>1, <1>8, <2>1 DEF Undo, Revert, At, Progress, Achieved
    <1> QED BY <1>2, <1>3, <1>4, <1>5, <1>6, <1>7, <1>8

\* The restore replaces the data and then the files, and its up runs them.
LEMMA RestoreAchieves ==
    ASSUME Safe, Progress, ~cmd'.failed, Down \/ Unpack \/ CopyBack \/ UpLast
    PROVE  Achieved'
    <1>0. Types
        BY DEF Safe
    <1> USE DEF Steps, RestoreSteps, BackSteps
    <1>1. \E step \in {"unpack", "config", "upLast", "done"}: Go(step)
        BY NoFailure DEF Down, Unpack, CopyBack, UpLast, UpFails
    <1>2. ~cmd.failed
        BY <1>1, NoFailure
    <1>3. cmd.kind = "restore"
        BY <1>2, KindOfStep DEF Down, Unpack, CopyBack, UpLast, At, Progress, Achieved
    <1>4. CASE Down
        <2>1. Moved("unpack")
            BY <1>4, NoFailure DEF Down
        <2> QED BY <1>3, <2>1, NotYet DEF Moved
    <1>5. CASE Unpack
        <2>1. Moved("config") /\ volume' = cmd.from.data
            BY <1>5, NoFailure DEF Unpack
        <2> QED BY <1>3, <2>1 DEF Achieved, Moved
    <1>6. CASE CopyBack
        <2>1. Moved("upLast") /\ cmd.step = "config" /\ files' = cmd.from.files /\ UNCHANGED volume
            BY <1>6, NoFailure DEF CopyBack, At
        <2> QED BY <1>2, <1>3, <2>1 DEF Achieved, Moved, Progress
    <1>7. CASE UpLast
        <2>1. Moved("done") /\ cmd.step = "upLast" /\ UNCHANGED files /\ Started
            BY <1>7, NoFailure DEF UpLast, UpFails, At
        <2>2. Running' /\ volume'.whole = volume.whole
            BY <1>0, <2>1, StartedRuns
        <2> QED BY <1>2, <1>3, <2>1, <2>2 DEF Achieved, Moved, Progress
    <1> QED BY <1>4, <1>5, <1>6, <1>7

\* The other commands achieve nothing of the kind, and a download leads to the copy.
LEMMA RemoteAchieves ==
    ASSUME Safe, ~cmd'.failed, RemoteMoves
    PROVE  Achieved'
    <1> USE DEF Steps, RemoteSteps, BackupSteps
    <1>1. CASE Download
        <2>1. Moved("copy")
            BY <1>1, NoFailure DEF Download
        <2> QED BY <2>1, NotYet DEF Moved
    <1>2. CASE RemoteMoves /\ ~Download
        <2>1. cmd.kind \in {"remote", "configure", "check"}
            BY <1>2, KindOfStep DEF RemoteMoves, WriteConf, WriteRecovery, InitRepo, OpenRepo,
                Unconfigure, Upload, Forget, SaveStatus, Prune, Check, RestoreTest, At, ConfSteps
        <2>2. PICK step \in Steps: Go(step) \/ GoFailed(step) \/ FaultTo(step)
            BY <1>2 DEF RemoteMoves, WriteConf, WriteRecovery, InitRepo, OpenRepo, Unconfigure,
                Upload, Forget, SaveStatus, WriteStatus, Prune, Check, RestoreTest
        <2>3. cmd'.kind = cmd.kind
            BY <2>2, GoesOn DEF Moved
        <2> QED BY <2>1, <2>3, NotYet
    <1> QED BY <1>1, <1>2

\* A command begins at the first step of its kind.
LEMMA BeginsFirst ==
    ASSUME Safe, Begins
    PROVE  /\ cmd'.step \in {"copy", "preflight", "conf", "check", "download"}
           /\ cmd'.step \in {"conf", "check"} => cmd'.kind \notin {"change", "restore"}
    <1>1. ASSUME NEW kind, NEW step, NEW target, NEW from, Begin(kind, step, target, from)
          PROVE  cmd'.kind = kind /\ cmd'.step = step
        <2> DEFINE fit == Healthy /\ (from # NoValue => Fit(from.files, from.data))
        <2>1. cmd' = [NoCommand EXCEPT !.kind = kind, !.step = step, !.target = target,
                                       !.from = from, !.fit = fit]
            BY <1>1 DEF Begin
        <2> HIDE DEF fit
        <2> QED BY <2>1 DEF NoCommand
    <1>2. CASE BeginBackup \/ BeginRollback \/ \E r \in Releases: BeginUpgrade(r)
        BY <1>1, <1>2, BeginInputs
    <1>3. CASE \E i \in DOMAIN backups: BeginRestore(i)
        BY <1>1, <1>3 DEF BeginRestore
    <1>4. CASE BeginRemote \/ BeginCheck
        BY <1>1, <1>4 DEF BeginRemote, BeginCheck
    <1>5. CASE \E input \in Conf: BeginConfigure(input)
        BY <1>1, <1>5 DEF BeginConfigure
    <1>6. CASE \E r \in Repos: repos[r] # NoValue /\ \E b \in repos[r].snaps: BeginRemoteRestore(b)
        BY <1>1, <1>6 DEF BeginRemoteRestore
    <1> QED BY <1>2, <1>3, <1>4, <1>5, <1>6 DEF Begins

LEMMA ProgressNext ==
    ASSUME Safe, Progress, [RemoteNext]_remoteVars
    PROVE  Progress'
    <1>0. cmd \in Command /\ volume \in Volume /\ Types
        BY DEF Safe, Types, LocalTypes
    <1>1. CASE LocalMoves \/ RemoteMoves
        BY <1>1, BackupAchieves, ChangeAchieves, RestoreAchieves, RemoteAchieves DEF LocalMoves, Progress
    <1>2. CASE Begins
        <2>1. cmd'.step \in {"copy", "preflight", "conf", "check", "download"}
              /\ (cmd'.step \in {"conf", "check"} => cmd'.kind \notin {"change", "restore"})
            BY <1>0, <1>2, BeginsFirst
        <2> QED BY <2>1, NotYet DEF Progress
    <1>3. CASE Write
        <2>1. UNCHANGED <<files, control, core>>
            BY <1>3 DEF Write
        <2>2. volume'.whole = volume.whole /\ volume'.schema = volume.schema
            BY <1>0, <1>3 DEF Write, Volume
        <2>3. /\ cmd'.kind = cmd.kind /\ cmd'.step = cmd.step /\ cmd'.target = cmd.target
              /\ cmd'.from = cmd.from /\ cmd'.failed = cmd.failed
            BY <1>0, <1>3 DEF Write, Command
        <2> QED BY <2>1, <2>2, <2>3 DEF Progress, Achieved, Running
    <1>4. CASE Up \/ Release
        <2>1. cmd'.kind = "none"
            BY <1>4 DEF Up, Release, NoCommand
        <2> QED BY <2>1, NotYet DEF Progress
    <1>5. CASE UNCHANGED remoteVars
        BY <1>5 DEF remoteVars, vars, machine, Progress, Achieved, Running
    <1> QED BY <1>1, <1>2, <1>3, <1>4, <1>5 DEF RemoteNext, Next, Begins, LocalMoves, RemoteMoves

\* A change or a restore that succeeds leaves files, schema and containers in
\* agreement, whatever mixture of them the commands before it left: upgrades and
\* rollbacks unless the data were cut, restores of any backup that fits.
THEOREM SuccessIsWhole == RemoteSpec => []SuccessMends
    <1>1. RemoteInit => Progress
        BY DEF RemoteInit, Init, NoCommand, Progress, Achieved
    <1>2. IInv /\ Progress /\ [RemoteNext]_remoteVars => Progress'
        BY ProgressNext DEF IInv
    <1>3. RemoteSpec => []Progress
        BY <1>1, <1>2, Invariance, PTL DEF RemoteSpec
    <1>4. ASSUME IInv, Progress
          PROVE  SuccessMends
        <2> SUFFICES ASSUME At("done"), ~cmd.failed
                     PROVE  /\ cmd.kind = "change" /\ volume.whole =>
                                    Healthy /\ files.manifest = cmd.target
                            /\ cmd.kind = "restore" /\ Fit(cmd.from.files, cmd.from.data) =>
                                    Healthy /\ files = cmd.from.files
            BY DEF SuccessMends
        <2>1. cmd.kind = "change" => cmd.target \in Manifest
            BY <1>4 DEF IInv, Safe, Shape
        <2>2. cmd.kind = "change" => cmd.target.release \in Releases
            BY <2>1 DEF Manifest
        <2>3. Achieved
            BY <1>4 DEF Progress
        <2> QED BY <2>1, <2>2, <2>3, TornIsNoFile DEF Achieved, At, Healthy, Fit, Running
    <1> QED BY <1>3, <1>4, Invariance, PTL

===============================================================================
