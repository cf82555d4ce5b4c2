------------------------- MODULE KilledCommandsProofs -------------------------
(***************************************************************************)
(* Theorems about KilledCommands, from the lemmas of DeploymentProofs: the *)
(* steps of the commands keep what they keep there, and what docker still  *)
(* does for killed ones takes no more than a release, a schema or writes.  *)
(*                                                                         *)
(* What a command finds left over only shrinks while it has the lock, so   *)
(* that a command that began beside nothing but stops runs beside nothing  *)
(* but stops; and those start nothing.                                     *)
(***************************************************************************)
EXTENDS KilledCommands, DeploymentProofs

LeftoverTypes ==
    /\ leftover \subseteq Call
    /\ \A call \in leftover: call.task = "unpack" => call.from \in BackupDir
    /\ undisturbed \in BOOLEAN

\* What the command under way found left over.
Found == cmd.kind # "none" /\ undisturbed => \A call \in leftover: ~Disturbs(call)

Quiet == undisturbed => CopiesAreQuiet

KInv == Safe /\ Snapshots /\ LeftoverTypes /\ Found /\ Quiet

-------------------------------------------------------------------------------
(***************************************************************************)
(* What is left over                                                       *)
(***************************************************************************)

\* A call of the command under way is one, with the backup that it unpacks.
LEMMA CallType ==
    ASSUME Safe, KillDuring
    PROVE  LeftoverTypes => LeftoverTypes'
    <1> SUFFICES ASSUME LeftoverTypes PROVE LeftoverTypes'
        OBVIOUS
    <1>0. cmd \in Command /\ cmd.from \in BackupDir \cup {NoValue}
        BY DEF Safe, Types, LocalTypes, Command
    <1>1. TaskOf(cmd.step) \in Tasks
        BY DEF KillDuring, TaskOf, Tasks, DockerSteps
    <1>2. files.env \in Releases
        BY DEF KillDuring, Readable, Safe, Types, LocalTypes, Files
    <1>3. cmd.step = "migrate" => cmd.target.release \in Releases
        <2>1. cmd.step = "migrate" => cmd.target \in Manifest
            BY KindOfStep DEF ChangeSteps, Safe, Shape
        <2> QED BY <2>1 DEF Manifest
    <1>4. TaskOf(cmd.step) = "unpack" => cmd.from \in BackupDir
        BY DEF KillDuring, TaskOf, DockerSteps, Safe, Shape, RestoreSteps
    <1>5. CallOfCommand \in Call
        <2> DEFINE release == IF cmd.step = "migrate" THEN cmd.target.release ELSE files.env
        <2>1. release \in Releases
            BY <1>2, <1>3
        <2>2. CallOfCommand = [task |-> TaskOf(cmd.step), release |-> release, from |-> cmd.from]
            BY DEF CallOfCommand
        <2> HIDE DEF release
        <2> QED BY <1>0, <1>1, <2>1, <2>2 DEF Call
    <1>6. CallOfCommand.task = "unpack" => CallOfCommand.from \in BackupDir
        BY <1>4 DEF CallOfCommand
    <1> QED BY <1>5, <1>6 DEF KillDuring, LeftoverTypes

\* Whatever a call does, the volume and the containers keep their types.
LEMMA WorkType ==
    ASSUME Types, LeftoverTypes, NEW call \in leftover, Work(call)
    PROVE  /\ volume' \in Volume
           /\ control' \in Releases \cup {NoValue} /\ core' \in BOOLEAN
    <1>0. call \in Call /\ call.release \in Releases /\ SchemaOf[call.release] \in Nat
        BY DeploymentAssumption DEF LeftoverTypes, Call
    <1>a. volume \in Volume /\ control \in Releases \cup {NoValue} /\ core \in BOOLEAN
        BY DEF Types, LocalTypes
    <1>1. CASE call.task \in {"stop", "stop all"} /\ volume' = volume
                 /\ (StoppedInPart(FALSE) \/ StoppedInPart(TRUE))
        BY <1>a, <1>1, StoppedType
    <1>2. CASE StartedInPart(call.release)
        BY <1>0, <1>2, StartedInPartType
    <1>3. CASE /\ volume' = [volume EXCEPT !.schema = SchemaOf[call.release]]
               /\ UNCHANGED <<control, core>>
        BY <1>0, <1>a, <1>3 DEF Volume
    <1>4. CASE call.task = "unpack" /\ LeftUnpack(call.from.data) /\ UNCHANGED <<control, core>>
        <2> DEFINE data == call.from.data
        <2>1. data \in Volume
            BY <1>4 DEF LeftoverTypes, BackupDir
        <2>2. volume' = data \/ volume' \in [writes: SUBSET (volume.writes \cup data.writes),
                                             schema: {0, volume.schema, data.schema},
                                             whole: {FALSE}]
            BY <1>4 DEF LeftUnpack
        <2> HIDE DEF data
        <2>3. /\ volume.writes \cup data.writes \subseteq 1 .. MaxWrites
              /\ {0, volume.schema, data.schema} \subseteq Nat
            BY <1>a, <2>1 DEF Volume
        <2> DEFINE W == volume.writes \cup data.writes
                   N == {0, volume.schema, data.schema}
        <2>4. ASSUME NEW v \in [writes: SUBSET W, schema: N, whole: {FALSE}] PROVE v \in Volume
            <3> HIDE DEF W, N
            <3>1. W \subseteq 1 .. MaxWrites /\ N \subseteq Nat
                BY <2>3 DEF W, N
            <3> QED BY <3>1 DEF Volume
        <2> QED BY <1>4, <1>a, <2>1, <2>2, <2>4
    <1> QED BY <1>1, <1>2, <1>3, <1>4 DEF Work

\* A call that only stops leaves nothing running that was not.
LEMMA StopsAreQuiet ==
    ASSUME NEW call, ~Disturbs(call), Work(call), control = NoValue, core = FALSE
    PROVE  control' = NoValue /\ core' = FALSE
    <1>1. StoppedInPart(FALSE) \/ StoppedInPart(TRUE)
        BY DEF Disturbs, Work
    <1>2. \/ UNCHANGED <<control, core>>
          \/ control' = NoValue /\ core' = core
          \/ control' = NoValue /\ core' = (core /\ ~FALSE)
          \/ control' = NoValue /\ core' = (core /\ ~TRUE)
        BY <1>1 DEF StoppedInPart, Stopped
    <1> QED BY <1>2

-------------------------------------------------------------------------------
(***************************************************************************)
(* The steps                                                               *)
(***************************************************************************)

LEMMA CommandsKeep ==
    ASSUME KInv, Commands
    PROVE  KInv'
    <1>0. Safe /\ Snapshots /\ [RemoteNext]_remoteVars
        BY DEF KInv, Commands
    <1>1. Safe' /\ Snapshots'
        BY <1>0, SafeNext, SnapshotsNext
    <1>2. LeftoverTypes'
        BY DEF KInv, Commands, LeftoverTypes
    <1>3. Found'
        BY DEF KInv, Commands, Found
    <1>4. Quiet'
        <2> SUFFICES ASSUME undisturbed' PROVE CopiesAreQuiet'
            BY DEF Quiet
        <2>1. CopiesAreQuiet
            <3>1. CASE cmd.kind = "none"
                BY <1>0, <3>1, KindOfStep DEF CopiesAreQuiet
            <3>2. CASE cmd.kind # "none"
                BY <3>2 DEF KInv, Quiet, Commands
            <3> QED BY <3>1, <3>2
        <2> QED BY <1>0, <2>1, QuietNext
    <1> QED BY <1>1, <1>2, <1>3, <1>4 DEF KInv

\* A kill during a call is a release, but for what is left.
LEMMA KillKeeps ==
    ASSUME KInv, KillDuring
    PROVE  KInv'
    <1>1. RemoteNext /\ Release
        <2>1. Release /\ job' = NoValue /\ UNCHANGED <<conf, recovery, repos, status>>
            BY DEF KillDuring, Release
        <2>2. cmd'.kind = "none"
            BY DEF KillDuring, NoCommand
        <2> QED BY <2>1, <2>2 DEF RemoteNext, Next
    <1>2. Safe' /\ Snapshots'
        BY <1>1, SafeNext, SnapshotsNext DEF KInv
    <1>3. LeftoverTypes'
        BY CallType DEF KInv
    <1>4. Found' /\ Quiet'
        BY DEF KillDuring, NoCommand, Found, Quiet, CopiesAreQuiet
    <1> QED BY <1>2, <1>3, <1>4 DEF KInv

LEMMA KillUpKeeps ==
    ASSUME KInv, KillUp
    PROVE  KInv'
    <1>0. Safe /\ Types /\ Shape
        BY DEF KInv, Safe
    <1>1. Safe'
        <2>1. commands' \in 0 .. MaxCommands
            BY <1>0, DeploymentAssumption DEF KillUp, Types, LocalTypes
        <2>2. Types'
            BY <1>0, <2>1 DEF KillUp, machine, remote, Types, LocalTypes, RemoteTypes
        <2>3. Shape'
            BY <1>0 DEF KillUp, machine, remote, Shape
        <2> QED BY <2>2, <2>3 DEF Safe
    <1>2. Snapshots'
        BY DEF KInv, KillUp, remote, Snapshots, HasSnapshot, Opens
    <1>3. LeftoverTypes'
        <2> DEFINE call == [task |-> "start", release |-> files.env, from |-> NoValue]
        <2>1. files.env \in Releases
            BY <1>0 DEF KillUp, Readable, Types, LocalTypes, Files
        <2>2. call \in Call /\ call.task = "start"
            BY <2>1 DEF Call, Tasks
        <2>3. leftover' = leftover \cup {call}
            BY DEF KillUp
        <2>4. undisturbed' = undisturbed
            BY DEF KillUp
        <2> HIDE DEF call
        <2> QED BY <2>2, <2>3, <2>4 DEF KInv, LeftoverTypes
    <1>4. Found' /\ Quiet'
        BY DEF KInv, KillUp, machine, Found, Quiet, CopiesAreQuiet
    <1> QED BY <1>1, <1>2, <1>3, <1>4 DEF KInv

\* docker goes on for a killed command, beside any other.
LEMMA LeftoverKeeps ==
    ASSUME KInv, LeftoverWorks
    PROVE  KInv'
    <1>1. PICK call \in leftover:
            /\ Work(call)
            /\ leftover' \in {leftover, leftover \ {call}}
            /\ UNCHANGED <<files, backups, acked, cmd, commands, remote, undisturbed>>
        BY DEF LeftoverWorks
    <1>2. Safe'
        <2>1. volume' \in Volume /\ control' \in Releases \cup {NoValue} /\ core' \in BOOLEAN
            BY <1>1, WorkType DEF KInv, Safe
        <2>2. Types'
            BY <1>1, <2>1 DEF KInv, Safe, Types, LocalTypes, RemoteTypes, remote
        <2>3. Shape'
            BY <1>1 DEF KInv, Safe, Shape, remote
        <2> QED BY <2>2, <2>3 DEF Safe
    <1>3. Snapshots'
        BY <1>1 DEF KInv, remote, Snapshots, HasSnapshot, Opens
    <1>4. LeftoverTypes'
        BY <1>1 DEF KInv, LeftoverTypes
    <1>5. Found'
        BY <1>1 DEF KInv, Found
    <1>6. Quiet'
        <2> SUFFICES ASSUME undisturbed', cmd'.step \in {"archive", "unpack"}
                     PROVE  control' = NoValue /\ ~core'
            BY DEF Quiet, CopiesAreQuiet
        <2>1. cmd.kind # "none"
            BY <1>1, KindOfStep DEF KInv
        <2>2. core \in BOOLEAN
            BY DEF KInv, Safe, Types, LocalTypes
        <2>3. control = NoValue /\ core = FALSE /\ ~Disturbs(call)
            BY <1>1, <2>1, <2>2 DEF KInv, Quiet, CopiesAreQuiet, Found
        <2>4. control' = NoValue /\ core' = FALSE
            BY <1>1, <2>3, StopsAreQuiet
        <2> QED BY <2>4
    <1> QED BY <1>2, <1>3, <1>4, <1>5, <1>6 DEF KInv

LEMMA KillInvariance == KillSpec => []KInv
    <1>1. KillInit => KInv
        BY Initially DEF KillInit, KInv, IInv, LeftoverTypes, Found, Quiet
    <1>2. ASSUME KInv, [KillNext]_killVars
          PROVE  KInv'
        <2>1. CASE UNCHANGED killVars
            <3>1. UNCHANGED remoteVars /\ UNCHANGED <<leftover, undisturbed>>
                BY <2>1 DEF killVars
            <3>2. Safe /\ Snapshots /\ [RemoteNext]_remoteVars
                BY <1>2, <3>1 DEF KInv
            <3>3. Safe' /\ Snapshots'
                BY <3>2, SafeNext, SnapshotsNext
            <3>4. UNCHANGED <<control, core, cmd>>
                BY <3>1 DEF remoteVars, vars, machine
            <3>5. LeftoverTypes' /\ Found'
                BY <1>2, <3>1, <3>4 DEF KInv, LeftoverTypes, Found
            <3>6. Quiet'
                BY <1>2, <3>1, <3>4 DEF KInv, Quiet, CopiesAreQuiet
            <3> QED BY <3>3, <3>5, <3>6 DEF KInv
        <2> QED BY <1>2, <2>1, CommandsKeep, KillKeeps, KillUpKeeps, LeftoverKeeps DEF KillNext
    <1> QED BY <1>1, <1>2, PTL DEF KillSpec

-------------------------------------------------------------------------------
(***************************************************************************)
(* The theorems                                                            *)
(***************************************************************************)

\* Every variable keeps its type, a left-over unpacking has its backup, and a command
\* has what its step reads, whatever docker did meanwhile for killed ones.
THEOREM KillTypeCorrect == KillSpec => []KillTypeOK
    <1>1. ASSUME KInv
          PROVE  KillTypeOK
        <2>1. RemoteTypeOK
            BY <1>1, SafeIsTyped DEF KInv
        <2> QED BY <1>1, <2>1, NoValueIsNone DEF KInv, LeftoverTypes, KillTypeOK
    <1> QED BY <1>1, KillInvariance, PTL

\* Nothing runs on the data and nothing else writes them while a command copies or
\* replaces them, unless it began while docker still started, migrated or unpacked
\* for a command that had been killed during that call: with any number of commands,
\* failing steps, kills, left-over stops and clients' writes.
THEOREM QuietCopies == KillSpec => []CopiesAreUndisturbed
    <1>1. ASSUME KInv
          PROVE  CopiesAreUndisturbed
        <2> SUFFICES ASSUME undisturbed, cmd.step \in {"archive", "unpack"}
                     PROVE  control = NoValue /\ ~core /\ \A call \in leftover: ~Disturbs(call)
            BY DEF CopiesAreUndisturbed
        <2>1. cmd.kind # "none"
            BY <1>1, KindOfStep DEF KInv
        <2> QED BY <1>1, <2>1 DEF KInv, Quiet, CopiesAreQuiet, Found
    <1> QED BY <1>1, KillInvariance, PTL

===============================================================================
