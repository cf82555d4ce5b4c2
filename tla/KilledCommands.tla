---------------------------- MODULE KilledCommands ----------------------------
(***************************************************************************)
(* barqctl killed while docker is at work for it (internal/deployment,     *)
(* runner.go and lock.go).  docker runs as a child of its own, and what it *)
(* was told to do is done by the daemon: the kill frees the lock and stops *)
(* neither.  The call goes on, beside whichever command takes the lock     *)
(* next.                                                                   *)
(*                                                                         *)
(* Left out: the calls that change neither containers nor volume.  They    *)
(* pull images and check the migration; they archive the volume into a     *)
(* backup that will never have its backup.json; and restic's go through    *)
(* the locks of the repository.  An archive of a volume in use is here     *)
(* what the volume was: no property of this module looks into it.          *)
(***************************************************************************)
EXTENDS RemoteBackup

VARIABLES
    leftover,       \* the docker calls that killed commands left at work
    undisturbed     \* history: when the command began, none of them but stops was

killVars == <<remoteVars, leftover, undisturbed>>

Tasks == {"stop", "stop all", "start", "migrate", "unpack"}
Call == [task: Tasks, release: Releases, from: BackupDir \cup {NoValue}]

DockerSteps == {"stopAll", "down", "stop", "upAgain", "up", "upLast", "migrate", "unpack"}

TaskOf(step) ==
    CASE step \in {"stopAll", "down"} -> "stop all"
      [] step \in {"upAgain", "up", "upLast"} -> "start"
      [] OTHER -> step

KillTypeOK ==
    /\ RemoteTypeOK
    /\ leftover \subseteq Call
    /\ \A call \in leftover: call.task = "unpack" => call.from # NoValue
    /\ undisturbed \in BOOLEAN

KillInit ==
    /\ RemoteInit
    /\ leftover = {}
    /\ undisturbed = TRUE

-------------------------------------------------------------------------------

\* What starts containers or writes the volume.
Disturbs(call) == call.task \in {"start", "migrate", "unpack"}

\* compose reads .env and its file first; without them the call is over.
Readable == Torn \notin {files.env, files.bundle}

\* The call that docker has from the command under way.
CallOfCommand ==
    [task |-> TaskOf(cmd.step),
     release |-> IF cmd.step = "migrate" THEN cmd.target.release ELSE files.env,
     from |-> cmd.from]

\* Killed in the middle of a docker call: as Release, but the call is left.
KillDuring ==
    /\ cmd.kind # "none" /\ cmd.step \in DockerSteps
    /\ Readable
    /\ leftover' = leftover \cup {CallOfCommand}
    /\ cmd' = NoCommand
    /\ job' = NoValue
    /\ UNCHANGED <<machine, commands, conf, recovery, repos, status, undisturbed>>

\* The command up, killed.
KillUp ==
    /\ cmd.kind = "none"
    /\ commands < MaxCommands
    /\ files.manifest # Torn
    /\ Readable
    /\ commands' = commands + 1
    /\ leftover' = leftover \cup {[task |-> "start", release |-> files.env, from |-> NoValue]}
    /\ UNCHANGED <<machine, cmd, remote, undisturbed>>

LeftUnpack(data) ==
    \/ volume' = data
    \/ volume' \in [writes: SUBSET (volume.writes \cup data.writes),
                    schema: {0, volume.schema, data.schema}, whole: {FALSE}]

\* A call does some of its work, or the last of it.
Work(call) ==
    \/ call.task = "stop" /\ StoppedInPart(FALSE) /\ volume' = volume
    \/ call.task = "stop all" /\ StoppedInPart(TRUE) /\ volume' = volume
    \/ call.task = "start" /\ StartedInPart(call.release)
    \/ /\ call.task = "migrate"
       /\ volume.schema <= SchemaOf[call.release]
       /\ volume' = [volume EXCEPT !.schema = SchemaOf[call.release]]
       /\ UNCHANGED <<control, core>>
    \/ call.task = "unpack" /\ LeftUnpack(call.from.data) /\ UNCHANGED <<control, core>>

LeftoverWorks ==
    \E call \in leftover:
        /\ Work(call)
        /\ leftover' \in {leftover, leftover \ {call}}
        /\ UNCHANGED <<files, backups, acked, cmd, commands, remote, undisturbed>>

\* The commands of RemoteBackup; the one that begins here finds what is left over.
Commands ==
    /\ RemoteNext
    /\ leftover' = leftover
    /\ undisturbed' = IF cmd.kind = "none" THEN \A call \in leftover: ~Disturbs(call)
                                           ELSE undisturbed

KillNext == Commands \/ KillDuring \/ KillUp \/ LeftoverWorks

KillSpec == KillInit /\ [][KillNext]_killVars

-------------------------------------------------------------------------------
(***************************************************************************)
(* Properties                                                              *)
(***************************************************************************)

\* The volume is copied and replaced only while no container of the deployment runs
\* and nothing else writes it, if no start, migration or unpack of a command that was
\* killed before was still at work when this one began: whoever runs other commands
\* meanwhile, wherever earlier ones failed or were killed, and whichever stops are
\* left over.
CopiesAreUndisturbed ==
    undisturbed /\ cmd.step \in {"archive", "unpack"} =>
        control = NoValue /\ ~core /\ \A call \in leftover: ~Disturbs(call)

===============================================================================
