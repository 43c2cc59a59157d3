--------------------------- MODULE SingleVmDeploy ---------------------------
(***************************************************************************)
(* Deployments to the single VM, scripts/ops/deploy.mjs: the operator's    *)
(* program, which holds a lock file in its checkout, and the scripts it    *)
(* runs on the VM over ssh, which hold a lock directory there and go on    *)
(* without it when the connection is lost.  Builds are numbered along the  *)
(* release history: an ancestor has a smaller number.                      *)
(*                                                                         *)
(* A docker command may fail anywhere; a script may be signalled (its trap *)
(* cleans up) or killed (nothing does).  What the signature, readiness and *)
(* configuration checks refuse is refused before anything is changed.      *)
(***************************************************************************)
EXTENDS Naturals, FiniteSets

CONSTANTS
    Deployments,      \* runs of deploy.mjs, each with a fresh token
    Checkouts,        \* the operators' working copies
    NumBuilds,        \* the builds are 1..NumBuilds
    MaxMishaps,       \* bound: lost connections, dead operators, killed scripts
    FromClobbered,    \* whether the VM may have lost its active release before (Refuse)
    MaxServices       \* bound: restarts and stops of the service

ASSUME DeployAssumption ==
    /\ NumBuilds \in Nat /\ MaxMishaps \in Nat /\ MaxServices \in Nat
    /\ FromClobbered \in BOOLEAN
    /\ Deployments \cap {"nobody", "service"} = {}

Nothing == 0          \* no build, or a pointer that is not there
Unsure == NumBuilds + 1   \* what runs after a docker command failed halfway
Builds == 1..NumBuilds
Nobody == "nobody"

VARIABLES
    link, build, prev,  \* the symlinks current and previous, and the file current-build
    releases,           \* the builds that have a directory under releases/
    incoming,           \* the deployments that have one under incoming/
    secrets,            \* the releases that hold a .migration.env
    running,            \* the build whose containers are up
    vmLock,             \* who made .deploy.lock
    fileLock,           \* per checkout, who wrote the lock file of the environment
    op,                 \* per deployment, the operator's program
    script,             \* per deployment, its script on the VM
    mishaps, services,
    alarm,              \* a script was killed, or reported that recovery failed
    clobbered           \* history: directories a refused deployment removed

vmVars == << link, build, prev, releases, incoming, secrets, running, vmLock >>
deployVars == << vmVars, fileLock, op, script, mishaps, services, alarm, clobbered >>

NoScript == [at |-> "none", kind |-> "none", base |-> Nothing, replaced |-> FALSE]

\* The VM has never been deployed to, or runs build 1, of which a refused deployment may
\* have removed the directory (Refuse).
DeployInit ==
    /\ link \in {Nothing} \cup (Builds \cap {1}) /\ build = link /\ running = link
    /\ prev = Nothing /\ releases \in {{link} \ {Nothing}} \cup {r \in {{}} : FromClobbered}
    /\ clobbered = {link} \ (releases \cup {Nothing})
    /\ incoming = {} /\ secrets = {} /\ vmLock = Nobody
    /\ fileLock = [c \in Checkouts |-> Nobody]
    /\ op = [d \in Deployments |-> [at |-> "idle", from |-> Nobody, target |-> Nothing,
                                    source |-> Nothing, seen |-> Nothing, recover |-> FALSE]]
    /\ script = [d \in Deployments |-> NoScript]
    /\ mishaps = 0 /\ services = 0 /\ alarm = FALSE

IsRollback(d) == op[d].source # Nothing

OpAt(d, step) == op' = [op EXCEPT ![d].at = step]
At(d, step) == script' = [script EXCEPT ![d].at = step]

Holders == {d \in Deployments : script[d].at \notin {"none", "start", "ok", "failed", "dead"}}
\* --recover-lock is for one operator who has seen that the owner is gone ("it is not a
\* concurrency override", docs/runbooks/deployment.md): it is given to one deployment only.
Recovering == {d \in Deployments : op[d].recover}
-----------------------------------------------------------------------------
(* The operator's program. *)

\* acquireLock: the lock file is new, or --recover-lock was given and its owner is gone.
Begin(d) ==
    \E c \in Checkouts, t, s \in Builds, rollback, recover \in BOOLEAN :
        /\ op[d].at = "idle" /\ (rollback => t < s)
        /\ recover => Recovering = {}
        /\ fileLock[c] \in {Nobody} \cup {e \in Deployments : recover /\ op[e].at = "dead"}
        /\ fileLock' = [fileLock EXCEPT ![c] = d]
        /\ op' = [op EXCEPT ![d] = [at |-> "locked", from |-> c, target |-> t,
                                    source |-> IF rollback THEN s ELSE Nothing,
                                    seen |-> Nothing, recover |-> recover]]
        /\ UNCHANGED << vmVars, script, mishaps, services, alarm, clobbered >>

\* The finally block: the lock file goes, whatever happened.
Ends(d, outcome) ==
    /\ fileLock' = [fileLock EXCEPT ![op[d].from] = Nobody]
    /\ OpAt(d, outcome)

\* assertRemoteRollbackSource, assertRemoteTargetNotActive, verifyForwardDeploymentAncestry.
MayReplace(d, active) ==
    IF IsRollback(d) THEN active = op[d].source /\ active # op[d].target
                     ELSE active = Nothing \/ active < op[d].target

\* readRemoteCurrentBuild, before any lock of the VM is held.
Preflight(d) ==
    /\ op[d].at = "locked"
    /\ IF MayReplace(d, build)
       THEN /\ op' = [op EXCEPT ![d].at = "uploading", ![d].seen = build]
            /\ UNCHANGED fileLock
       ELSE Ends(d, "failed")
    /\ UNCHANGED << vmVars, script, mishaps, services, alarm, clobbered >>

\* REMOTE_PREPARE_SCRIPT and the writes into the incoming directory.
Upload(d) ==
    /\ op[d].at = "uploading" /\ d \notin incoming
    /\ incoming' = incoming \cup {d}
    /\ UNCHANGED << link, build, prev, releases, secrets, running, vmLock >>
    /\ UNCHANGED << fileLock, op, script, mishaps, services, alarm, clobbered >>

\* sshRun of a script that takes the lock of the VM.
Runs(d, kind, step) ==
    /\ script' = [script EXCEPT ![d] = [NoScript EXCEPT !.at = "start", !.kind = kind]]
    /\ OpAt(d, step)

Launch(d) ==
    /\ op[d].at = "uploading" /\ d \in incoming
    /\ Runs(d, "deploy", "deploying")
    /\ UNCHANGED << vmVars, fileLock, mishaps, services, alarm, clobbered >>

ScriptFailed(d) == script[d].at \in {"failed", "dead"}

\* The catch block removes the incoming directory: after an interruption of the upload, a
\* script that failed, or a connection lost while the script goes on.
GivesUp(d) ==
    /\ \/ op[d].at = "uploading"
       \/ op[d].at = "deploying" /\ ScriptFailed(d)
       \/ op[d].at = "deploying" /\ ~ScriptFailed(d) /\ mishaps < MaxMishaps
    /\ mishaps' = IF op[d].at = "uploading" \/ ScriptFailed(d) THEN mishaps ELSE mishaps + 1
    /\ incoming' = incoming \ {d} /\ Ends(d, "failed")
    /\ UNCHANGED << link, build, prev, releases, secrets, running, vmLock >>
    /\ UNCHANGED << script, services, alarm, clobbered >>

\* waitForDeploymentHealth, waitForWebBuild and REMOTE_CONFIG_SUMMARY_SCRIPT agree on the
\* build, and the receipt is written.
Verified(d) ==
    /\ op[d].at = "deploying" /\ script[d].at = "ok"
    /\ running = op[d].target /\ build = running /\ link = running /\ link \in releases
    /\ Ends(d, "receipt")
    /\ UNCHANGED << vmVars, script, mishaps, services, alarm, clobbered >>

\* Verification fails, for whatever reason: the previous build is restored, or the first
\* release deactivated.
Unverified(d) ==
    /\ op[d].at = "deploying" /\ script[d].at = "ok"
    /\ Runs(d, IF op[d].seen = Nothing THEN "deactivate" ELSE "restore", "recovering")
    /\ UNCHANGED << vmVars, fileLock, mishaps, services, alarm, clobbered >>

\* Both end in an error, which says whether the previous build was restored.
Reports(d) ==
    /\ op[d].at = "recovering" /\ (script[d].at = "ok" \/ ScriptFailed(d))
    /\ alarm' = (alarm \/ ScriptFailed(d))
    /\ Ends(d, "failed")
    /\ UNCHANGED << vmVars, script, mishaps, services, clobbered >>

\* The operator's machine or process dies; its lock file stays, its script goes on.
OperatorDies(d) ==
    /\ op[d].at \notin {"idle", "failed", "receipt", "dead"} /\ mishaps < MaxMishaps
    /\ mishaps' = mishaps + 1 /\ OpAt(d, "dead")
    /\ UNCHANGED << vmVars, fileLock, script, services, alarm, clobbered >>
-----------------------------------------------------------------------------
(* The scripts on the VM, each step under the lock that its mkdir took.    *)

\* A live owner keeps the lock; --recover-lock takes it from a dead one.
LockIsFree(d) ==
    \/ vmLock = Nobody
    \/ /\ script[d].kind = "deploy" /\ op[d].recover
       /\ vmLock \in {e \in Deployments : script[e].at = "dead"}

TakeLock(d) ==
    /\ script[d].at = "start"
    /\ IF LockIsFree(d)
       THEN /\ vmLock' = d
            /\ script' = [script EXCEPT ![d].at = "locked", ![d].base = link]
       ELSE At(d, "failed") /\ UNCHANGED vmLock
    /\ UNCHANGED << link, build, prev, releases, incoming, secrets, running >>
    /\ UNCHANGED << fileLock, op, mishaps, services, alarm, clobbered >>

\* The trap: the lock goes and the script ends.
Exit(d, outcome) == vmLock' = Nobody /\ At(d, outcome)

\* Mistaken: the active build is not compared with the one the preflight saw.
StillExpectedAnyBuild(d) ==
    /\ link = build /\ build # op[d].target
    /\ IsRollback(d) => build # Nothing
    /\ d \in incoming

\* The checks of REMOTE_DEPLOY_SCRIPT once it holds the lock.
StillExpected(d) ==
    /\ link = build /\ build = op[d].seen /\ build # op[d].target
    /\ IsRollback(d) => build = op[d].source
    /\ d \in incoming

\* cleanup, as long as nothing was activated: the target's directory goes, and one it had
\* replaced comes back.
Withdrawn(d) == IF script[d].replaced THEN releases ELSE releases \ {op[d].target}

\* The trap runs cleanup although nothing was installed yet.
Refuse(d) ==
    /\ script[d].at = "locked" /\ script[d].kind = "deploy" /\ ~StillExpected(d)
    /\ releases' = Withdrawn(d)
    /\ clobbered' = clobbered \cup (releases \ releases')
    /\ incoming' = incoming \ {d} /\ secrets' = secrets \ {op[d].target}
    /\ Exit(d, "failed")
    /\ UNCHANGED << link, build, prev, running, fileLock, op, mishaps, services, alarm >>

\* The incoming directory becomes the release; an earlier one of the build is put aside.
Install(d) ==
    /\ script[d].at = "locked" /\ script[d].kind = "deploy" /\ StillExpected(d)
    /\ script' = [script EXCEPT ![d].at = "installed",
                                ![d].replaced = op[d].target \in releases]
    /\ releases' = releases \cup {op[d].target} /\ incoming' = incoming \ {d}
    /\ secrets' = IF IsRollback(d) THEN secrets \ {op[d].target} ELSE secrets \cup {op[d].target}
    /\ UNCHANGED << link, build, prev, running, vmLock >>
    /\ UNCHANGED << fileLock, op, mishaps, services, alarm, clobbered >>

\* The images are pulled and checked; the data services start and the migration runs.
Activate(d) ==
    /\ script[d].at = "installed" /\ At(d, "activating")
    /\ running' = Unsure
    /\ UNCHANGED << link, build, prev, releases, incoming, secrets, vmLock >>
    /\ UNCHANGED << fileLock, op, mishaps, services, alarm, clobbered >>

\* All services are up with the new images; previous is moved first.
MovePrevious(d) ==
    /\ script[d].at = "activating" /\ At(d, "up")
    /\ running' = op[d].target /\ secrets' = secrets \ {op[d].target}
    /\ prev' = IF script[d].base # Nothing THEN script[d].base ELSE prev
    /\ UNCHANGED << link, build, releases, incoming, vmLock >>
    /\ UNCHANGED << fileLock, op, mishaps, services, alarm, clobbered >>

MoveCurrent(d) ==
    /\ script[d].at = "up" /\ At(d, "linked")
    /\ link' = op[d].target
    /\ UNCHANGED << build, prev, releases, incoming, secrets, running, vmLock >>
    /\ UNCHANGED << fileLock, op, mishaps, services, alarm, clobbered >>

CommitBuild(d) ==
    /\ script[d].at = "linked" /\ At(d, "committed")
    /\ build' = op[d].target
    /\ UNCHANGED << link, prev, releases, incoming, secrets, running, vmLock >>
    /\ UNCHANGED << fileLock, op, mishaps, services, alarm, clobbered >>

\* prune_releases keeps the new release and the one it replaced ...
Kept(d) == {op[d].target, script[d].base}

\* ... and one more; if it is interrupted, all the others may still be there, and the
\* deployment ends in an error.
Prune(d) ==
    /\ script[d].at = "committed"
    /\ \E more \in SUBSET (releases \ Kept(d)) :
          /\ more # {} \/ releases \subseteq Kept(d)
          /\ releases' = (releases \cap Kept(d)) \cup more
          /\ \/ Cardinality(more) <= 1 /\ Exit(d, "ok")
             \/ Exit(d, "failed")
    /\ UNCHANGED << link, build, prev, incoming, secrets, running >>
    /\ UNCHANGED << fileLock, op, mishaps, services, alarm, clobbered >>

\* A failure or a signal before the activation.
InstallFails(d) ==
    /\ script[d].at = "installed"
    /\ releases' = Withdrawn(d) /\ secrets' = secrets \ {op[d].target}
    /\ Exit(d, "failed")
    /\ UNCHANGED << link, build, prev, incoming, running >>
    /\ UNCHANGED << fileLock, op, mishaps, services, alarm, clobbered >>

\* One after it: restore_previous.  Run as a condition, it does not stop at a docker command
\* that fails, and moves the pointers back all the same.
ActivationFails(d) ==
    /\ script[d].at \in {"activating", "up", "linked"}
    /\ script[d].base \in releases \cup {Nothing}
    /\ link' = script[d].base /\ build' = script[d].base
    /\ running' \in {script[d].base, Unsure}
    /\ releases' = Withdrawn(d) /\ secrets' = secrets \ {op[d].target}
    /\ Exit(d, "failed")
    /\ UNCHANGED << prev, incoming, fileLock, op, mishaps, services, alarm, clobbered >>

\* The previous directory is missing: everything is left as it is, and status 74 says so.
RestoreIsImpossible(d) ==
    /\ script[d].at \in {"activating", "up", "linked"}
    /\ script[d].base \notin releases \cup {Nothing}
    /\ alarm' = TRUE /\ secrets' = secrets \ {op[d].target} /\ Exit(d, "failed")
    /\ UNCHANGED << link, build, prev, releases, incoming, running >>
    /\ UNCHANGED << fileLock, op, mishaps, services, clobbered >>

\* REMOTE_RESTORE_PREVIOUS_SCRIPT: previous must name the build the deployment replaced.
RestoreUp(d) ==
    /\ script[d].at = "locked" /\ script[d].kind = "restore"
    /\ IF prev = op[d].seen /\ prev \in releases
       THEN running' = prev /\ At(d, "restored") /\ UNCHANGED vmLock
       ELSE Exit(d, "failed") /\ UNCHANGED running
    /\ UNCHANGED << link, build, prev, releases, incoming, secrets >>
    /\ UNCHANGED << fileLock, op, mishaps, services, alarm, clobbered >>

\* previous is set to the link that is current; the restore fails when that names no build.
RestorePrevious(d) ==
    /\ script[d].at = "restored"
    /\ IF link = Nothing THEN Exit(d, "failed") /\ alarm' = TRUE /\ UNCHANGED prev
                         ELSE prev' = link /\ At(d, "swapping") /\ UNCHANGED << vmLock, alarm >>
    /\ UNCHANGED << link, build, releases, incoming, secrets, running >>
    /\ UNCHANGED << fileLock, op, mishaps, services, clobbered >>

RestoreCurrent(d) ==
    /\ script[d].at = "swapping" /\ At(d, "swapped")
    /\ link' = op[d].seen
    /\ UNCHANGED << build, prev, releases, incoming, secrets, running, vmLock >>
    /\ UNCHANGED << fileLock, op, mishaps, services, alarm, clobbered >>

RestoredBuild(d) == op[d].seen

RestoreBuild(d) ==
    /\ script[d].at = "swapped" /\ build' = RestoredBuild(d) /\ Exit(d, "ok")
    /\ UNCHANGED << link, prev, releases, incoming, secrets, running >>
    /\ UNCHANGED << fileLock, op, mishaps, services, alarm, clobbered >>

\* A failed docker command or a signal: the trap only releases the lock, and the operator
\* is told that the restore failed.
RestoreFails(d) ==
    /\ script[d].at \in {"restored", "swapping", "swapped"}
    /\ \/ script[d].at = "restored" /\ running' = Unsure
       \/ UNCHANGED running
    /\ alarm' = TRUE /\ Exit(d, "failed")
    /\ UNCHANGED << link, build, prev, releases, incoming, secrets >>
    /\ UNCHANGED << fileLock, op, mishaps, services, clobbered >>

\* REMOTE_DEACTIVATE_FAILED_CURRENT_SCRIPT.
Deactivate(d) ==
    /\ script[d].at = "locked" /\ script[d].kind = "deactivate"
    /\ \/ /\ link = op[d].target /\ build = link /\ link \in releases
          /\ running' = Nothing /\ link' = Nothing /\ build' = Nothing
          /\ releases' = releases \ {op[d].target} /\ Exit(d, "ok")
          /\ UNCHANGED alarm
       \/ /\ alarm' = TRUE /\ running' \in {running, Unsure} /\ Exit(d, "failed")
          /\ UNCHANGED << link, build, releases >>
    /\ UNCHANGED << prev, incoming, secrets, fileLock, op, mishaps, services, clobbered >>

\* The script is killed, or the VM restarts: the lock directory stays.
ScriptDies(d) ==
    /\ d \in Holders /\ mishaps < MaxMishaps
    /\ mishaps' = mishaps + 1 /\ alarm' = TRUE /\ At(d, "dead")
    /\ UNCHANGED << vmVars, fileLock, op, services, clobbered >>

\* service.sh takes the same lock ...
Service ==
    /\ vmLock = Nobody /\ services < MaxServices /\ vmLock' = "service"
    /\ services' = services + 1
    /\ UNCHANGED << link, build, prev, releases, incoming, secrets, running >>
    /\ UNCHANGED << fileLock, op, script, mishaps, alarm, clobbered >>

\* ... and starts or stops what current names.
ServiceEnds ==
    /\ vmLock = "service" /\ vmLock' = Nobody
    /\ running' \in IF link \in releases THEN {link, Nothing, Unsure} ELSE {running}
    /\ UNCHANGED << link, build, prev, releases, incoming, secrets >>
    /\ UNCHANGED << fileLock, op, script, mishaps, services, alarm, clobbered >>
-----------------------------------------------------------------------------
DeployNext ==
    \/ \E d \in Deployments :
          \/ Begin(d) \/ Preflight(d) \/ Upload(d) \/ Launch(d) \/ GivesUp(d)
          \/ Verified(d) \/ Unverified(d) \/ Reports(d) \/ OperatorDies(d)
          \/ TakeLock(d) \/ Refuse(d) \/ Install(d) \/ Activate(d)
          \/ MovePrevious(d) \/ MoveCurrent(d) \/ CommitBuild(d) \/ Prune(d)
          \/ InstallFails(d) \/ ActivationFails(d) \/ RestoreIsImpossible(d)
          \/ RestoreUp(d) \/ RestorePrevious(d) \/ RestoreCurrent(d)
          \/ RestoreBuild(d) \/ RestoreFails(d) \/ Deactivate(d) \/ ScriptDies(d)
    \/ Service \/ ServiceEnds

DeploySpec == DeployInit /\ [][DeployNext]_deployVars
-----------------------------------------------------------------------------
TypeOK_Deploy ==
    /\ {link, build, prev} \subseteq {Nothing} \cup Builds
    /\ releases \subseteq Builds /\ secrets \subseteq Builds /\ clobbered \subseteq Builds
    /\ incoming \subseteq Deployments /\ running \in {Nothing, Unsure} \cup Builds
    /\ vmLock \in {Nobody, "service"} \cup Deployments
    /\ \A c \in Checkouts : fileLock[c] \in {Nobody} \cup Deployments
    /\ mishaps \in 0..MaxMishaps /\ services \in 0..MaxServices /\ alarm \in BOOLEAN

\* Never do two scripts change the VM at once, although operators, lost connections and the
\* recovery of a dead owner's lock bring their scripts there at any moment.
OneScriptAtATime == Holders \subseteq {vmLock}

\* A deployment installs and activates over exactly the build its preflight checked, however
\* long ago that was: normal releases only go forward, and a rollback leaves its source.
ActivatesOverWhatItSaw ==
    \A d \in Holders : script[d].at \in {"installed", "activating", "up", "linked"}
        => /\ build = op[d].seen /\ script[d].base = build
           /\ IF IsRollback(d) THEN build = op[d].source ELSE build < op[d].target

\* Unless a script was killed or told the operator that recovery failed, whenever the lock is
\* free the two records of the active build agree, and nothing else is known to run.
PointersAgree ==
    vmLock = Nobody /\ ~alarm => link = build /\ running \in {link, Nothing, Unsure}

\* A first release that failed its verification was taken down again.
TakenDown == \E d \in Deployments : script[d].kind = "deactivate" /\ script[d].at = "ok"

\* The active release keeps its directory, but for what refused deployments remove
\* (ActiveReleaseIsKept), and so does the one before it, to which a failed verification
\* returns, as long as no first release was taken down in between.
OnlyRefusalsRemove ==
    /\ link \in releases \cup clobbered \cup {Nothing}
    /\ prev \in releases \cup clobbered \cup {Nothing} \/ TakenDown

\* Whatever way the scripts ended short of being killed, no migration credentials stay in a
\* release.
SecretsAreRemoved == vmLock = Nobody /\ ~alarm => secrets = {}

DeployInv ==
    /\ TypeOK_Deploy /\ OneScriptAtATime /\ ActivatesOverWhatItSaw /\ PointersAgree
    /\ OnlyRefusalsRemove /\ SecretsAreRemoved

\* docs/runbooks/deployment.md: the active release stays on the VM whatever becomes of another
\* deployment.
ActiveReleaseIsKept == link \in releases \cup {Nothing}
=============================================================================
