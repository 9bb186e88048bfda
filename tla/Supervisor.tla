----------------------------- MODULE Supervisor -----------------------------
(***************************************************************************)
(* PID 1 of the Network image (unifi_runtime/entrypoint/network.py): it    *)
(* boots the container, starts the controller in a process group of its    *)
(* own, and takes the group down in rungs when it is told to stop or the   *)
(* controller exits.                                                       *)
(*                                                                         *)
(* The group holds the JVM, which is PID 1's child, and mongod, which the  *)
(* JVM starts and which outlives it.  When PID 1 is gone the kernel kills  *)
(* whatever is left.  A stop signal is an exception raised between two     *)
(* steps of PID 1; where it is raised decides what becomes of it.          *)
(*                                                                         *)
(* Time is in seconds.  It passes while PID 1 boots or blocks; its other   *)
(* steps take none.                                                        *)
(***************************************************************************)
EXTENDS Integers

CONSTANTS Budget,       \* SHUTDOWN_BUDGET
          GracefulWait, \* GRACEFUL_WAIT
          DbWait,       \* DB_WAIT
          KillGrace,    \* KILL_GRACE
          DockerGrace,  \* what `docker stop` allows before its SIGKILL
          MaxIdle,      \* bound: the clock before anything stops
          MaxSignals    \* bound: stop signals besides the one of `docker stop`

(* "The rungs below have to fit inside that."                              *)
ASSUME LadderAssumption ==
    /\ Budget \in Nat /\ GracefulWait \in Nat /\ DbWait \in Nat
    /\ KillGrace \in Nat /\ DockerGrace \in Nat
    /\ MaxIdle \in Nat /\ MaxSignals \in Nat
    /\ GracefulWait + DbWait <= Budget
    /\ GracefulWait + DbWait + KillGrace < DockerGrace

Never == -1

VARIABLES pc,        \* where PID 1 is
          child,     \* self.child is set
          pgid,      \* self.pgid is set
          deadline,  \* stop()'s deadline
          until,     \* when the wait PID 1 is blocked in times out
          jvm,       \* the controller: "none", "up", "zombie" or "reaped"
          code,      \* how the controller ended
          db,        \* mongod: "none", "up", "closing", "clean" or "killed"
          looping,   \* rundir/launcher.looping exists
          stopFile,  \* rundir/server.stop exists
          now,       \* the monotonic clock
          stopAt,    \* when `docker stop` sent its SIGTERM
          signals,   \* history: other stop signals sent
          heard,     \* history: that SIGTERM was not discarded by the kernel
          forkAt,    \* history: when the controller was started
          ladderAt,  \* history: when stop() started its clock
          termAt,    \* history: when SIGTERM reached the group
          relaunched,\* history: the launcher restarted a stopped controller
          ending     \* how the container ended, "none" while it runs

tree     == <<jvm, code, db>>
runFiles == <<looping, stopFile>>
timers   == <<deadline, until>>
docker   == <<stopAt, signals, heard>>
history  == <<forkAt, ladderAt, termAt, relaunched>>
vars     == <<pc, child, pgid, timers, tree, runFiles, now, docker, history, ending>>

\* Inside the `try` of run(): _Stop is caught.
Guarded == {"spawn", "forked", "child_set", "waiting"}
\* The handlers raise, but outside the `try`.
Unguarded == {"installed", "unguarded"}
\* The stop signals are ignored.
Ladder == {"rungs", "stopfile", "graceful", "term", "pause", "check", "reap", "exit"}

\* Mutant of Min2: the wait ends with the budget.
MinLater(a, b) == IF a <= b THEN b ELSE a

Min2(a, b) == IF a <= b THEN a ELSE b

Init == /\ pc = "boot"
        /\ child = FALSE
        /\ pgid = FALSE
        /\ deadline = 0
        /\ until = 0
        /\ jvm = "none"
        /\ code = "none"
        /\ db = "none"
        /\ looping = TRUE
        /\ stopFile = FALSE
        /\ now = 0
        /\ stopAt = Never
        /\ signals = 0
        /\ heard = FALSE
        /\ forkAt = Never
        /\ ladderAt = Never
        /\ termAt = Never
        /\ relaunched = FALSE
        /\ ending = "none"

-----------------------------------------------------------------------------
(* run(): spawn and wait.                                                  *)

Goto(from, to) == pc = from /\ pc' = to

\* main() has cleared the state and run the hooks; run() installs handlers.
InstallHandlers == /\ Goto("boot", "installed")
                   /\ UNCHANGED <<child, pgid, timers, tree, runFiles, now, docker,
                                  history, ending>>

EnterTry == /\ Goto("installed", "spawn")
            /\ UNCHANGED <<child, pgid, timers, tree, runFiles, now, docker, history,
                           ending>>

\* Popen: the controller runs, in a session of its own.
Fork == /\ Goto("spawn", "forked")
        /\ jvm' = "up"
        /\ forkAt' = now
        /\ UNCHANGED <<child, pgid, timers, code, db, runFiles, now, docker, ladderAt,
                       termAt, relaunched, ending>>

SetChild == /\ Goto("forked", "child_set")
            /\ child' = TRUE
            /\ UNCHANGED <<pgid, timers, tree, runFiles, now, docker, history, ending>>

SetPgid == /\ Goto("child_set", "waiting")
           /\ pgid' = TRUE
           /\ UNCHANGED <<child, timers, tree, runFiles, now, docker, history, ending>>

\* child.wait() returns: the controller exited by itself.
ChildExits == /\ Goto("waiting", "unguarded")
              /\ jvm = "zombie"
              /\ jvm' = "reaped"
              /\ UNCHANGED <<child, pgid, timers, code, db, runFiles, now, docker,
                             history, ending>>

-----------------------------------------------------------------------------
(* stop(): the shutdown ladder.                                            *)

\* Mutant of Poll: the child is never reaped.
PollNothing == UNCHANGED jvm

\* poll() reaps a controller that has exited.
Poll == jvm' = IF child /\ jvm = "zombie" THEN "reaped" ELSE jvm

Running == child /\ jvm = "up"

\* _ignore_stop_signals(), the deadline, and the first look at the child.
StartLadder == /\ pc = "unguarded"
               /\ deadline' = now + Budget
               /\ ladderAt' = now
               /\ Poll
               /\ pc' = IF Running THEN "rungs" ELSE "term"
               /\ UNCHANGED <<child, pgid, until, code, db, runFiles, now, docker,
                              forkAt, termAt, relaunched, ending>>

\* request_graceful_stop removes launcher.looping, or fails to and goes on ...
RemoveLooping == /\ Goto("rungs", "stopfile")
                 /\ looping' \in {FALSE, looping}
                 /\ UNCHANGED <<child, pgid, timers, tree, stopFile, now, docker,
                                history, ending>>

\* ... and then writes server.stop, or fails to; the wait follows either way.
WriteStopFile == /\ Goto("stopfile", "graceful")
                 /\ stopFile' \in {TRUE, stopFile}
                 /\ until' = Min2(now + GracefulWait, deadline)
                 /\ UNCHANGED <<child, pgid, deadline, tree, looping, now, docker,
                                history, ending>>

\* Mutant of RequestGracefulStop: server.stop goes first.
StopFileFirst == \/ /\ Goto("rungs", "stopfile")
                    /\ stopFile' \in {TRUE, stopFile}
                    /\ UNCHANGED <<until, looping, child, pgid, deadline, tree, now,
                                   docker, history, ending>>
                 \/ /\ Goto("stopfile", "graceful")
                    /\ looping' \in {FALSE, looping}
                    /\ until' = Min2(now + GracefulWait, deadline)
                    /\ UNCHANGED <<stopFile, child, pgid, deadline, tree, now,
                                   docker, history, ending>>

\* The vendor's documented stop, in its order.
RequestGracefulStop == RemoveLooping \/ WriteStopFile

\* _wait_for_exit(deadline, GRACEFUL_WAIT)
GracefulEnds == /\ Goto("graceful", "term")
                /\ jvm = "zombie" \/ now >= until
                /\ Poll
                /\ UNCHANGED <<child, pgid, timers, code, db, runFiles, now, docker,
                               history, ending>>

\* Somebody is left to receive a signal of killpg.
GroupAlive == jvm \in {"up", "zombie"} \/ db \in {"up", "closing"}

\* signal_group(SIGTERM) reaches somebody: mongod starts to close, and a flat
\* pause follows.
TermGroup == /\ Goto("term", "pause")
             /\ pgid /\ GroupAlive
             /\ db' = IF db = "up" THEN "closing" ELSE db
             /\ termAt' = now
             /\ until' = Min2(now + DbWait, deadline)
             /\ UNCHANGED <<child, pgid, deadline, jvm, code, runFiles, now, docker,
                            forkAt, ladderAt, relaunched, ending>>

\* signal_group(SIGTERM) finds nobody, or does not know the group.
NobodyToTerm == /\ Goto("term", "check")
                /\ ~(pgid /\ GroupAlive)
                /\ UNCHANGED <<child, pgid, timers, tree, runFiles, now, docker,
                               history, ending>>

\* Mutants of PauseEnds: the pause is for the controller, or for mongod.
PauseForChild == /\ Goto("pause", "check")
                 /\ jvm # "up" \/ now >= until
                 /\ UNCHANGED <<child, pgid, timers, tree, runFiles, now, docker, history,
                                ending>>
PauseForDb == /\ Goto("pause", "check")
              /\ db \notin {"up", "closing"}
              /\ UNCHANGED <<child, pgid, timers, tree, runFiles, now, docker, history,
                             ending>>

\* _pause_until(deadline, DB_WAIT)
PauseEnds == /\ Goto("pause", "check")
             /\ now >= until
             /\ UNCHANGED <<child, pgid, timers, tree, runFiles, now, docker, history,
                            ending>>

\* The controller is gone, so the ladder is over.
LadderDone == /\ Goto("check", "exit")
              /\ ~Running
              /\ Poll
              /\ UNCHANGED <<child, pgid, timers, code, db, runFiles, now, docker,
                             history, ending>>

\* The controller ignored SIGTERM: SIGKILL to the group, and time to reap it.
KillGroup == /\ Goto("check", "reap")
             /\ Running
             /\ IF pgid
                THEN /\ jvm' = "zombie"
                     /\ code' = "sigkill"
                     /\ db' = IF db \in {"up", "closing"} THEN "killed" ELSE db
                ELSE UNCHANGED tree
             /\ until' = now + KillGrace
             /\ UNCHANGED <<child, pgid, deadline, runFiles, now, docker, history,
                            ending>>

\* _wait_for_exit(now + KILL_GRACE, KILL_GRACE)
ReapEnds == /\ Goto("reap", "exit")
            /\ jvm = "zombie" \/ now >= until
            /\ Poll
            /\ UNCHANGED <<child, pgid, timers, code, db, runFiles, now, docker,
                           history, ending>>

\* PID 1 is gone: the kernel kills what is left in its namespace.
ContainerEnds(how) == /\ pc' = "gone"
                      /\ ending' = how
                      /\ db' = IF db \in {"up", "closing"} THEN "killed" ELSE db
                      /\ jvm' = IF jvm = "up" THEN "reaped" ELSE jvm
                      /\ code' = IF jvm = "up" THEN "sigkill" ELSE code
                      /\ UNCHANGED <<child, pgid, timers, runFiles, now, docker, history>>

\* exit_status(exit_code): the code of a reaped child, or a made-up 143.
Exit == /\ pc = "exit"
        /\ ContainerEnds(IF child /\ jvm = "reaped" THEN "reported" ELSE "made_up")

-----------------------------------------------------------------------------
(* Stop signals.                                                           *)

\* The handler runs between two steps of PID 1: before it is installed the
\* kernel drops the signal, on the ladder it is ignored, inside the `try` it
\* starts the ladder and outside it ends PID 1 with a traceback.
Deliver == \/ /\ pc \in {"boot"} \cup Ladder
              /\ UNCHANGED <<pc, tree, ending>>
           \/ /\ pc \in Guarded
              /\ pc' = "unguarded"
              /\ UNCHANGED <<tree, ending>>
           \/ /\ pc \in Unguarded
              /\ pc' = "gone"
              /\ ending' = "traceback"
              /\ db' = IF db \in {"up", "closing"} THEN "killed" ELSE db
              /\ jvm' = IF jvm = "up" THEN "reaped" ELSE jvm
              /\ code' = IF jvm = "up" THEN "sigkill" ELSE code

\* `docker stop`: SIGTERM now, SIGKILL when the grace period is over.
DockerStop == /\ pc # "gone"
              /\ stopAt = Never
              /\ stopAt' = now
              /\ heard' = (pc # "boot")
              /\ Deliver
              /\ UNCHANGED <<child, pgid, timers, runFiles, now, signals, history>>

\* `docker kill -s`, or a terminal's ^C or hangup.
OtherSignal == /\ pc # "gone"
               /\ signals < MaxSignals
               /\ signals' = signals + 1
               /\ Deliver
               /\ UNCHANGED <<child, pgid, timers, runFiles, now, stopAt, heard, history>>

DockerKills == /\ pc # "gone"
               /\ stopAt # Never
               /\ now >= stopAt + DockerGrace
               /\ ContainerEnds("docker")

-----------------------------------------------------------------------------
(* The controller and mongod.                                              *)

\* The JVM starts mongod, once it has been up for a while.
DbStarts == /\ jvm = "up" /\ now > forkAt /\ termAt = Never
            /\ db = "none"
            /\ db' = "up"
            /\ UNCHANGED <<pc, child, pgid, timers, jvm, code, runFiles, now, docker,
                           history, ending>>

\* The controller exits by itself, or because SIGTERM reached it.
JvmExits == /\ pc # "gone"
            /\ jvm = "up"
            /\ jvm' = "zombie"
            /\ code' \in {"own"} \cup (IF termAt # Never THEN {"sigterm"} ELSE {})
            /\ UNCHANGED <<pc, child, pgid, timers, db, runFiles, now, docker, history,
                           ending>>

\* The controller acts on server.stop; with launcher.looping it comes back.
JvmStops == /\ pc # "gone"
            /\ jvm = "up" /\ stopFile
            /\ stopFile' = FALSE
            /\ IF looping THEN relaunched' = TRUE /\ UNCHANGED <<jvm, code>>
               ELSE jvm' = "zombie" /\ code' = "own" /\ UNCHANGED relaunched
            /\ UNCHANGED <<pc, child, pgid, timers, db, looping, now, docker, forkAt,
                           ladderAt, termAt, ending>>

DbCloses == /\ pc # "gone"
            /\ db = "closing"
            /\ db' = "clean"
            /\ UNCHANGED <<pc, child, pgid, timers, jvm, code, runFiles, now, docker,
                           history, ending>>

\* PID 1 is blocked and what it waits for has not happened.
Blocked == \/ pc = "boot"
           \/ pc = "waiting" /\ jvm = "up"
           \/ pc \in {"graceful", "reap"} /\ jvm = "up" /\ now < until
           \/ pc = "pause" /\ now < until

\* A second passes.
Tick == /\ Blocked
        /\ stopAt # Never => now < stopAt + DockerGrace
        /\ pc \in {"boot", "waiting"} /\ stopAt = Never => now < MaxIdle
        /\ now' = now + 1
        /\ UNCHANGED <<pc, child, pgid, timers, tree, runFiles, docker, history, ending>>

Pid1 == \/ InstallHandlers \/ EnterTry \/ Fork \/ SetChild \/ SetPgid
        \/ ChildExits
        \/ StartLadder \/ RequestGracefulStop \/ GracefulEnds
        \/ TermGroup \/ NobodyToTerm \/ PauseEnds
        \/ LadderDone \/ KillGroup \/ ReapEnds
        \/ Exit

Group == DbStarts \/ JvmExits \/ JvmStops \/ DbCloses

Next == Pid1 \/ DockerStop \/ OtherSignal \/ DockerKills \/ Group \/ Tick

Spec == Init /\ [][Next]_vars

\* PID 1 is scheduled, time passes, and Docker keeps its word.  Nothing is
\* assumed of the controller or of mongod, which may be wedged.
FairSpec == /\ Spec
            /\ WF_vars(Pid1)
            /\ WF_vars(Tick)
            /\ WF_vars(DockerKills)

-----------------------------------------------------------------------------
(* Properties.                                                             *)

TypeOK == /\ pc \in {"boot", "gone"} \cup Guarded \cup Unguarded \cup Ladder
          /\ child \in BOOLEAN /\ pgid \in BOOLEAN
          /\ looping \in BOOLEAN /\ stopFile \in BOOLEAN
          /\ heard \in BOOLEAN /\ relaunched \in BOOLEAN
          /\ deadline \in Nat /\ until \in Nat /\ now \in Nat /\ signals \in Nat
          /\ stopAt \in Nat \cup {Never} /\ forkAt \in Nat \cup {Never}
          /\ ladderAt \in Nat \cup {Never} /\ termAt \in Nat \cup {Never}
          /\ jvm \in {"none", "up", "zombie", "reaped"}
          /\ code \in {"none", "own", "sigterm", "sigkill"}
          /\ db \in {"none", "up", "closing", "clean", "killed"}
          /\ ending \in {"none", "reported", "made_up", "traceback", "docker"}

(* "`docker stop` allows 10s before SIGKILL.  The rungs below have to fit    *)
(* inside that": once a stop request was heard, whatever the controller and *)
(* mongod do and wherever it caught PID 1, Docker never has to kill.        *)
FitsDockerGrace == ending = "docker" => ~heard

(* When PID 1 leaves of its own accord and knew its group, a mongod that it *)
(* leaves to be killed had SIGTERM and the whole DB_WAIT to close, however  *)
(* much of the budget the controller had used up before.                    *)
DbGetsItsWait == ending \in {"reported", "made_up"} /\ pgid /\ db = "killed" =>
                     termAt # Never /\ now >= termAt + DbWait

(* "Loudest rung last": the ladder kills a controller only after it had the *)
(* graceful wait for server.stop and the database's wait after SIGTERM.     *)
KillIsLast == pc \in {"reap", "exit"} /\ pgid /\ code = "sigkill" =>
                  now >= ladderAt + GracefulWait + DbWait

(* "Reaping it is the difference between reporting 137 and reporting a      *)
(* made-up 143": with a known group the exit status is always the child's.  *)
StatusIsReal == ending = "made_up" => ~pgid

(* "launcher.looping goes first so nothing restarts it": the launcher       *)
(* starts a controller that was told to stop again only where the file      *)
(* could not be removed at all, never because it was removed too late.      *)
NothingRestartsIt == relaunched => looping

(* A stop request that is heard, and a controller that exits, end the       *)
(* container, though the JVM or mongod be wedged.                           *)
StopsForGood == heard \/ jvm \in {"zombie", "reaped"} ~> pc = "gone"
=============================================================================
