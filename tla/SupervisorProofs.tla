-------------------------- MODULE SupervisorProofs --------------------------
(***************************************************************************)
(* Proofs about Supervisor, for any rungs that fit the assumption.         *)
(***************************************************************************)
EXTENDS Supervisor, TLAPS

USE LadderAssumption DEF Never

(* The variables of the supervisor keep their types.                        *)
THEOREM SupervisorTypes == Spec => []TypeOK
<1>1. Init => TypeOK
  <2> SUFFICES ASSUME Init PROVE TypeOK
    OBVIOUS
  <2>1. /\ child \in BOOLEAN /\ pgid \in BOOLEAN
        /\ looping \in BOOLEAN /\ stopFile \in BOOLEAN
        /\ heard \in BOOLEAN /\ relaunched \in BOOLEAN
    BY DEF Init
  <2>2. QED BY <2>1 DEF Init, TypeOK, Guarded, Unguarded, Ladder
<1>2. TypeOK /\ [Next]_vars => TypeOK'
  <2> SUFFICES ASSUME TypeOK, [Next]_vars PROVE TypeOK'
    OBVIOUS
  <2> USE DEF TypeOK, Guarded, Unguarded, Ladder, Goto, tree, runFiles, timers, docker, history
  <2>1. CASE InstallHandlers   BY <2>1 DEF InstallHandlers
  <2>2. CASE EnterTry          BY <2>2 DEF EnterTry
  <2>3. CASE Fork              BY <2>3 DEF Fork
  <2>4. CASE SetChild          BY <2>4 DEF SetChild
  <2>5. CASE SetPgid           BY <2>5 DEF SetPgid
  <2>6. CASE ChildExits        BY <2>6 DEF ChildExits
  <2>7. CASE StartLadder       BY <2>7 DEF StartLadder, Poll
  <2>8. CASE RemoveLooping
    <3>1. looping' \in BOOLEAN
      BY <2>8 DEF RemoveLooping
    <3>2. QED BY <2>8, <3>1 DEF RemoveLooping
  <2>9. CASE WriteStopFile
    <3>1. stopFile' \in BOOLEAN
      BY <2>9 DEF WriteStopFile
    <3>2. until' \in Nat
      BY <2>9 DEF WriteStopFile, Min2
    <3>3. QED BY <2>9, <3>1, <3>2 DEF WriteStopFile
  <2>10. CASE GracefulEnds     BY <2>10 DEF GracefulEnds, Poll
  <2>11. CASE TermGroup        BY <2>11 DEF TermGroup, Min2
  <2>12. CASE NobodyToTerm     BY <2>12 DEF NobodyToTerm
  <2>13. CASE PauseEnds        BY <2>13 DEF PauseEnds
  <2>14. CASE LadderDone       BY <2>14 DEF LadderDone, Poll
  <2>15. CASE KillGroup        BY <2>15 DEF KillGroup
  <2>16. CASE ReapEnds         BY <2>16 DEF ReapEnds, Poll
  <2>17. CASE Exit             BY <2>17 DEF Exit, ContainerEnds
  <2>18. CASE DockerStop       BY <2>18 DEF DockerStop, Deliver
  <2>19. CASE OtherSignal      BY <2>19 DEF OtherSignal, Deliver
  <2>20. CASE DockerKills      BY <2>20 DEF DockerKills, ContainerEnds
  <2>21. CASE DbStarts         BY <2>21 DEF DbStarts
  <2>22. CASE JvmExits         BY <2>22 DEF JvmExits
  <2>23. CASE JvmStops
    <3>1. stopFile' \in BOOLEAN /\ relaunched' \in BOOLEAN
      BY <2>23 DEF JvmStops
    <3>2. jvm' \in {"none", "up", "zombie", "reaped"}
      BY <2>23 DEF JvmStops
    <3>3. code' \in {"none", "own", "sigterm", "sigkill"}
      BY <2>23 DEF JvmStops
    <3>4. QED BY <2>23, <3>1, <3>2, <3>3 DEF JvmStops
  <2>24. CASE DbCloses         BY <2>24 DEF DbCloses
  <2>25. CASE Tick             BY <2>25 DEF Tick
  <2>26. CASE UNCHANGED vars   BY <2>26 DEF vars
  <2>27. QED
    BY <2>1, <2>2, <2>3, <2>4, <2>5, <2>6, <2>7, <2>8, <2>9, <2>10, <2>11, <2>12,
       <2>13, <2>14, <2>15, <2>16, <2>17, <2>18, <2>19, <2>20, <2>21, <2>22, <2>23,
       <2>24, <2>25, <2>26 DEF Next, Pid1, RequestGracefulStop, Group
<1>3. QED BY <1>1, <1>2, PTL DEF Spec

-----------------------------------------------------------------------------
\* How late each rung may be, counted from the start of the ladder.
RungInv ==
    /\ pc \in Ladder => /\ ladderAt \in Nat
                        /\ ladderAt <= now
                        /\ deadline = ladderAt + Budget
    /\ pc \in {"rungs", "stopfile"} => now = ladderAt
    /\ pc = "graceful" => until = ladderAt + GracefulWait /\ now <= until
    /\ pc = "term" => now <= ladderAt + GracefulWait
    /\ pc = "pause" => /\ termAt \in Nat
                       /\ termAt <= ladderAt + GracefulWait
                       /\ until = termAt + DbWait
                       /\ now <= until
    /\ pc = "check" => now <= ladderAt + GracefulWait + DbWait
    /\ pc = "reap" => /\ until <= ladderAt + GracefulWait + DbWait + KillGrace
                      /\ now <= until
    /\ pc = "exit" => now <= ladderAt + GracefulWait + DbWait + KillGrace

\* A stop that is heard starts the ladder at once, or finds it started.
HeardInv ==
    /\ pc # "gone" => ending = "none"
    /\ heard => /\ stopAt \in Nat
                /\ pc \in {"unguarded", "gone"} \cup Ladder
                /\ pc = "unguarded" => stopAt = now
                /\ pc \in Ladder => ladderAt <= stopAt
    /\ FitsDockerGrace

LEMMA RungsAreBounded == Spec => []RungInv
<1>1. Init => RungInv
  BY DEF Init, RungInv, Ladder
<1>2. TypeOK /\ RungInv /\ [Next]_vars => RungInv'
  <2> SUFFICES ASSUME TypeOK, RungInv, [Next]_vars PROVE RungInv'
    OBVIOUS
  <2> USE DEF TypeOK, RungInv, Guarded, Unguarded, Ladder, Goto,
              tree, runFiles, timers, docker, history
  <2>1. CASE InstallHandlers    BY <2>1 DEF InstallHandlers
  <2>2. CASE EnterTry           BY <2>2 DEF EnterTry
  <2>3. CASE Fork               BY <2>3 DEF Fork
  <2>4. CASE SetChild           BY <2>4 DEF SetChild
  <2>5. CASE SetPgid            BY <2>5 DEF SetPgid
  <2>6. CASE ChildExits         BY <2>6 DEF ChildExits
  <2>7. CASE StartLadder        BY <2>7 DEF StartLadder, Poll, Running
  <2>8. CASE RemoveLooping      BY <2>8 DEF RemoveLooping
  <2>9. CASE WriteStopFile      BY <2>9 DEF WriteStopFile, Min2
  <2>10. CASE GracefulEnds      BY <2>10 DEF GracefulEnds, Poll
  <2>11. CASE TermGroup         BY <2>11 DEF TermGroup, Min2, GroupAlive
  <2>12. CASE NobodyToTerm      BY <2>12 DEF NobodyToTerm, GroupAlive
  <2>13. CASE PauseEnds         BY <2>13 DEF PauseEnds
  <2>14. CASE LadderDone        BY <2>14 DEF LadderDone, Poll, Running
  <2>15. CASE KillGroup         BY <2>15 DEF KillGroup, Running
  <2>16. CASE ReapEnds          BY <2>16 DEF ReapEnds, Poll
  <2>17. CASE Exit              BY <2>17 DEF Exit, ContainerEnds
  <2>18. CASE DockerStop        BY <2>18 DEF DockerStop, Deliver
  <2>19. CASE OtherSignal       BY <2>19 DEF OtherSignal, Deliver
  <2>20. CASE DockerKills       BY <2>20 DEF DockerKills, ContainerEnds
  <2>21. CASE DbStarts          BY <2>21 DEF DbStarts
  <2>22. CASE JvmExits          BY <2>22 DEF JvmExits
  <2>23. CASE JvmStops          BY <2>23 DEF JvmStops
  <2>24. CASE DbCloses          BY <2>24 DEF DbCloses
  <2>25. CASE Tick              BY <2>25 DEF Tick, Blocked
  <2>26. CASE UNCHANGED vars    BY <2>26 DEF vars
  <2>27. QED
    BY <2>1, <2>2, <2>3, <2>4, <2>5, <2>6, <2>7, <2>8, <2>9, <2>10, <2>11, <2>12,
       <2>13, <2>14, <2>15, <2>16, <2>17, <2>18, <2>19, <2>20, <2>21, <2>22, <2>23,
       <2>24, <2>25, <2>26 DEF Next, Pid1, RequestGracefulStop, Group
<1>3. QED BY <1>1, <1>2, SupervisorTypes, PTL DEF Spec

(* Once a stop request is heard PID 1 is gone before Docker's grace period  *)
(* is over: the rungs add up to less than the grace, every wait is cut at   *)
(* its bound, and a heard stop cannot be older than the ladder.             *)
THEOREM LadderFitsDockerGrace == Spec => []FitsDockerGrace
<1>1. Init => HeardInv
  BY DEF Init, HeardInv, FitsDockerGrace
<1>2. TypeOK /\ RungInv /\ HeardInv /\ [Next]_vars => HeardInv'
  <2> SUFFICES ASSUME TypeOK, RungInv, HeardInv, [Next]_vars PROVE HeardInv'
    OBVIOUS
  <2> USE DEF TypeOK, RungInv, HeardInv, FitsDockerGrace, Guarded, Unguarded, Ladder, Goto,
              tree, runFiles, timers, docker, history
  <2>1. CASE InstallHandlers    BY <2>1 DEF InstallHandlers
  <2>2. CASE EnterTry           BY <2>2 DEF EnterTry
  <2>3. CASE Fork               BY <2>3 DEF Fork
  <2>4. CASE SetChild           BY <2>4 DEF SetChild
  <2>5. CASE SetPgid            BY <2>5 DEF SetPgid
  <2>6. CASE ChildExits         BY <2>6 DEF ChildExits
  <2>7. CASE StartLadder        BY <2>7 DEF StartLadder, Poll, Running
  <2>8. CASE RemoveLooping      BY <2>8 DEF RemoveLooping
  <2>9. CASE WriteStopFile      BY <2>9 DEF WriteStopFile, Min2
  <2>10. CASE GracefulEnds      BY <2>10 DEF GracefulEnds, Poll
  <2>11. CASE TermGroup         BY <2>11 DEF TermGroup, Min2, GroupAlive
  <2>12. CASE NobodyToTerm      BY <2>12 DEF NobodyToTerm, GroupAlive
  <2>13. CASE PauseEnds         BY <2>13 DEF PauseEnds
  <2>14. CASE LadderDone        BY <2>14 DEF LadderDone, Poll, Running
  <2>15. CASE KillGroup         BY <2>15 DEF KillGroup, Running
  <2>16. CASE ReapEnds          BY <2>16 DEF ReapEnds, Poll
  <2>17. CASE Exit              BY <2>17 DEF Exit, ContainerEnds
  <2>18. CASE DockerStop        BY <2>18 DEF DockerStop, Deliver
  <2>19. CASE OtherSignal       BY <2>19 DEF OtherSignal, Deliver
  <2>20. CASE DockerKills       BY <2>20 DEF DockerKills, ContainerEnds
  <2>21. CASE DbStarts          BY <2>21 DEF DbStarts
  <2>22. CASE JvmExits          BY <2>22 DEF JvmExits
  <2>23. CASE JvmStops          BY <2>23 DEF JvmStops
  <2>24. CASE DbCloses          BY <2>24 DEF DbCloses
  <2>25. CASE Tick              BY <2>25 DEF Tick, Blocked
  <2>26. CASE UNCHANGED vars    BY <2>26 DEF vars
  <2>27. QED
    BY <2>1, <2>2, <2>3, <2>4, <2>5, <2>6, <2>7, <2>8, <2>9, <2>10, <2>11, <2>12,
       <2>13, <2>14, <2>15, <2>16, <2>17, <2>18, <2>19, <2>20, <2>21, <2>22, <2>23,
       <2>24, <2>25, <2>26 DEF Next, Pid1, RequestGracefulStop, Group
<1>3. HeardInv => FitsDockerGrace
  BY DEF HeardInv
<1>4. QED BY <1>1, <1>2, <1>3, SupervisorTypes, RungsAreBounded, PTL DEF Spec

-----------------------------------------------------------------------------
\* The controller PID 1 knows is one that was started, and by the end of the
\* ladder it is reaped.
ChildInv ==
    /\ pgid => child
    /\ child => jvm # "none"
    /\ pc = "forked" => jvm # "none"
    /\ pc = "child_set" => child
    /\ pc # "gone" => ending = "none"
    /\ pc = "reap" /\ pgid => jvm = "zombie"
    /\ pc = "exit" /\ pgid => jvm = "reaped"
    /\ StatusIsReal

\* A rung that finds somebody alive has waited for it.
WaitedInv ==
    /\ pc \notin {"check", "reap", "exit", "gone"} => db # "killed"
    /\ pc \notin {"reap", "exit", "gone"} => code # "sigkill"
    /\ pc \in {"check", "reap", "exit"} /\ pgid =>
           \/ termAt # Never /\ now >= termAt + DbWait
           \/ jvm # "up" /\ db \in {"none", "clean"}
    /\ pc = "term" /\ child /\ jvm = "up" => now >= ladderAt + GracefulWait
    /\ pc = "pause" /\ child /\ jvm = "up" => termAt >= ladderAt + GracefulWait
    /\ pc = "check" /\ child /\ pgid /\ jvm = "up" =>
           now >= ladderAt + GracefulWait + DbWait
    /\ KillIsLast
    /\ DbGetsItsWait

LEMMA ChildIsKnown == Spec => []ChildInv
<1>1. Init => ChildInv
  BY DEF Init, ChildInv, StatusIsReal
<1>2. TypeOK /\ ChildInv /\ [Next]_vars => ChildInv'
  <2> SUFFICES ASSUME TypeOK, ChildInv, [Next]_vars PROVE ChildInv'
    OBVIOUS
  <2> USE DEF TypeOK, ChildInv, StatusIsReal, Guarded, Unguarded, Ladder, Goto,
              tree, runFiles, timers, docker, history
  <2>1. CASE InstallHandlers    BY <2>1 DEF InstallHandlers
  <2>2. CASE EnterTry           BY <2>2 DEF EnterTry
  <2>3. CASE Fork               BY <2>3 DEF Fork
  <2>4. CASE SetChild           BY <2>4 DEF SetChild
  <2>5. CASE SetPgid            BY <2>5 DEF SetPgid
  <2>6. CASE ChildExits         BY <2>6 DEF ChildExits
  <2>7. CASE StartLadder        BY <2>7 DEF StartLadder, Poll, Running
  <2>8. CASE RemoveLooping      BY <2>8 DEF RemoveLooping
  <2>9. CASE WriteStopFile      BY <2>9 DEF WriteStopFile, Min2
  <2>10. CASE GracefulEnds      BY <2>10 DEF GracefulEnds, Poll
  <2>11. CASE TermGroup         BY <2>11 DEF TermGroup, Min2, GroupAlive
  <2>12. CASE NobodyToTerm      BY <2>12 DEF NobodyToTerm, GroupAlive
  <2>13. CASE PauseEnds         BY <2>13 DEF PauseEnds
  <2>14. CASE LadderDone        BY <2>14 DEF LadderDone, Poll, Running
  <2>15. CASE KillGroup         BY <2>15 DEF KillGroup, Running
  <2>16. CASE ReapEnds          BY <2>16 DEF ReapEnds, Poll
  <2>17. CASE Exit              BY <2>17 DEF Exit, ContainerEnds
  <2>18. CASE DockerStop        BY <2>18 DEF DockerStop, Deliver
  <2>19. CASE OtherSignal       BY <2>19 DEF OtherSignal, Deliver
  <2>20. CASE DockerKills       BY <2>20 DEF DockerKills, ContainerEnds
  <2>21. CASE DbStarts          BY <2>21 DEF DbStarts
  <2>22. CASE JvmExits          BY <2>22 DEF JvmExits
  <2>23. CASE JvmStops          BY <2>23 DEF JvmStops
  <2>24. CASE DbCloses          BY <2>24 DEF DbCloses
  <2>25. CASE Tick              BY <2>25 DEF Tick, Blocked
  <2>26. CASE UNCHANGED vars    BY <2>26 DEF vars
  <2>27. QED
    BY <2>1, <2>2, <2>3, <2>4, <2>5, <2>6, <2>7, <2>8, <2>9, <2>10, <2>11, <2>12,
       <2>13, <2>14, <2>15, <2>16, <2>17, <2>18, <2>19, <2>20, <2>21, <2>22, <2>23,
       <2>24, <2>25, <2>26 DEF Next, Pid1, RequestGracefulStop, Group
<1>3. QED BY <1>1, <1>2, SupervisorTypes, PTL DEF Spec

(* The exit status PID 1 reports is the controller's own whenever PID 1     *)
(* knew its group: the last rung always reaps before run() reads the code.  *)
THEOREM ExitStatusIsTheChilds == Spec => []StatusIsReal
<1>1. ChildInv => StatusIsReal
  BY DEF ChildInv
<1>2. QED BY <1>1, ChildIsKnown, PTL

LEMMA EveryRungWaits == Spec => []WaitedInv
<1>1. Init => WaitedInv
  BY DEF Init, WaitedInv, KillIsLast, DbGetsItsWait
<1>2. TypeOK /\ RungInv /\ ChildInv /\ WaitedInv /\ [Next]_vars => WaitedInv'
  <2> SUFFICES ASSUME TypeOK, RungInv, ChildInv, WaitedInv, [Next]_vars PROVE WaitedInv'
    OBVIOUS
  <2> USE DEF TypeOK, RungInv, ChildInv, WaitedInv, KillIsLast, DbGetsItsWait, Guarded, Unguarded, Ladder, Goto,
              tree, runFiles, timers, docker, history
  <2>1. CASE InstallHandlers    BY <2>1 DEF InstallHandlers
  <2>2. CASE EnterTry           BY <2>2 DEF EnterTry
  <2>3. CASE Fork               BY <2>3 DEF Fork
  <2>4. CASE SetChild           BY <2>4 DEF SetChild
  <2>5. CASE SetPgid            BY <2>5 DEF SetPgid
  <2>6. CASE ChildExits         BY <2>6 DEF ChildExits
  <2>7. CASE StartLadder        BY <2>7 DEF StartLadder, Poll, Running
  <2>8. CASE RemoveLooping      BY <2>8 DEF RemoveLooping
  <2>9. CASE WriteStopFile      BY <2>9 DEF WriteStopFile, Min2
  <2>10. CASE GracefulEnds      BY <2>10 DEF GracefulEnds, Poll
  <2>11. CASE TermGroup         BY <2>11 DEF TermGroup, Min2, GroupAlive
  <2>12. CASE NobodyToTerm      BY <2>12 DEF NobodyToTerm, GroupAlive
  <2>13. CASE PauseEnds         BY <2>13 DEF PauseEnds
  <2>14. CASE LadderDone        BY <2>14 DEF LadderDone, Poll, Running
  <2>15. CASE KillGroup         BY <2>15 DEF KillGroup, Running
  <2>16. CASE ReapEnds          BY <2>16 DEF ReapEnds, Poll
  <2>17. CASE Exit              BY <2>17 DEF Exit, ContainerEnds
  <2>18. CASE DockerStop        BY <2>18 DEF DockerStop, Deliver
  <2>19. CASE OtherSignal       BY <2>19 DEF OtherSignal, Deliver
  <2>20. CASE DockerKills       BY <2>20 DEF DockerKills, ContainerEnds
  <2>21. CASE DbStarts          BY <2>21 DEF DbStarts
  <2>22. CASE JvmExits          BY <2>22 DEF JvmExits
  <2>23. CASE JvmStops          BY <2>23 DEF JvmStops
  <2>24. CASE DbCloses          BY <2>24 DEF DbCloses
  <2>25. CASE Tick              BY <2>25 DEF Tick, Blocked
  <2>26. CASE UNCHANGED vars    BY <2>26 DEF vars
  <2>27. QED
    BY <2>1, <2>2, <2>3, <2>4, <2>5, <2>6, <2>7, <2>8, <2>9, <2>10, <2>11, <2>12,
       <2>13, <2>14, <2>15, <2>16, <2>17, <2>18, <2>19, <2>20, <2>21, <2>22, <2>23,
       <2>24, <2>25, <2>26 DEF Next, Pid1, RequestGracefulStop, Group
<1>3. QED BY <1>1, <1>2, SupervisorTypes, RungsAreBounded, ChildIsKnown, PTL DEF Spec

(* A mongod that PID 1 leaves to be killed had SIGTERM and its whole        *)
(* DB_WAIT: the graceful wait cannot eat into it, because both fit the      *)
(* budget.                                                                  *)
THEOREM DatabaseGetsItsWait == Spec => []DbGetsItsWait
<1>1. WaitedInv => DbGetsItsWait
  BY DEF WaitedInv
<1>2. QED BY <1>1, EveryRungWaits, PTL

(* The ladder's SIGKILL comes after the whole of both waits before it.      *)
THEOREM SigkillIsTheLastRung == Spec => []KillIsLast
<1>1. WaitedInv => KillIsLast
  BY DEF WaitedInv
<1>2. QED BY <1>1, EveryRungWaits, PTL

\* Nothing is written or restarted before the attempt to remove launcher.looping,
\* and after it nothing removes the file.
RestartInv ==
    /\ NothingRestartsIt
    /\ pc \in {"boot", "rungs"} \cup Guarded \cup Unguarded => ~stopFile /\ ~relaunched

(* The launcher starts a stopped controller again only where its file could *)
(* not be removed: request_graceful_stop tries that before it writes        *)
(* server.stop, at any times and with any signals.                          *)
THEOREM NothingRestartsTheController == Spec => []NothingRestartsIt
<1>1. Init => RestartInv
  BY DEF Init, RestartInv, NothingRestartsIt
<1>2. RestartInv /\ [Next]_vars => RestartInv'
  <2> SUFFICES ASSUME RestartInv, [Next]_vars PROVE RestartInv'
    OBVIOUS
  <2> USE DEF RestartInv, NothingRestartsIt, Goto, Guarded, Unguarded, runFiles, history
  <2>1. CASE RemoveLooping
    <3>1. pc = "rungs" /\ pc' = "stopfile" /\ UNCHANGED relaunched
      BY <2>1 DEF RemoveLooping
    <3>2. QED BY <3>1
  <2>2. CASE WriteStopFile
    <3>1. pc' = "graceful" /\ UNCHANGED <<looping, relaunched>>
      BY <2>2 DEF WriteStopFile
    <3>2. QED BY <3>1
  <2>3. CASE JvmStops       BY <2>3 DEF JvmStops
  <2>4. CASE UNCHANGED vars BY <2>4 DEF vars
  <2>5. CASE Pid1 /\ ~RequestGracefulStop
    BY <2>5 DEF Pid1, InstallHandlers, EnterTry, Fork, SetChild, SetPgid, ChildExits,
       StartLadder, GracefulEnds, TermGroup, NobodyToTerm, PauseEnds, LadderDone,
       KillGroup, ReapEnds, Exit, ContainerEnds
  <2>6. CASE DockerStop \/ OtherSignal \/ DockerKills
    BY <2>6 DEF DockerStop, OtherSignal, DockerKills, Deliver, ContainerEnds
  <2>7. CASE DbStarts \/ JvmExits \/ DbCloses \/ Tick
    BY <2>7 DEF DbStarts, JvmExits, DbCloses, Tick
  <2>8. QED BY <2>1, <2>2, <2>3, <2>4, <2>5, <2>6, <2>7 DEF Next, Group, RequestGracefulStop
<1>3. RestartInv => NothingRestartsIt
  BY DEF RestartInv
<1>4. QED BY <1>1, <1>2, <1>3, PTL DEF Spec
=============================================================================
