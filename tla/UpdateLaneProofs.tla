--------------------------- MODULE UpdateLaneProofs ---------------------------
(***************************************************************************)
(* What the nightly pin updater keeps for any number of upstream versions  *)
(* and any amount of trouble: the type invariant, and that no merge of a   *)
(* lane takes a pin back.                                                  *)
(***************************************************************************)
EXTENDS UpdateLane, TLAPS

\* Every commit a lane made, in its worktree or on the forge, moves the pins of
\* its base forward; the application's may go back only with a release of
\* UniFi OS Server.
Forward(c, of) ==
    /\ c.own.net >= c.base.net
    /\ c.own.uos >= c.base.uos
    /\ VersionOf(c.own.app) >= VersionOf(c.base.app) \/ of = "uos"

\* PinsNeverGoBack follows from what a branch holds, and that from what was
\* committed to it.
WorkForward  == \A l \in Lanes : Forward(work[l], job[l].of)
HeadsForward == \A b \in Branch : Forward(heads[b], b.of)
Named        == \A l \in Lanes : pc[l] \in {"push", "open"} => job[l] \in Branch

IInv == TypeOK /\ WorkForward /\ HeadsForward /\ Named

Commit == [base : Pins, own : Pins] \cup {NoHead}

\* The version of a package is bounded by the last package's.
LEMMA VersionOfType ==
    ASSUME NEW a \in 1..MaxApp
    PROVE  VersionOf(a) \in 1..VersionOf(MaxApp)
  BY UpdateAssumption DEF VersionOf

LEMMA NoHeadForward == \A of : Forward(NoHead, of)
  BY DEF Forward, NoHead, VersionOf

\* What upstream has newest are pins.
LEMMA GaVersionType == TypeOK => GaVersion \in 1..VersionOf(MaxApp)
  BY VersionOfType DEF TypeOK, GaVersion

\* bump writes pins, and none that is older than what it read.
LEMMA BumpedForward ==
    ASSUME TypeOK, NEW l \in Lanes, NEW pins \in Pins, Due(l, pins)
    PROVE  /\ Bumped(l, pins) \in Pins
           /\ BranchFor(l, pins) \in Branch
           /\ Forward([base |-> pins, own |-> Bumped(l, pins)], BranchFor(l, pins).of)
  <1> USE UpdateAssumption
  <1>1. GaVersion \in 1..VersionOf(MaxApp) BY GaVersionType
  <1>2. upstream.uos \in 1..MaxUos /\ upstream.app \in 1..MaxApp BY DEF TypeOK
  <1>3. pins.net \in 1..VersionOf(MaxApp) /\ pins.uos \in 1..MaxUos /\ pins.app \in 1..MaxApp
    BY DEF Pins
  <1>4. VersionOf(pins.app) \in Int /\ VersionOf(upstream.app) \in Int
    BY <1>2, <1>3 DEF VersionOf
  <1>5. CASE l = "stable"
    <2>1. Bumped(l, pins) = [net |-> GaVersion, uos |-> pins.uos, app |-> pins.app]
      BY <1>5 DEF Bumped, Pins
    <2>2. BranchFor(l, pins) = [lane |-> "stable", of |-> "net", version |-> GaVersion]
      BY <1>5 DEF BranchFor
    <2>3. GaVersion > pins.net BY <1>5 DEF Due, NetMoved
    <2> QED BY <2>1, <2>2, <2>3, <1>1, <1>3, <1>4 DEF Forward, Pins, Branch
  <1>6. CASE l = "uos" /\ UosMoved(pins)
    <2>1. Bumped(l, pins) = [net |-> pins.net, uos |-> upstream.uos, app |-> upstream.app]
      BY <1>6 DEF Bumped, Pins
    <2>2. BranchFor(l, pins) = [lane |-> "uos", of |-> "uos", version |-> upstream.uos]
      BY <1>6 DEF BranchFor
    <2>3. upstream.uos > pins.uos BY <1>6 DEF UosMoved
    <2> QED BY <2>1, <2>2, <2>3, <1>2, <1>3 DEF Forward, Pins, Branch
  <1>7. CASE l = "uos" /\ ~UosMoved(pins)
    <2>1. Bumped(l, pins) = [net |-> pins.net, uos |-> pins.uos, app |-> upstream.app]
      BY <1>7 DEF Bumped, Pins
    <2>2. BranchFor(l, pins) = [lane |-> "uos", of |-> "app", version |-> upstream.app]
      BY <1>7 DEF BranchFor
    <2>3. VersionOf(upstream.app) >= VersionOf(pins.app) BY <1>7 DEF Due, AppMoved
    <2> QED BY <2>1, <2>2, <2>3, <1>2, <1>3, <1>4 DEF Forward, Pins, Branch
  <1> QED BY <1>5, <1>6, <1>7 DEF Lanes

LEMMA InitIInv == Init => IInv
  <1> SUFFICES ASSUME Init PROVE IInv OBVIOUS
  <1> USE UpdateAssumption
  <1>1. VersionOf(FirstApp) \in 1..VersionOf(MaxApp) BY VersionOfType
  <1>2. main \in Pins /\ upstream \in [uos : 1..MaxUos, app : 1..MaxApp]
    BY <1>1 DEF Init, Pins
  <1>3. /\ heads \in [Branch -> Commit] /\ work \in [Lanes -> Commit]
        /\ job \in [Lanes -> Branch \cup {NoJob}]
    BY DEF Init, Commit
  <1>4. pulls \in [Branch -> [open : BOOLEAN, age : 0..2, auto : BOOLEAN,
                              checks : {"none", "running", "green", "red"}]]
    BY DEF Init, NoPull
  <1>5. TypeOK BY <1>2, <1>3, <1>4 DEF Init, TypeOK, Commit
  <1>6. WorkForward /\ HeadsForward
    BY NoHeadForward DEF Init, WorkForward, HeadsForward
  <1> QED BY <1>5, <1>6 DEF Init, IInv, Named

\* A job that ends leaves nothing in its worktree.
LEMMA EndsIInv ==
    ASSUME IInv, NEW l \in Lanes, NEW how \in {"green", "red"}, Ends(l, how)
    PROVE  /\ pc' \in [Lanes -> {"off", "bump", "push", "open"}]
           /\ job' \in [Lanes -> Branch \cup {NoJob}]
           /\ work' \in [Lanes -> Commit]
           /\ result' \in [Lanes -> {"green", "red"}]
           /\ WorkForward' /\ Named'
  <1>1. /\ pc' \in [Lanes -> {"off", "bump", "push", "open"}]
        /\ job' \in [Lanes -> Branch \cup {NoJob}]
        /\ work' \in [Lanes -> Commit]
        /\ result' \in [Lanes -> {"green", "red"}]
    BY DEF IInv, TypeOK, Ends, Commit
  <1>2. WorkForward'
    <2> SUFFICES ASSUME NEW m \in Lanes PROVE Forward(work[m], job[m].of)'
      BY DEF WorkForward
    <2>1. CASE m = l
      <3>1. work'[m] = NoHead BY <2>1 DEF Ends, IInv, TypeOK
      <3> QED BY <3>1, NoHeadForward DEF Forward
    <2>2. CASE m # l
      <3>1. work'[m] = work[m] /\ job'[m] = job[m] BY <2>2 DEF Ends, IInv, TypeOK
      <3> QED BY <3>1 DEF IInv, WorkForward, Forward
    <2> QED BY <2>1, <2>2
  <1>3. Named' BY DEF Named, Ends, IInv, TypeOK
  <1> QED BY <1>1, <1>2, <1>3

\* A commit is pushed as it was made.
LEMMA PushBranchIInv ==
    ASSUME IInv, NEW l \in Lanes, PushBranch(l)
    PROVE  IInv'
  <1> USE UpdateAssumption
  <1>1. job[l] \in Branch /\ work[l] \in Commit
    BY DEF PushBranch, IInv, Named, TypeOK, Commit
  <1>2. /\ heads' = [heads EXCEPT ![job[l]] = work[l]]
        /\ pc' = [pc EXCEPT ![l] = "open"]
        /\ UNCHANGED <<job, work, result, upstream, cred, main, trouble>>
    BY DEF PushBranch, PushGoes, world
  <1>3. pulls' \in [Branch -> [open : BOOLEAN, age : 0..2, auto : BOOLEAN,
                               checks : {"none", "running", "green", "red"}]]
    <2>1. ChecksOfPush \in {"none", "running"} BY DEF ChecksOfPush
    <2> QED BY <1>1, <2>1 DEF PushBranch, PushGoes, IInv, TypeOK
  <1>4. heads' \in [Branch -> Commit] BY <1>1, <1>2 DEF IInv, TypeOK, Commit
  <1>5. TypeOK' BY <1>2, <1>3, <1>4 DEF IInv, TypeOK, Commit
  <1>6. HeadsForward'
    <2> SUFFICES ASSUME NEW b \in Branch PROVE Forward(heads'[b], b.of)
      BY DEF HeadsForward, Forward
    <2>1. CASE b = job[l]
      BY <1>1, <1>2, <2>1 DEF IInv, TypeOK, WorkForward
    <2>2. CASE b # job[l]
      BY <1>2, <2>2 DEF IInv, TypeOK, HeadsForward
    <2> QED BY <2>1, <2>2
  <1>7. WorkForward' BY <1>2 DEF IInv, WorkForward, Forward
  <1>8. Named' BY <1>1, <1>2 DEF IInv, TypeOK, Named
  <1> QED BY <1>5, <1>6, <1>7, <1>8 DEF IInv

LEMMA BumpIInv ==
    ASSUME IInv, NEW l \in Lanes, Bump(l)
    PROVE  IInv'
  <1> USE UpdateAssumption
  <1>1. UNCHANGED <<upstream, cred, main, heads, pulls, trouble>>
    BY DEF Bump, world, forge
  <1>2. HeadsForward' BY <1>1 DEF IInv, HeadsForward, Forward
  <1>3. CASE ~Due(l, Worktree)
    <2>1. Ends(l, "green") BY <1>3 DEF Bump
    <2> QED BY <1>1, <1>2, <2>1, EndsIInv DEF IInv, TypeOK, Commit
  <1>4. CASE Due(l, Worktree)
    <2> DEFINE c == [base |-> main, own |-> Bumped(l, main)]
               b == BranchFor(l, main)
    <2>1. /\ job' = [job EXCEPT ![l] = b] /\ work' = [work EXCEPT ![l] = c]
          /\ pc' = [pc EXCEPT ![l] = "push"] /\ result' = result
      BY <1>4 DEF Bump, Worktree
    <2>2. main \in Pins BY DEF IInv, TypeOK
    <2>3. Bumped(l, main) \in Pins /\ b \in Branch /\ Forward(c, b.of)
      BY <1>4, <2>2, BumpedForward DEF IInv, Worktree
    <2>4. c \in Commit BY <2>2, <2>3 DEF Commit
    <2> HIDE DEF c, b
    <2>5. TypeOK' BY <1>1, <2>1, <2>3, <2>4 DEF IInv, TypeOK, Commit
    <2>6. WorkForward'
      <3> SUFFICES ASSUME NEW m \in Lanes PROVE Forward(work'[m], job'[m].of)
        BY DEF WorkForward, Forward
      <3>1. CASE m = l BY <2>1, <2>3, <3>1 DEF IInv, TypeOK
      <3>2. CASE m # l BY <2>1, <3>2 DEF IInv, TypeOK, WorkForward
      <3> QED BY <3>1, <3>2
    <2>7. Named' BY <2>1, <2>3 DEF IInv, TypeOK, Named
    <2> QED BY <1>2, <2>5, <2>6, <2>7 DEF IInv
  <1> QED BY <1>3, <1>4

\* Opening a pull request and scheduling its merge touch no pin.
LEMMA OpenedType ==
    ASSUME IInv, NEW b \in Branch, NEW auto \in BOOLEAN
    PROVE  Opened(b, auto) \in [Branch -> [open : BOOLEAN, age : 0..2, auto : BOOLEAN,
                                           checks : {"none", "running", "green", "red"}]]
  <1>1. ChecksOfPush \in {"none", "running"} BY DEF ChecksOfPush
  <1> QED BY <1>1 DEF Opened, IInv, TypeOK

LEMMA OpenIInv ==
    ASSUME IInv, NEW l \in Lanes, OpenPull(l) \/ ScheduleFails(l)
    PROVE  IInv'
  <1> USE UpdateAssumption
  <1>1. job[l] \in Branch BY DEF OpenPull, ScheduleFails, IInv, Named
  <1>2. PICK how \in {"green", "red"} : Ends(l, how)
    BY DEF OpenPull, ScheduleFails
  <1>3. /\ UNCHANGED <<upstream, cred, main, heads>>
        /\ trouble' \in 0..MaxTrouble
    <2>1. CASE OpenPull(l) BY <2>1 DEF OpenPull, world, IInv, TypeOK
    <2>2. CASE ScheduleFails(l) BY <2>2 DEF ScheduleFails, Trouble, world, IInv, TypeOK
    <2> QED BY <2>1, <2>2
  <1>4. pulls' \in [Branch -> [open : BOOLEAN, age : 0..2, auto : BOOLEAN,
                               checks : {"none", "running", "green", "red"}]]
    <2>1. pulls' = pulls \/ \E auto \in BOOLEAN : pulls' = Opened(job[l], auto)
      BY DEF OpenPull, ScheduleFails
    <2>2. CASE pulls' = pulls BY <2>2 DEF IInv, TypeOK
    <2>3. ASSUME NEW auto \in BOOLEAN, pulls' = Opened(job[l], auto)
          PROVE  pulls' \in [Branch -> [open : BOOLEAN, age : 0..2, auto : BOOLEAN,
                                        checks : {"none", "running", "green", "red"}]]
      BY <1>1, <2>3, OpenedType
    <2> QED BY <2>1, <2>2, <2>3
  <1>5. HeadsForward' BY <1>3 DEF IInv, HeadsForward, Forward
  <1> QED BY <1>2, <1>3, <1>4, <1>5, EndsIInv DEF IInv, TypeOK, Commit

\* A merge gives main what the branch changed and main did not.
LEMMA AutoMergeIInv ==
    ASSUME IInv, NEW b \in Branch, AutoMerge(b)
    PROVE  /\ IInv'
           /\ main'.net >= main.net /\ main'.uos >= main.uos
           /\ \/ VersionOf(main'.app) >= VersionOf(main.app)
              \/ b.of = "uos" /\ VersionOf(heads[b].base.app) > VersionOf(heads[b].own.app)
  <1> USE UpdateAssumption
  <1> DEFINE c == heads[b]
  <1>1. main \in Pins /\ c \in Commit /\ Forward(c, b.of)
    BY DEF IInv, TypeOK, HeadsForward, Commit
  <1>2. DOMAIN main = {"net", "uos", "app"} BY <1>1 DEF Pins
  <1>3. \A f \in {"net", "uos", "app"} :
            main'[f] = (IF f \in Touched(b) THEN c.own[f] ELSE main[f])
    BY <1>2 DEF AutoMerge
  <1>4. \A f \in {"net", "uos", "app"} :
            f \in Touched(b) <=> c.own[f] # c.base[f]
    BY DEF Touched
  <1>5. \A f \in Touched(b) : main[f] = c.base[f] \/ main[f] = c.own[f]
    BY DEF AutoMerge, Mergeable, Rebases
  <1>6. c \in [base : Pins, own : Pins] \/ c = NoHead BY <1>1 DEF Commit
  <1> HIDE DEF c
  <1>7. main' \in Pins
    <2>1. main' = [f \in {"net", "uos", "app"} |-> IF f \in Touched(b) THEN c.own[f] ELSE main[f]]
      BY <1>2 DEF AutoMerge, c
    <2>2. c = NoHead => Touched(b) = {} BY <1>4 DEF NoHead, Touched, c
    <2>3. /\ main'.net \in 1..VersionOf(MaxApp) /\ main'.uos \in 1..MaxUos
          /\ main'.app \in 1..MaxApp
      BY <1>1, <1>3, <1>6, <2>2 DEF Pins
    <2>4. main' = [net |-> main'.net, uos |-> main'.uos, app |-> main'.app]
      BY <2>1
    <2> QED BY <2>3, <2>4 DEF Pins
  <1>8. TypeOK'
    <2>1. heads' \in [Branch -> Commit] BY DEF AutoMerge, IInv, TypeOK, Commit
    <2>2. pulls' \in [Branch -> [open : BOOLEAN, age : 0..2, auto : BOOLEAN,
                                 checks : {"none", "running", "green", "red"}]]
      BY DEF AutoMerge, NoPull, IInv, TypeOK
    <2> QED BY <1>7, <2>1, <2>2 DEF AutoMerge, IInv, TypeOK, Commit, world, lanes
  <1>9. HeadsForward'
    <2> SUFFICES ASSUME NEW d \in Branch PROVE Forward(heads'[d], d.of)
      BY DEF HeadsForward, Forward
    <2>1. CASE d = b BY <2>1, NoHeadForward DEF AutoMerge, IInv, TypeOK
    <2>2. CASE d # b BY <2>2 DEF AutoMerge, IInv, TypeOK, HeadsForward
    <2> QED BY <2>1, <2>2
  <1>10. WorkForward' /\ Named'
    BY DEF AutoMerge, lanes, IInv, WorkForward, Forward, Named
  <1>11. main'.net >= main.net /\ main'.uos >= main.uos
    BY <1>1, <1>3, <1>4, <1>5, <1>6 DEF Forward, Pins, NoHead
  <1>12. \/ VersionOf(main'.app) >= VersionOf(main.app)
         \/ b.of = "uos" /\ VersionOf(c.base.app) > VersionOf(c.own.app)
    <2>1. VersionOf(main.app) \in Int /\ VersionOf(c.base.app) \in Int /\ VersionOf(c.own.app) \in Int
      BY <1>1, <1>6 DEF Pins, NoHead, VersionOf
    <2>2. main'.app = main.app \/ (main'.app = c.own.app /\ main.app = c.base.app)
      BY <1>3, <1>5
    <2> QED BY <1>1, <2>1, <2>2 DEF Forward
  <1> QED BY <1>8, <1>9, <1>10, <1>11, <1>12 DEF IInv, c

LEMMA NextIInv == IInv /\ [Next]_vars => IInv'
  <1> SUFFICES ASSUME IInv, [Next]_vars PROVE IInv' OBVIOUS
  <1> USE UpdateAssumption
  <1> DEFINE Pulls == [Branch -> [open : BOOLEAN, age : 0..2, auto : BOOLEAN,
                                  checks : {"none", "running", "green", "red"}]]
  <1>1. CASE Night
    <2>1. pulls' \in Pulls BY <1>1 DEF Night, IInv, TypeOK
    <2>2. pc' \in [Lanes -> {"off", "bump", "push", "open"}] BY <1>1 DEF Night
    <2>3. TypeOK' BY <1>1, <2>1, <2>2 DEF Night, IInv, TypeOK, world
    <2>4. Named' BY <1>1 DEF Night, Named
    <2> QED BY <1>1, <2>3, <2>4 DEF Night, IInv, WorkForward, HeadsForward, Forward
  <1>2. ASSUME NEW l \in Lanes, LaneStep(l) \/ CallFails(l) \/ ScheduleFails(l) PROVE IInv'
    <2>1. CASE CallFails(l)
      <3>1. Ends(l, "red") BY <2>1 DEF CallFails
      <3>2. /\ UNCHANGED <<upstream, cred, main, heads, pulls>>
            /\ trouble' \in 0..MaxTrouble
        BY <2>1 DEF CallFails, Trouble, world, forge, IInv, TypeOK
      <3>3. HeadsForward' BY <3>2 DEF IInv, HeadsForward, Forward
      <3> QED BY <3>1, <3>2, <3>3, EndsIInv DEF IInv, TypeOK, Commit
    <2> QED BY <1>2, <2>1, BumpIInv, PushBranchIInv, OpenIInv DEF LaneStep
  <1>3. ASSUME NEW b \in Branch,
               AutoMerge(b) \/ ClosePull(b) \/ ChecksEnd(b, "green") \/ ChecksEnd(b, "red")
        PROVE  IInv'
    <2>1. CASE ClosePull(b) \/ ChecksEnd(b, "green") \/ ChecksEnd(b, "red")
      <3>1. pulls' \in Pulls
        <4>1. CASE ClosePull(b) BY <4>1 DEF ClosePull, NoPull, IInv, TypeOK
        <4>2. ASSUME NEW how \in {"green", "red"}, ChecksEnd(b, how) PROVE pulls' \in Pulls
          BY <4>2 DEF ChecksEnd, IInv, TypeOK
        <4> QED BY <2>1, <4>1, <4>2
      <3>2. /\ UNCHANGED <<world, main, heads, lanes>>
            /\ trouble' \in 0..MaxTrouble
        BY <2>1 DEF ClosePull, ChecksEnd, Trouble, IInv, TypeOK
      <3> QED BY <3>1, <3>2
               DEF IInv, TypeOK, WorkForward, HeadsForward, Named, Forward, world, lanes
    <2> QED BY <1>3, <2>1, AutoMergeIInv
  <1>4. CASE (\E f \in {"uos", "app"} : Publish(f)) \/ CredBreaks \/ CredMended
    <2>1. UNCHANGED <<main, forge, lanes>> /\ trouble' \in 0..MaxTrouble
      BY <1>4 DEF Publish, CredBreaks, CredMended, Trouble, IInv, TypeOK
    <2>2. upstream' \in [uos : 1..MaxUos, app : 1..MaxApp]
      BY <1>4 DEF Publish, CredBreaks, CredMended, IInv, TypeOK
    <2>3. cred' \in {"good", "mute"}
      BY <1>4 DEF Publish, CredBreaks, CredMended, IInv, TypeOK
    <2> QED BY <2>1, <2>2, <2>3
             DEF IInv, TypeOK, WorkForward, HeadsForward, Named, Forward, forge, lanes
  <1>5. ASSUME NEW p \in Pins, NEW f \in DOMAIN p, EditPin(f, p[f]) PROVE IInv'
    <2>1. main' \in Pins BY <1>5 DEF EditPin, IInv, TypeOK, Pins
    <2>2. UNCHANGED <<world, forge, lanes>> /\ trouble' \in 0..MaxTrouble
      BY <1>5 DEF EditPin, Trouble, IInv, TypeOK
    <2> QED BY <2>1, <2>2
             DEF IInv, TypeOK, WorkForward, HeadsForward, Named, Forward, world, forge, lanes
  <1>6. CASE UNCHANGED vars
    BY <1>6 DEF vars, IInv, TypeOK, WorkForward, HeadsForward, Named, Forward, world, forge, lanes
  <1> QED BY <1>1, <1>2, <1>3, <1>4, <1>5, <1>6 DEF Next

\* Type correctness, for any bounds.
THEOREM LaneTypes == Spec => []TypeOK
  <1>1. Spec => []IInv BY InitIInv, NextIInv, PTL DEF Spec
  <1>2. IInv => TypeOK BY DEF IInv
  <1> QED BY <1>1, <1>2, PTL

\* No merge of a lane takes a pin back, whatever was merged, pinned by hand or
\* published since the lane read the pins (network.py:181, uos.py:150-158).
THEOREM MergesGoForward == Spec => PinsNeverGoBack
  <1> DEFINE Step == \A b \in Branch : AutoMerge(b) =>
                 /\ main'.net >= main.net /\ main'.uos >= main.uos
                 /\ \/ VersionOf(main'.app) >= VersionOf(main.app)
                    \/ b.of = "uos" /\ VersionOf(heads[b].base.app) > VersionOf(heads[b].own.app)
  <1>1. Spec => []IInv BY InitIInv, NextIInv, PTL DEF Spec
  <1>2. IInv => [Step]_vars BY AutoMergeIInv
  <1>3. Spec => [][Step]_vars BY <1>1, <1>2, PTL
  <1> QED BY <1>3 DEF PinsNeverGoBack
=============================================================================
