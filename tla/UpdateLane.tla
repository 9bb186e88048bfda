------------------------------ MODULE UpdateLane ------------------------------
(***************************************************************************)
(* The nightly pin updater (unifi_containers/update.py, its two updaters,  *)
(* the forge client and the git plumbing they use).                        *)
(*                                                                         *)
(* Each lane is a job on its own checkout: it puts the worktree on main,   *)
(* asks the firmware API what is current, commits the new pins to a branch *)
(* named for the version, forces it to the forge, opens a pull request or  *)
(* finds last night's, schedules its merge for when the checks are green,  *)
(* and ends red when it has waited too long.  The lanes run at the same    *)
(* time as each other, as the forge's checks and merges, as upstream's     *)
(* publishing and as people; any call may fail.                            *)
(***************************************************************************)
EXTENDS Integers, FiniteSets

CONSTANTS FirstApp,  \* the application package at the start
          MaxUos,    \* bound: UniFi OS Server versions
          MaxApp,    \* bound: application packages, two of each version
          MaxTrouble \* bound: failed calls, red checks, lost credentials, edits
                     \* of main and pull requests closed by hand

ASSUME UpdateAssumption ==
    /\ MaxUos \in Nat \ {0} /\ MaxApp \in Nat \ {0} /\ FirstApp \in 1..MaxApp
    /\ MaxTrouble \in Nat

Lanes == {"stable", "uos"}

\* A package of the application is a version and how often it was repackaged;
\* the standalone application has the version alone (app_version_moved).
VersionOf(app) == (app + 1) \div 2

Pins   == [net : 1..VersionOf(MaxApp), uos : 1..MaxUos, app : 1..MaxApp]
Branch == [lane : {"stable"}, of : {"net"}, version : 1..VersionOf(MaxApp)] \cup
          [lane : {"uos"}, of : {"uos"}, version : 1..MaxUos] \cup
          [lane : {"uos"}, of : {"app"}, version : 1..MaxApp]

VARIABLES upstream, \* what the release channel of the firmware API has newest
          main,     \* the pins on main
          heads,    \* each branch on the forge: the pins it was cut from and its own
          pulls,    \* each open pull request, by its branch
          cred,     \* what the lane's credential does: "mute" pushes start no check
          pc,       \* where each lane's job is
          job,      \* the branch the job is about
          work,     \* the commit in its worktree
          result,   \* how its last job ended
          trouble   \* history: how often something went wrong or was edited

forge == <<heads, pulls>>
lanes == <<pc, job, work, result>>
world == <<upstream, cred>>
vars  == <<world, main, forge, lanes, trouble>>

NoHead == [base |-> [net |-> 0, uos |-> 0, app |-> 0],
           own  |-> [net |-> 0, uos |-> 0, app |-> 0]]
NoPull == [open |-> FALSE, age |-> 0, auto |-> FALSE, checks |-> "none"]
NoJob  == [lane |-> "", of |-> "", version |-> 0]

Init == /\ upstream = [uos |-> 1, app |-> FirstApp]
        /\ main = [net |-> VersionOf(FirstApp), uos |-> 1, app |-> FirstApp]
        /\ heads = [b \in Branch |-> NoHead]
        /\ pulls = [b \in Branch |-> NoPull]
        /\ cred = "good"
        /\ pc = [l \in Lanes |-> "off"]
        /\ job = [l \in Lanes |-> NoJob]
        /\ work = [l \in Lanes |-> NoHead]
        /\ result = [l \in Lanes |-> "green"]
        /\ trouble = 0

-----------------------------------------------------------------------------
(* What the updaters read and write.                                       *)

\* parse_ga_version: the newest in the release channel, on any platform
GaVersion == VersionOf(upstream.app)

\* Mutant of NetMoved: another version than the pinned one is taken for newer.
NetDiffers(pins) == GaVersion # pins.net

\* network.bump: read_pins and parse_ga_version
NetMoved(pins) == GaVersion > pins.net

\* uos.bump: parse_release of both platforms
UosMoved(pins) == upstream.uos > pins.uos

\* app_version_moved: any other package of an equal or newer version
AppMoved(pins) == /\ upstream.app # pins.app
                  /\ VersionOf(upstream.app) >= VersionOf(pins.app)

\* bump: the new pins.  The application's is written whenever a bump is made.
Bumped(l, pins) ==
    IF l = "stable" THEN [pins EXCEPT !.net = GaVersion]
    ELSE [pins EXCEPT !.uos = IF UosMoved(pins) THEN upstream.uos ELSE @,
                      !.app = upstream.app]

Due(l, pins) == IF l = "stable" THEN NetMoved(pins) ELSE UosMoved(pins) \/ AppMoved(pins)

\* plan: the branch carries the version bump returned
BranchFor(l, pins) ==
    IF l = "stable" THEN [lane |-> l, of |-> "net", version |-> GaVersion]
    ELSE IF UosMoved(pins) THEN [lane |-> l, of |-> "uos", version |-> upstream.uos]
    ELSE [lane |-> l, of |-> "app", version |-> upstream.app]

-----------------------------------------------------------------------------
(* What the forge merges.                                                  *)

Touched(b) == {f \in {"net", "uos", "app"} : heads[b].own[f] # heads[b].base[f]}

\* A rebase applies what the branch changed, unless main changed it otherwise
\* since, or changed the neighbouring row of the README's table of versions.
Rows == {"net", "uos"}
Rebases(b) ==
    LET base == heads[b].base
        own  == heads[b].own
    IN /\ \A f \in Touched(b) : main[f] \in {base[f], own[f]}
       /\ Touched(b) \cap Rows # {} => \A f \in Rows : main[f] \in {base[f], own[f]}

Mergeable(b) == pulls[b].open /\ pulls[b].auto /\ pulls[b].checks = "green" /\ Rebases(b)

-----------------------------------------------------------------------------
(* run_lane, one step for each call that leaves the job.                   *)

\* The job's checkout goes with it.
Ends(l, how) == /\ pc' = [pc EXCEPT ![l] = "off"]
                /\ job' = [job EXCEPT ![l] = NoJob]
                /\ work' = [work EXCEPT ![l] = NoHead]
                /\ result' = [result EXCEPT ![l] = how]

Trouble == trouble < MaxTrouble /\ trouble' = trouble + 1

\* Any call of a job fails and its exception ends it; so does an API read in the
\* middle of a publish, when the architectures disagree (check_versions_match).
CallFails(l) ==
    /\ pc[l] # "off" /\ Trouble
    /\ Ends(l, "red")
    /\ UNCHANGED <<world, main, forge>>

\* The cron starts both jobs; open pull requests are a day older.  Checks may
\* still run and a merge be pending from the night before, not from earlier.
Night ==
    /\ \A l \in Lanes : pc[l] = "off"
    /\ \A b \in Branch : pulls[b].age > 0 => pulls[b].checks # "running" /\ ~Mergeable(b)
    /\ pc' = [l \in Lanes |-> "bump"]
    /\ pulls' = [b \in Branch |-> IF pulls[b].open /\ pulls[b].age < 2
                                  THEN [pulls[b] EXCEPT !.age = @ + 1] ELSE pulls[b]]
    /\ UNCHANGED <<world, main, heads, job, work, result, trouble>>

\* reset_to_remote_branch: main as the forge has it, not what a job before left
Worktree == main

\* bump and plan; then checkout_new_branch and commit, which nobody else sees
Bump(l) ==
    /\ pc[l] = "bump"
    /\ IF ~Due(l, Worktree)
       THEN Ends(l, "green")
       ELSE /\ job' = [job EXCEPT ![l] = BranchFor(l, Worktree)]
            /\ work' = [work EXCEPT ![l] = [base |-> Worktree, own |-> Bumped(l, Worktree)]]
            /\ pc' = [pc EXCEPT ![l] = "push"]
            /\ UNCHANGED result
    /\ UNCHANGED <<world, main, forge, trouble>>

\* Mutant of PushGoes: the push is not forced, and last night's branch is
\* no ancestor of tonight's.
PushGoesOnce(b) == heads[b] = NoHead

\* push(force=True)
PushGoes(b) == TRUE

ChecksOfPush == IF cred = "good" THEN "running" ELSE "none"

\* A new head starts the checks of its pull request over, unless the credential
\* it is pushed with starts none.
PushBranch(l) ==
    LET b == job[l]
    IN /\ pc[l] = "push"
       /\ IF PushGoes(b)
          THEN /\ heads' = [heads EXCEPT ![b] = work[l]]
               /\ pulls' = IF pulls[b].open
                           THEN [pulls EXCEPT ![b].checks = ChecksOfPush] ELSE pulls
               /\ pc' = [pc EXCEPT ![l] = "open"]
               /\ UNCHANGED <<job, work, result>>
          ELSE Ends(l, "red") /\ UNCHANGED forge
       /\ UNCHANGED <<world, main, trouble>>

\* open_pull: create_pull, or find_pull when the forge refuses a second one
Opened(b, auto) ==
    [pulls EXCEPT ![b] = IF pulls[b].open THEN [@ EXCEPT !.auto = @ \/ auto]
                         ELSE [open |-> TRUE, age |-> 0, auto |-> auto, checks |-> ChecksOfPush]]

\* Mutant of StaleAnswers: what the forge does not say is all there is.
NeverStale(b) == {FALSE}

\* hours_open against STALE_AFTER_HOURS: the pull request opened by the night
\* before is a few minutes to either side of 24 hours old
StaleAnswers(b) == IF pulls[b].age = 0 THEN {FALSE}
                   ELSE IF pulls[b].age = 1 THEN BOOLEAN ELSE {TRUE}

\* open_pull, merge_when_green (scheduled already, 409, is success) and, last,
\* check_not_stalled.  Merged since the push, the branch is gone and there is
\* nothing to open or find.
OpenPull(l) ==
    LET b == job[l]
    IN /\ pc[l] = "open"
       /\ IF heads[b] = NoHead
          THEN Ends(l, "red") /\ UNCHANGED pulls
          ELSE /\ pulls' = Opened(b, TRUE)
               /\ \E stale \in StaleAnswers(b) : Ends(l, IF stale THEN "red" ELSE "green")
       /\ UNCHANGED <<world, main, heads, trouble>>

\* The pull request is open, and the call that schedules its merge fails.
ScheduleFails(l) ==
    /\ pc[l] = "open" /\ heads[job[l]] # NoHead /\ Trouble
    /\ pulls' = Opened(job[l], FALSE)
    /\ Ends(l, "red")
    /\ UNCHANGED <<world, main, heads>>

LaneStep(l) == \/ Bump(l) \/ PushBranch(l) \/ OpenPull(l)

-----------------------------------------------------------------------------
(* The forge.                                                              *)

ChecksEnd(b, how) ==
    /\ pulls[b].open /\ pulls[b].checks = "running"
    /\ IF how = "red" THEN Trouble ELSE UNCHANGED trouble
    /\ pulls' = [pulls EXCEPT ![b].checks = how]
    /\ UNCHANGED <<world, main, heads, lanes>>

AutoMerge(b) ==
    /\ Mergeable(b)
    /\ main' = [f \in DOMAIN main |-> IF f \in Touched(b) THEN heads[b].own[f] ELSE main[f]]
    /\ heads' = [heads EXCEPT ![b] = NoHead]
    /\ pulls' = [pulls EXCEPT ![b] = NoPull]
    /\ UNCHANGED <<world, lanes, trouble>>

-----------------------------------------------------------------------------
(* Upstream, the credential and people.                                    *)

\* Upstream publishes.  (Only a lane about to read it notices: the guard leaves
\* out the orders that differ in nothing else; so does that of the credential.)
Publish(f) ==
    /\ \E l \in Lanes : pc[l] = "bump"
    /\ upstream[f] < IF f = "uos" THEN MaxUos ELSE MaxApp
    /\ upstream' = [upstream EXCEPT ![f] = @ + 1]
    /\ UNCHANGED <<cred, main, forge, lanes, trouble>>

\* The credential stops starting checks, for good or until it is replaced.
CredBreaks == /\ \E l \in Lanes : pc[l] \in {"push", "open"}
              /\ cred = "good" /\ Trouble
              /\ cred' = "mute"
              /\ UNCHANGED <<upstream, main, forge, lanes>>

CredMended == /\ \E l \in Lanes : pc[l] \in {"push", "open"}
              /\ cred = "mute"
              /\ cred' = "good"
              /\ UNCHANGED <<upstream, main, forge, lanes, trouble>>

\* Somebody pins another version by hand, or closes a pull request.
EditPin(f, v) == /\ Trouble /\ v # main[f]
                 /\ main' = [main EXCEPT ![f] = v]
                 /\ UNCHANGED <<world, forge, lanes>>

ClosePull(b) == /\ Trouble /\ pulls[b].open
                /\ pulls' = [pulls EXCEPT ![b] = NoPull]
                /\ UNCHANGED <<world, main, heads, lanes>>

-----------------------------------------------------------------------------

Next == \/ Night
        \/ \E l \in Lanes : LaneStep(l) \/ CallFails(l) \/ ScheduleFails(l)
        \/ \E b \in Branch : \/ AutoMerge(b) \/ ClosePull(b)
                             \/ \E how \in {"green", "red"} : ChecksEnd(b, how)
        \/ \E f \in {"uos", "app"} : Publish(f)
        \/ CredBreaks \/ CredMended
        \/ \E p \in Pins : \E f \in DOMAIN p : EditPin(f, p[f])

Spec == Init /\ [][Next]_vars

\* Nights come, jobs go on, and the forge ends the checks it started and makes the
\* merges it promised.
FairSpec == /\ Spec
            /\ WF_vars(Night)
            /\ \A l \in Lanes : WF_vars(LaneStep(l))
            /\ \A b \in Branch : /\ WF_vars(AutoMerge(b))
                                 /\ WF_vars(ChecksEnd(b, "green") \/ ChecksEnd(b, "red"))

-----------------------------------------------------------------------------
(* What holds.                                                             *)

TypeOK ==
    /\ upstream \in [uos : 1..MaxUos, app : 1..MaxApp]
    /\ main \in Pins
    /\ heads \in [Branch -> [base : Pins, own : Pins] \cup {NoHead}]
    /\ pulls \in [Branch -> [open : BOOLEAN, age : 0..2, auto : BOOLEAN,
                             checks : {"none", "running", "green", "red"}]]
    /\ cred \in {"good", "mute"}
    /\ pc \in [Lanes -> {"off", "bump", "push", "open"}]
    /\ job \in [Lanes -> Branch \cup {NoJob}]
    /\ work \in [Lanes -> [base : Pins, own : Pins] \cup {NoHead}]
    /\ result \in [Lanes -> {"green", "red"}]
    /\ trouble \in 0..MaxTrouble

\* Nothing a lane brings to main takes a pin back, whatever was merged, pinned by
\* hand or published since the lane looked.  Only an application that was pinned
\* ahead of the release channel when the branch was cut may go back, with a
\* release of UniFi OS Server (network.py:181, uos.py:150-158).
PinsNeverGoBack ==
    [][\A b \in Branch : AutoMerge(b) =>
          /\ main'.net >= main.net /\ main'.uos >= main.uos
          /\ \/ VersionOf(main'.app) >= VersionOf(main.app)
             \/ b.of = "uos" /\ VersionOf(heads[b].base.app) > VersionOf(heads[b].own.app)]_vars

\* The lane has nothing to do: main pins what upstream has, or is ahead of it.
Current(l) == ~Due(l, main)

\* Once the credential is good for good, both lanes' pins reach upstream's, past
\* red checks, failed calls, conflicting bumps and nights that were missed.
CatchesUp ==
    <>[](cred = "good") => <>[](\A l \in Lanes : Current(l))

\* A lane that is due and does not land ends red again and again: a freeze never
\* stays green (update.py:79-87).
WedgeIsReported == \A l \in Lanes : []<>(Current(l) \/ result[l] = "red")
=============================================================================
