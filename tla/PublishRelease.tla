---------------------------- MODULE PublishRelease ----------------------------
(***************************************************************************)
(* What a release tag sets off (unifi_containers/release_plan.py,          *)
(* slide_tags.py, release.py, .github/workflows/unifi-os-release.yml).     *)
(*                                                                         *)
(* The mirror starts a run for every tag it gets, and runs overlap as they *)
(* come: the workflow has no concurrency group.  A run's matrix builds and *)
(* gates every architecture on its own runner; each leg plans for itself,  *)
(* against the tags its own clone has, and pushes its images one by one to *)
(* a staging package that all runs of the product share.  One more job     *)
(* stitches what is staged under the versioned names, slides the           *)
(* unqualified ones to what it stitched, and discards the staging package. *)
(* Any step may fail, and a run may be run again, in whole or in part.     *)
(* One product: the two share nothing.                                     *)
(***************************************************************************)
EXTENDS Integers, FiniteSets

CONSTANTS Arches,      \* the matrix
          Builds,      \* the releases there may be: an upstream version and a revision
          LastVariant, \* how many variants: base, sim, seeded, in the order they are stitched
          AtOnce,      \* bound: runs in progress at a time
          MaxTags,     \* bound: tags that arrive
          MaxEvents    \* bound: runs that begin, are run again or fail a step, and
                       \* tags made wrong by hand, all together

ASSUME PublishAssumption ==
    /\ Builds \subseteq [up : Nat \ {0}, rev : Nat \ {0}]
    /\ LastVariant \in Nat \ {0}
    /\ MaxEvents \in Nat

Variants  == 1..LastVariant
Upstreams == {t.up : t \in Builds}

\* An image of no build: what a reference that is not there resolves to.
Absent  == [up |-> 0, rev |-> 0]
Nothing == [a \in Arches |-> Absent]
Own(t)  == [a \in Arches |-> t]

\* A leg that has not begun.  saw: the tags its clone had.
NewLeg == [at |-> "todo", pushed |-> 0, saw |-> {}]

VARIABLES tags,    \* whether a tag has arrived, and agrees with what its commit pins
          run,     \* where the run of each tag is
          leg,     \* where its leg on each architecture is
          outs,    \* the outputs of its build job, those of the last leg to
                   \* finish: what follows from the tags that leg saw
          done,    \* how many steps its manifest job has made
          digest,  \* what each variant it stitched is made of
          staged,  \* the staging package: what each arch and variant is of
          version, \* the versioned names: what each arch of each is of
          floating,\* the unqualified names, the same way
          crossed, \* history: another run has written to the registry since this
                   \* one began with all its jobs
          events   \* history: bounded by MaxEvents

package == <<version, floating>>
vars    == <<tags, run, leg, outs, done, digest, staged, package, crossed, events>>

NoDigest == [i \in Variants |-> Nothing]

Init == /\ tags = [t \in Builds |-> "none"]
        /\ run = [t \in Builds |-> "none"]
        /\ leg = [t \in Builds |-> [a \in Arches |-> NewLeg]]
        /\ outs = [t \in Builds |-> {}]
        /\ done = [t \in Builds |-> 0]
        /\ digest = [t \in Builds |-> NoDigest]
        /\ staged = NoDigest
        /\ version = [i \in Variants |-> [u \in Upstreams |-> Nothing]]
        /\ floating = NoDigest
        /\ crossed = [t \in Builds |-> TRUE]
        /\ events = 0

Event == events < MaxEvents /\ events' = events + 1

-----------------------------------------------------------------------------
(* The plan, from the tags a clone has.                                    *)

\* gitops.tags of a full clone made now
Seen == {t \in Builds : tags[t] # "none"}

\* the order `packaging` puts builds in
Below(s, t) == s.up < t.up \/ (s.up = t.up /\ s.rev < t.rev)

\* Mutant of IsHighestBuild: every build publishes.
AnyBuild(t, S) == TRUE

\* is_highest_build: no later build of this version exists; emit says to publish.
IsHighestBuild(t, S) == \A s \in S : s.up = t.up => s.rev <= t.rev

\* is_highest_stable: it tops its product's releases
IsHighestStable(t, S) == \A s \in S : s = t \/ Below(s, t)

\* emit leaves the unqualified names to a build that publishes.
Tops(t, S) == IsHighestBuild(t, S) /\ IsHighestStable(t, S)

-----------------------------------------------------------------------------
(* The runs.                                                               *)

InProgress == {t \in Builds : run[t] \in {"build", "manifest"}}

\* What run t writes to the registry crosses every other run.
Crosses(t) == crossed' = [s \in Builds |-> s # t \/ crossed[s]]

\* Mutant of MatrixDone: the manifest job needs one leg, whichever.
OneLegDone(legs) == \E a \in Arches : legs[a].at = "done"

\* `needs: build`
MatrixDone(legs) == \A a \in Arches : legs[a].at = "done"

\* The manifest job needs every leg, and is skipped when the output says not to
\* publish.
Onward(t, legs, out) == IF ~MatrixDone(legs) THEN "build"
                        ELSE IF IsHighestBuild(t, out) THEN "manifest" ELSE "done"

\* The mirror syncs a new tag and queues a run for it.  A tag made by hand may
\* name a version its commit does not pin.
Sync(t) == /\ tags[t] = "none" /\ Cardinality(Seen) < MaxTags
           /\ \/ tags' = [tags EXCEPT ![t] = "right"] /\ UNCHANGED events
              \/ tags' = [tags EXCEPT ![t] = "wrong"] /\ Event
           /\ run' = [run EXCEPT ![t] = "queued"]
           /\ UNCHANGED <<leg, outs, done, digest, staged, package, crossed>>

\* A run goes from the legs in `again`, and the manifest job after them.
RunJobs(t, again) ==
    /\ Cardinality(InProgress) < AtOnce /\ Event
    /\ leg' = [leg EXCEPT ![t] = [a \in Arches |-> IF a \in again THEN NewLeg ELSE leg[t][a]]]
    /\ outs' = [outs EXCEPT ![t] = IF again = Arches THEN {} ELSE outs[t]]
    /\ run' = [run EXCEPT ![t] = Onward(t, leg'[t], outs[t])]
    /\ crossed' = [crossed EXCEPT ![t] = again # Arches /\ crossed[t]]
    /\ UNCHANGED <<tags, done, digest, staged, package>>

Start(t) == run[t] = "queued" /\ RunJobs(t, Arches)

\* Somebody runs all the jobs again, the failed ones, or some that went well: those
\* that did not go well at least, and what needs them.  (A run that would only meet
\* the same wrong tag is left alone.)
Rerun(t, again) == /\ run[t] \in {"done", "failed"} /\ tags[t] = "right"
                   /\ \A a \in Arches \ again : leg[t][a].at = "done"
                   /\ RunJobs(t, again)

SetLeg(t, a, l) == leg' = [leg EXCEPT ![t] = [leg[t] EXCEPT ![a] = l]]

\* One leg that fails cancels the rest; what they pushed stays.
LegsStop(t) ==
    /\ run' = [run EXCEPT ![t] = "failed"]
    /\ leg' = [leg EXCEPT ![t] = [a \in Arches |-> IF leg[t][a].at = "done" THEN leg[t][a]
                                                   ELSE NewLeg]]

\* plan and emit: tag and pin must agree.
PlanLeg(t, a) ==
    /\ run[t] = "build" /\ leg[t][a].at = "todo"
    /\ IF tags[t] = "wrong" THEN LegsStop(t)
       ELSE /\ SetLeg(t, a, [at |-> "planned", pushed |-> 0, saw |-> Seen])
            /\ UNCHANGED run
    /\ UNCHANGED <<tags, outs, done, digest, staged, package, crossed, events>>

\* The leg has built and gated its images, and pushes the next of them, unless its
\* own plan says not to publish.
PushImage(t, a) ==
    LET l == leg[t][a]
        i == l.pushed + 1
    IN /\ run[t] = "build" /\ l.at = "planned"
       /\ IsHighestBuild(t, l.saw) /\ i \in Variants
       /\ staged' = [staged EXCEPT ![i] = [staged[i] EXCEPT ![a] = t]]
       /\ SetLeg(t, a, [at |-> "planned", pushed |-> i, saw |-> l.saw])
       /\ Crosses(t)
       /\ UNCHANGED <<tags, run, outs, done, digest, package, events>>

\* The leg's plan becomes the build job's output: the last leg to finish wins.
FinishLeg(t, a) ==
    LET l == leg[t][a]
    IN /\ run[t] = "build" /\ l.at = "planned"
       /\ IsHighestBuild(t, l.saw) => l.pushed = LastVariant
       /\ SetLeg(t, a, [at |-> "done", pushed |-> l.pushed, saw |-> l.saw])
       /\ outs' = [outs EXCEPT ![t] = l.saw]
       /\ run' = [run EXCEPT ![t] = Onward(t, leg'[t], l.saw)]
       /\ UNCHANGED <<tags, done, digest, staged, package, crossed, events>>

\* A leg fails its plan, its build or its gate, or between two pushes.
LegFails(t, a) == /\ run[t] = "build" /\ leg[t][a].at # "done" /\ Event
                  /\ LegsStop(t)
                  /\ UNCHANGED <<tags, outs, done, digest, staged, package, crossed>>

\* `if: always()`: the staging package goes, with whatever any run has put there, if
\* the token may delete it.
Discard(t) == \/ staged' = NoDigest /\ Crosses(t)
              \/ UNCHANGED <<staged, crossed>>

ManifestStep(t) == done' = [done EXCEPT ![t] = done[t] + 1]

\* The job is over, and what its runner knew is gone.
ManifestEnds(t, how) ==
    /\ run' = [run EXCEPT ![t] = how]
    /\ done' = [done EXCEPT ![t] = 0]
    /\ digest' = [digest EXCEPT ![t] = NoDigest]
    /\ Discard(t)

\* stitch, `imagetools create`: the next versioned name gets what is staged by now;
\* an image that is not there fails the job.
Create(t, i) ==
    /\ run[t] = "manifest" /\ done[t] = 2 * i - 2
    /\ IF \E a \in Arches : staged[i][a] = Absent
       THEN ManifestEnds(t, "failed") /\ UNCHANGED version
       ELSE /\ version' = [version EXCEPT ![i] = [version[i] EXCEPT ![t.up] = staged[i]]]
            /\ ManifestStep(t)
            /\ Crosses(t)
            /\ UNCHANGED <<run, digest, staged>>
    /\ UNCHANGED <<tags, leg, outs, floating, events>>

\* ... and `imagetools inspect`: the digest is read back from under that name.
Inspect(t, i) ==
    /\ run[t] = "manifest" /\ done[t] = 2 * i - 1
    /\ digest' = [digest EXCEPT ![t] = [digest[t] EXCEPT ![i] = version[i][t.up]]]
    /\ ManifestStep(t)
    /\ UNCHANGED <<tags, run, leg, outs, staged, package, crossed, events>>

\* Mutant of StepsOf: a name without a digest is skipped.
StepsOfVersion(t) == 2 * LastVariant

\* The versioned names are stitched and, for the highest, the unqualified slid.
StepsOf(t) == IF Tops(t, outs[t]) THEN 3 * LastVariant ELSE 2 * LastVariant

\* slide: the unqualified names the plan gave, one after the other, each to the
\* digest of the variant it tracks
Slide(t, i) ==
    /\ run[t] = "manifest" /\ done[t] = 2 * LastVariant + i - 1 /\ done[t] < StepsOf(t)
    /\ floating' = [floating EXCEPT ![i] = digest[t][i]]
    /\ ManifestStep(t)
    /\ Crosses(t)
    /\ UNCHANGED <<tags, run, leg, outs, digest, staged, version, events>>

\* Every name has moved.
Finish(t) == /\ run[t] = "manifest" /\ done[t] = StepsOf(t)
             /\ ManifestEnds(t, "done")
             /\ UNCHANGED <<tags, leg, outs, package, events>>

\* The manifest job fails between two of its steps.
ManifestFails(t) == /\ run[t] = "manifest" /\ Event
                    /\ ManifestEnds(t, "failed")
                    /\ UNCHANGED <<tags, leg, outs, package>>

-----------------------------------------------------------------------------

Legs(t)     == \E a \in Arches :
                   PlanLeg(t, a) \/ PushImage(t, a) \/ FinishLeg(t, a) \/ LegFails(t, a)
Manifest(t) == \/ \E i \in Variants : Create(t, i) \/ Inspect(t, i) \/ Slide(t, i)
               \/ Finish(t) \/ ManifestFails(t)

Next == \E t \in Builds : \/ Sync(t) \/ Start(t) \/ \E again \in SUBSET Arches : Rerun(t, again)
                          \/ Legs(t) \/ Manifest(t)

Spec == Init /\ [][Next]_vars

-----------------------------------------------------------------------------
(* What holds.                                                             *)

Images == [Arches -> Builds \cup {Absent}]

TypeOK ==
    /\ tags \in [Builds -> {"none", "right", "wrong"}]
    /\ run \in [Builds -> {"none", "queued", "build", "manifest", "done", "failed"}]
    /\ leg \in [Builds -> [Arches -> [at : {"todo", "planned", "done"}, pushed : 0..LastVariant,
                                      saw : SUBSET Builds]]]
    /\ outs \in [Builds -> SUBSET Builds]
    /\ done \in [Builds -> 0..(3 * LastVariant)]
    /\ digest \in [Builds -> [Variants -> Images]]
    /\ staged \in [Variants -> Images]
    /\ version \in [Variants -> [Upstreams -> Images]]
    /\ floating \in [Variants -> Images]
    /\ crossed \in [Builds -> BOOLEAN]
    /\ events \in 0..MaxEvents

\* Run t moves these names.
MovesVersion(t, i)  == done'[t] # done[t] /\ version'[i] # version[i]
MovesFloating(t, i) == done'[t] # done[t] /\ floating'[i] # floating[i]

\* A run that no other has crossed, and whose legs all planned to publish, gives
\* every name its own build on every architecture, whatever earlier runs left staged
\* and whichever of its jobs are run again (unifi-os-release.yml:37-38, 158-176).
StitchesItsOwn ==
    [][\A t \in Builds, i \in Variants :
          ~crossed[t] /\ (\A a \in Arches : IsHighestBuild(t, leg[t][a].saw)) =>
              /\ MovesVersion(t, i) => version'[i][t.up] = Own(t)
              /\ MovesFloating(t, i) => floating'[i] = Own(t)]_vars

\* However runs overlap and whatever is run again, a run takes a name away from a
\* higher build only if the tag of that build was not there yet when the run planned
\* (release.py:97-104, slide_tags.py:49-68).
NothingSeenIsPassedBack ==
    [][\A t \in Builds, i \in Variants, a \in Arches :
          /\ MovesVersion(t, i) =>
                LET s == version[i][t.up][a]
                IN s.up = t.up /\ s.rev > t.rev => s \notin outs[t]
          /\ MovesFloating(t, i) =>
                (Below(t, floating[i][a]) => floating[i][a] \notin outs[t])]_vars

\* A run that ends green uncrossed leaves the registry right, whatever overlapping
\* runs had made of it: if by then its build is the highest of its version, all the
\* names of that version are that build on every architecture, and if it is the
\* highest of all, so are the unqualified ones (README.md:44-48,
\* slide_tags.py:49-54).
GreenMeansPublished ==
    [][\A t \in Builds :
          run[t] \in {"build", "manifest"} /\ run'[t] = "done" /\ ~crossed[t] =>
              \A i \in Variants :
                  /\ IsHighestBuild(t, Seen) => version'[i][t.up] = Own(t)
                  /\ IsHighestStable(t, Seen) => floating'[i] = Own(t)]_vars
=============================================================================
