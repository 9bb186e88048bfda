-------------------------- MODULE PublishReleaseProofs --------------------------
(***************************************************************************)
(* What release runs keep for any matrix, releases and variants, however   *)
(* many runs overlap, whatever fails and whatever is run again: the type   *)
(* invariant, and the three properties of the names.                       *)
(***************************************************************************)
EXTENDS PublishRelease, TLAPS

Leg == [at : {"todo", "planned", "done"}, pushed : 0..LastVariant, saw : SUBSET Builds]

\* Every leg of run t planned to publish.
Publishing(t) == \A a \in Arches : IsHighestBuild(t, leg[t][a].saw)

\* A run has its tag, and what it planned against was there and still is.
SawWhatWas(t) == /\ run[t] # "none" => t \in Seen
                 /\ outs[t] \subseteq Seen
                 /\ \A a \in Arches : leg[t][a].saw \subseteq Seen

\* A leg that publishes is done when its images are pushed; the manifest job starts
\* when all legs are, if the last of them said so, and from its first step.
InOrder(t) ==
    /\ \A a \in Arches : leg[t][a].at = "done" /\ IsHighestBuild(t, leg[t][a].saw) =>
                             leg[t][a].pushed = LastVariant
    /\ run[t] = "manifest" => MatrixDone(leg[t]) /\ IsHighestBuild(t, outs[t])
    /\ run[t] # "manifest" => done[t] = 0

\* While no other run has crossed it, what a run pushed is staged as long as anything
\* is, and what it stitched and slid is its own.
StagedIsOwn(t) == \A a \in Arches, i \in Variants :
                      i <= leg[t][a].pushed => staged[i][a] \in {t, Absent}
MovedIsOwn(t) ==
    run[t] = "manifest" /\ Publishing(t) =>
        \A i \in Variants : /\ 2 * i - 1 <= done[t] => version[i][t.up] = Own(t)
                            /\ 2 * i <= done[t] => digest[t][i] = Own(t)
                            /\ 2 * LastVariant + i <= done[t] => floating[i] = Own(t)
Uncrossed(t) == ~crossed[t] => StagedIsOwn(t) /\ MovedIsOwn(t)

Good(t) == SawWhatWas(t) /\ InOrder(t) /\ Uncrossed(t)

IInv == TypeOK /\ \A t \in Builds : Good(t)

-----------------------------------------------------------------------------

LEMMA BuildFacts ==
    /\ \A t \in Builds : t.up \in Nat \ {0} /\ t.rev \in Nat \ {0} /\ t.up \in Upstreams
    /\ Absent \notin Builds
    /\ LastVariant \in Nat \ {0} /\ MaxEvents \in Nat
    /\ Nothing \in Images /\ NoDigest \in [Variants -> Images]
    /\ \A t \in Builds : Own(t) \in Images
  <1>1. \A t \in Builds : t \in [up : Nat \ {0}, rev : Nat \ {0}] BY PublishAssumption
  <1>2. Absent \notin Builds BY <1>1 DEF Absent
  <1>3. Nothing \in Images /\ NoDigest \in [Variants -> Images]
    BY DEF Nothing, NoDigest, Images
  <1> QED BY <1>1, <1>2, <1>3, PublishAssumption DEF Upstreams, Own, Images

LEMMA NewLegType == NewLeg \in Leg
  BY BuildFacts DEF NewLeg, Leg

\* A plan against fewer tags finds a build no lower.
LEMMA FewerTags ==
    ASSUME NEW t, NEW S, NEW R \in SUBSET S
    PROVE  /\ IsHighestBuild(t, S) => IsHighestBuild(t, R)
           /\ IsHighestStable(t, S) => IsHighestStable(t, R)
  BY DEF IsHighestBuild, IsHighestStable

\* The highest of all is the highest of its version.
LEMMA TopIsHighest ==
    ASSUME NEW t \in Builds, NEW S \in SUBSET Builds, IsHighestStable(t, S)
    PROVE  IsHighestBuild(t, S)
  <1> SUFFICES ASSUME NEW s \in S, s.up = t.up PROVE s.rev <= t.rev
    BY DEF IsHighestBuild
  <1>1. s.up \in Nat /\ t.up \in Nat /\ s.rev \in Nat /\ t.rev \in Nat BY BuildFacts
  <1>2. s = t \/ Below(s, t) BY DEF IsHighestStable
  <1> QED BY <1>1, <1>2 DEF Below

LEMMA InitIInv == Init => IInv
  <1> SUFFICES ASSUME Init PROVE IInv OBVIOUS
  <1>1. leg \in [Builds -> [Arches -> Leg]] BY NewLegType DEF Init
  <1>2. TypeOK
    <2>1. /\ tags \in [Builds -> {"none", "right", "wrong"}]
          /\ run \in [Builds -> {"none", "queued", "build", "manifest", "done", "failed"}]
          /\ outs \in [Builds -> SUBSET Builds] /\ crossed \in [Builds -> BOOLEAN]
      BY DEF Init
    <2>2. done \in [Builds -> 0..(3 * LastVariant)] /\ events \in 0..MaxEvents
      <3>1. 0 \in 0..(3 * LastVariant) /\ 0 \in 0..MaxEvents BY BuildFacts
      <3> QED BY <3>1 DEF Init
    <2>3. digest \in [Builds -> [Variants -> Images]] /\ staged \in [Variants -> Images]
          /\ floating \in [Variants -> Images]
      BY BuildFacts DEF Init
    <2>4. version \in [Variants -> [Upstreams -> Images]] BY BuildFacts DEF Init
    <2> QED BY <1>1, <2>1, <2>2, <2>3, <2>4 DEF TypeOK, Leg
  <1>3. ASSUME NEW t \in Builds PROVE Good(t)
    <2>1. /\ run[t] = "none" /\ outs[t] = {} /\ done[t] = 0 /\ crossed[t] = TRUE
          /\ \A a \in Arches : leg[t][a] = NewLeg
      BY DEF Init
    <2>2. NewLeg.saw = {} /\ NewLeg.at = "todo" BY DEF NewLeg
    <2>3. SawWhatWas(t) BY <2>1, <2>2 DEF SawWhatWas
    <2>4. InOrder(t) BY <2>1, <2>2 DEF InOrder
    <2> QED BY <2>1, <2>3, <2>4 DEF Good, Uncrossed
  <1> QED BY <1>2, <1>3 DEF IInv

\* What one run does leaves the others as they were, or crosses them.
LEMMA OthersKeep ==
    ASSUME IInv, NEW s \in Builds,
           leg'[s] = leg[s], run'[s] = run[s], outs'[s] = outs[s],
           done'[s] = done[s], digest'[s] = digest[s], Seen \subseteq Seen',
           crossed'[s] = TRUE
               \/ (crossed'[s] = crossed[s] /\ UNCHANGED <<staged, version, floating>>)
    PROVE  Good(s)'
  <1>1. SawWhatWas(s) /\ InOrder(s) /\ Uncrossed(s) BY DEF IInv, Good
  <1>2. SawWhatWas(s)' BY <1>1 DEF SawWhatWas
  <1>3. InOrder(s)' BY <1>1 DEF InOrder, MatrixDone
  <1>4. Uncrossed(s)'
    <2>1. CASE crossed'[s] = TRUE BY <2>1 DEF Uncrossed
    <2>2. CASE crossed'[s] = crossed[s] /\ UNCHANGED <<staged, version, floating>>
      <3>1. StagedIsOwn(s)' <=> StagedIsOwn(s) BY <2>2 DEF StagedIsOwn
      <3>2. MovedIsOwn(s)' <=> MovedIsOwn(s) BY <2>2 DEF MovedIsOwn, Publishing
      <3> QED BY <1>1, <2>2, <3>1, <3>2 DEF Uncrossed
    <2> QED BY <2>1, <2>2
  <1> QED BY <1>2, <1>3, <1>4 DEF Good

\* The legs of a run are set, and nothing it published is touched.
LEMMA SetLegType ==
    ASSUME TypeOK, NEW t \in Builds, NEW a \in Arches, NEW l \in Leg, SetLeg(t, a, l)
    PROVE  /\ leg' \in [Builds -> [Arches -> Leg]]
           /\ leg'[t][a] = l
           /\ \A b \in Arches : b # a => leg'[t][b] = leg[t][b]
           /\ \A s \in Builds : s # t => leg'[s] = leg[s]
  BY DEF TypeOK, SetLeg, Leg

LEMMA CrossesOthers ==
    ASSUME TypeOK, NEW t \in Builds, Crosses(t)
    PROVE  /\ crossed' \in [Builds -> BOOLEAN] /\ crossed'[t] = crossed[t]
           /\ \A s \in Builds : s # t => crossed'[s] = TRUE
  <1>1. crossed[t] \in BOOLEAN BY DEF TypeOK
  <1>2. crossed' = [s \in Builds |-> s # t \/ crossed[s]] BY DEF Crosses
  <1>3. crossed'[t] = (t # t \/ crossed[t]) BY <1>2
  <1>4. crossed'[t] = crossed[t] BY <1>1, <1>3
  <1>5. \A s \in Builds : s # t => crossed'[s] = TRUE BY <1>2
  <1>6. crossed' \in [Builds -> BOOLEAN]
    <2>1. \A s \in Builds : (s # t \/ crossed[s]) \in BOOLEAN OBVIOUS
    <2> QED BY <1>2, <2>1
  <1> QED BY <1>4, <1>5, <1>6

LEMMA EventType == ASSUME TypeOK, Event PROVE events' \in 0..MaxEvents
  BY BuildFacts DEF TypeOK, Event

\* The legs of a run that stops: done, or not begun.
LEMMA LegsStopType ==
    ASSUME TypeOK, NEW t \in Builds, LegsStop(t)
    PROVE  /\ run' = [run EXCEPT ![t] = "failed"]
           /\ leg' \in [Builds -> [Arches -> Leg]]
           /\ \A b \in Arches : leg'[t][b] = IF leg[t][b].at = "done" THEN leg[t][b] ELSE NewLeg
           /\ \A s \in Builds : s # t => leg'[s] = leg[s]
  <1>1. \A b \in Arches : (IF leg[t][b].at = "done" THEN leg[t][b] ELSE NewLeg) \in Leg
    BY NewLegType DEF TypeOK, Leg
  <1> QED BY <1>1 DEF TypeOK, LegsStop, Leg

\* A run goes on to where a run may be.
LEMMA OnwardIs ==
    ASSUME NEW t, NEW l, NEW S
    PROVE  /\ Onward(t, l, S) \in {"build", "manifest", "done"}
           /\ Onward(t, l, S) = "manifest" => MatrixDone(l) /\ IsHighestBuild(t, S)
           /\ Onward(t, l, S) = "done" => ~IsHighestBuild(t, S)
  BY DEF Onward

LEMMA SameSeen == ASSUME UNCHANGED tags PROVE Seen' = Seen
  BY DEF Seen

-----------------------------------------------------------------------------
(* One lemma for each step.                                                *)

LEMMA SyncIInv == ASSUME IInv, NEW t \in Builds, Sync(t) PROVE IInv'
  <1>1. /\ run' = [run EXCEPT ![t] = "queued"]
        /\ UNCHANGED <<leg, outs, done, digest, staged, version, floating, crossed>>
    BY DEF Sync, package
  <1>2. tags' \in [Builds -> {"none", "right", "wrong"}] BY DEF Sync, IInv, TypeOK
  <1>3. events' \in 0..MaxEvents
    <2>1. CASE UNCHANGED events BY <2>1 DEF IInv, TypeOK
    <2>2. CASE Event BY <2>2, EventType DEF IInv
    <2> QED BY <2>1, <2>2 DEF Sync
  <1>4. run' \in [Builds -> {"none", "queued", "build", "manifest", "done", "failed"}]
    BY <1>1 DEF IInv, TypeOK
  <1>5. TypeOK' BY <1>1, <1>2, <1>3, <1>4 DEF IInv, TypeOK
  <1>6. Seen \subseteq Seen'
    <2> SUFFICES ASSUME NEW s \in Seen PROVE s \in Seen' OBVIOUS
    <2>1. s \in Builds /\ tags[s] # "none" /\ s # t BY DEF Seen, Sync
    <2>2. tags'[s] = tags[s] BY <2>1 DEF Sync, IInv, TypeOK
    <2> QED BY <2>1, <2>2 DEF Seen
  <1>7. ASSUME NEW s \in Builds PROVE Good(s)'
    <2>1. CASE s # t
      <3>1. run'[s] = run[s] BY <1>1, <2>1 DEF IInv, TypeOK
      <3> QED BY <1>1, <1>6, <3>1, OthersKeep
    <2>2. CASE s = t
      <3>1. SawWhatWas(t) /\ InOrder(t) /\ Uncrossed(t) BY DEF IInv, Good
      <3>2. run'[t] = "queued" BY <1>1 DEF IInv, TypeOK
      <3>8. t \in Seen'
        <4>1. tags'[t] # "none" BY DEF Sync, Event, IInv, TypeOK
        <4> QED BY <4>1 DEF Seen
      <3>3. SawWhatWas(t)' BY <1>1, <1>6, <3>1, <3>8 DEF SawWhatWas
      <3>4. done[t] = 0
        <4>1. run[t] # "manifest" => done[t] = 0 BY <3>1 DEF InOrder
        <4>2. CASE run[t] # "manifest" BY <4>1, <4>2
        <4>3. CASE run[t] = "manifest"
          <5>1. tags[t] = "none" BY DEF Sync
          <5>2. t \in Seen BY <3>1, <4>3 DEF SawWhatWas
          <5> QED BY <5>1, <5>2 DEF Seen
        <4> QED BY <4>2, <4>3
      <3>5. InOrder(t)' BY <1>1, <3>1, <3>2, <3>4 DEF InOrder
      <3>6. StagedIsOwn(t)' <=> StagedIsOwn(t) BY <1>1 DEF StagedIsOwn
      <3>7. Uncrossed(t)' BY <1>1, <3>1, <3>2, <3>6 DEF Uncrossed, MovedIsOwn
      <3> QED BY <2>2, <3>3, <3>5, <3>7 DEF Good
    <2> QED BY <2>1, <2>2
  <1> QED BY <1>5, <1>7 DEF IInv

\* A run that begins, or begins again, has nothing left that another could have made.
LEMMA RunJobsIInv ==
    ASSUME IInv, NEW t \in Builds, NEW again \in SUBSET Arches, RunJobs(t, again),
           run[t] \in {"queued", "done", "failed"},
           \A a \in Arches \ again : leg[t][a].at = "done"
    PROVE  IInv'
  <1>0. TypeOK /\ SawWhatWas(t) /\ InOrder(t) /\ Uncrossed(t) BY DEF IInv, Good
  <1>1. /\ leg' = [leg EXCEPT ![t] = [a \in Arches |-> IF a \in again THEN NewLeg ELSE leg[t][a]]]
        /\ outs' = [outs EXCEPT ![t] = IF again = Arches THEN {} ELSE outs[t]]
        /\ run' = [run EXCEPT ![t] = Onward(t, leg'[t], outs[t])]
        /\ crossed' = [crossed EXCEPT ![t] = again # Arches /\ crossed[t]]
        /\ UNCHANGED <<tags, done, digest, staged, version, floating>>
        /\ Event
    BY DEF RunJobs, package
  <1>2. leg' \in [Builds -> [Arches -> Leg]]
    BY <1>0, <1>1, NewLegType DEF TypeOK, Leg
  <1>3. outs' \in [Builds -> SUBSET Builds] BY <1>0, <1>1 DEF TypeOK
  <1>4. run' \in [Builds -> {"none", "queued", "build", "manifest", "done", "failed"}]
    <2>1. Onward(t, leg'[t], outs[t]) \in {"build", "manifest", "done"} BY OnwardIs
    <2> QED BY <1>0, <1>1, <2>1 DEF TypeOK
  <1>5. crossed' \in [Builds -> BOOLEAN]
    <2>1. (again # Arches /\ crossed[t]) \in BOOLEAN OBVIOUS
    <2> QED BY <1>0, <1>1, <2>1 DEF TypeOK
  <1>6. events' \in 0..MaxEvents BY <1>0, <1>1, EventType
  <1>7. TypeOK' BY <1>0, <1>1, <1>2, <1>3, <1>4, <1>5, <1>6 DEF TypeOK, Leg
  <1>8. Seen' = Seen BY <1>1, SameSeen
  <1>9. ASSUME NEW s \in Builds, s # t PROVE Good(s)'
    <2>1. /\ leg'[s] = leg[s] /\ run'[s] = run[s] /\ outs'[s] = outs[s]
          /\ crossed'[s] = crossed[s]
      BY <1>0, <1>1, <1>9 DEF TypeOK
    <2> QED BY <1>1, <1>8, <2>1, OthersKeep
  <1>10. /\ \A a \in Arches : leg'[t][a] = IF a \in again THEN NewLeg ELSE leg[t][a]
         /\ outs'[t] = IF again = Arches THEN {} ELSE outs[t]
         /\ run'[t] = Onward(t, leg'[t], outs[t])
         /\ crossed'[t] = (again # Arches /\ crossed[t])
    <2>1. /\ \A a \in Arches : leg'[t][a] = IF a \in again THEN NewLeg ELSE leg[t][a]
          /\ outs'[t] = IF again = Arches THEN {} ELSE outs[t]
      BY <1>0, <1>1 DEF TypeOK
    <2>2. run'[t] = Onward(t, leg'[t], outs[t]) BY <1>0, <1>1 DEF TypeOK
    <2>3. crossed'[t] = (again # Arches /\ crossed[t]) BY <1>0, <1>1, Zenon DEF TypeOK
    <2> QED BY <2>1, <2>2, <2>3
  <1>11. NewLeg.saw = {} /\ NewLeg.at = "todo" /\ NewLeg.pushed = 0 BY DEF NewLeg
  <1>12. done[t] = 0 /\ t \in Seen BY <1>0 DEF InOrder, SawWhatWas
  <1>13. SawWhatWas(t)' BY <1>0, <1>8, <1>10, <1>11, <1>12 DEF SawWhatWas
  <1>14. InOrder(t)'
    <2>1. \A a \in Arches : leg'[t][a].at = "done" /\ IsHighestBuild(t, leg'[t][a].saw) =>
                                leg'[t][a].pushed = LastVariant
      BY <1>0, <1>10, <1>11 DEF InOrder
    <2>2. run'[t] = "manifest" => MatrixDone(leg'[t]) /\ IsHighestBuild(t, outs'[t])
      <3>1. IsHighestBuild(t, outs[t]) => IsHighestBuild(t, outs'[t])
        BY <1>10 DEF IsHighestBuild
      <3> DEFINE l == leg'[t]
      <3>2. run'[t] = Onward(t, l, outs[t]) BY <1>10
      <3>3. Onward(t, l, outs[t]) = "manifest" => MatrixDone(l) /\ IsHighestBuild(t, outs[t])
        <4> HIDE DEF l
        <4> QED BY OnwardIs
      <3> QED BY <3>1, <3>2, <3>3
    <2>3. done'[t] = 0 BY <1>1, <1>12
    <2> QED BY <2>1, <2>2, <2>3 DEF InOrder
  <1>15. Uncrossed(t)'
    <2>1. LastVariant \in Nat /\ done'[t] = 0 BY <1>1, <1>12, BuildFacts
    <2>2. MovedIsOwn(t)' BY <2>1 DEF MovedIsOwn, Variants
    <2>3. again = Arches => StagedIsOwn(t)'
      BY <1>10, <1>11, <2>1 DEF StagedIsOwn, Variants
    <2>4. StagedIsOwn(t) => StagedIsOwn(t)'
      BY <1>1, <1>10, <1>11, <2>1 DEF StagedIsOwn, Variants
    <2>5. crossed'[t] = FALSE => again = Arches \/ crossed[t] = FALSE BY <1>0, <1>10 DEF TypeOK
    <2>6. crossed'[t] \in BOOLEAN BY <1>5
    <2> QED BY <1>0, <2>2, <2>3, <2>4, <2>5, <2>6 DEF Uncrossed
  <1>16. Good(t)' BY <1>13, <1>14, <1>15 DEF Good
  <1> QED BY <1>7, <1>9, <1>16 DEF IInv

LEMMA RunsIInv ==
    ASSUME IInv, NEW t \in Builds,
           Start(t) \/ \E again \in SUBSET Arches : Rerun(t, again)
    PROVE  IInv'
  <1>1. CASE Start(t)
    <2>1. run[t] = "queued" /\ RunJobs(t, Arches) BY <1>1 DEF Start
    <2> QED BY <2>1, RunJobsIInv
  <1>2. ASSUME NEW again \in SUBSET Arches, Rerun(t, again) PROVE IInv'
    BY <1>2, RunJobsIInv DEF Rerun
  <1> QED BY <1>1, <1>2

\* A run that stops in its legs keeps those that are done.
LEMMA LegsStopIInv ==
    ASSUME IInv, NEW t \in Builds, LegsStop(t), run[t] = "build", events' \in 0..MaxEvents,
           UNCHANGED <<tags, outs, done, digest, staged, version, floating, crossed>>
    PROVE  IInv'
  <1>0. TypeOK /\ SawWhatWas(t) /\ InOrder(t) /\ Uncrossed(t) BY DEF IInv, Good
  <1>1. /\ run' = [run EXCEPT ![t] = "failed"]
        /\ leg' \in [Builds -> [Arches -> Leg]]
        /\ \A b \in Arches : leg'[t][b] = IF leg[t][b].at = "done" THEN leg[t][b] ELSE NewLeg
        /\ \A s \in Builds : s # t => leg'[s] = leg[s]
    BY <1>0, LegsStopType
  <1>2. run' \in [Builds -> {"none", "queued", "build", "manifest", "done", "failed"}]
        /\ run'[t] = "failed" /\ \A s \in Builds : s # t => run'[s] = run[s]
    BY <1>0, <1>1 DEF TypeOK
  <1>3. TypeOK' BY <1>0, <1>1, <1>2 DEF TypeOK, Leg
  <1>4. Seen' = Seen BY SameSeen
  <1>5. ASSUME NEW s \in Builds, s # t PROVE Good(s)'
    BY <1>1, <1>2, <1>4, <1>5, OthersKeep
  <1>6. NewLeg.saw = {} /\ NewLeg.at = "todo" /\ NewLeg.pushed = 0 BY DEF NewLeg
  <1>7. SawWhatWas(t)' BY <1>0, <1>1, <1>2, <1>4, <1>6 DEF SawWhatWas
  <1>8. InOrder(t)' BY <1>0, <1>1, <1>2, <1>6 DEF InOrder
  <1>9. StagedIsOwn(t) => StagedIsOwn(t)'
    <2>1. LastVariant \in Nat BY BuildFacts
    <2> QED BY <1>1, <1>6, <2>1 DEF StagedIsOwn, Variants
  <1>10. Uncrossed(t)' BY <1>0, <1>2, <1>9 DEF Uncrossed, MovedIsOwn
  <1>11. Good(t)' BY <1>7, <1>8, <1>10 DEF Good
  <1> QED BY <1>3, <1>5, <1>11 DEF IInv

\* A leg plans with all the tags there are.
LEMMA PlanIInv == ASSUME IInv, NEW t \in Builds, NEW a \in Arches, PlanLeg(t, a) PROVE IInv'
  <1>0. TypeOK /\ SawWhatWas(t) /\ InOrder(t) /\ Uncrossed(t) BY DEF IInv, Good
  <1>1. /\ run[t] = "build"
        /\ UNCHANGED <<tags, outs, done, digest, staged, version, floating, crossed, events>>
    BY DEF PlanLeg, package
  <1>2. CASE LegsStop(t)
    <2>1. events' \in 0..MaxEvents BY <1>0, <1>1 DEF TypeOK
    <2> QED BY <1>1, <1>2, <2>1, LegsStopIInv
  <1>3. CASE SetLeg(t, a, [at |-> "planned", pushed |-> 0, saw |-> Seen]) /\ UNCHANGED run
    <2> DEFINE l == [at |-> "planned", pushed |-> 0, saw |-> Seen]
    <2>1. l \in Leg /\ l.at = "planned" /\ l.pushed = 0 /\ l.saw = Seen
      BY BuildFacts DEF Leg, Seen
    <2>2. SetLeg(t, a, l) BY <1>3
    <2> HIDE DEF l
    <2>3. /\ leg' \in [Builds -> [Arches -> Leg]] /\ leg'[t][a] = l
          /\ \A b \in Arches : b # a => leg'[t][b] = leg[t][b]
          /\ \A s \in Builds : s # t => leg'[s] = leg[s]
      BY <1>0, <2>1, <2>2, SetLegType
    <2>4. TypeOK' BY <1>0, <1>1, <1>3, <2>3 DEF TypeOK, Leg
    <2>5. Seen' = Seen BY <1>1, SameSeen
    <2>6. ASSUME NEW s \in Builds, s # t PROVE Good(s)'
      BY <1>1, <1>3, <2>3, <2>5, <2>6, OthersKeep
    <2>7. SawWhatWas(t)' BY <1>0, <1>1, <1>3, <2>1, <2>3, <2>5 DEF SawWhatWas
    <2>8. InOrder(t)' BY <1>0, <1>1, <1>3, <2>1, <2>3 DEF InOrder
    <2>9. StagedIsOwn(t) => StagedIsOwn(t)'
      <3>1. LastVariant \in Nat BY BuildFacts
      <3> QED BY <1>1, <2>1, <2>3, <3>1 DEF StagedIsOwn, Variants
    <2>10. Uncrossed(t)' BY <1>0, <1>1, <1>3, <2>9 DEF Uncrossed, MovedIsOwn
    <2> QED BY <2>4, <2>6, <2>7, <2>8, <2>10 DEF IInv, Good
  <1> QED BY <1>2, <1>3 DEF PlanLeg

\* A push crosses the other runs.
LEMMA PushIInv == ASSUME IInv, NEW t \in Builds, NEW a \in Arches, PushImage(t, a) PROVE IInv'
  <1> DEFINE i == leg[t][a].pushed + 1
             l == [at |-> "planned", pushed |-> i, saw |-> leg[t][a].saw]
  <1>0. TypeOK /\ SawWhatWas(t) /\ InOrder(t) /\ Uncrossed(t) BY DEF IInv, Good
  <1>1. /\ run[t] = "build" /\ i \in Variants
        /\ staged' = [staged EXCEPT ![i] = [staged[i] EXCEPT ![a] = t]]
        /\ SetLeg(t, a, l) /\ Crosses(t)
        /\ UNCHANGED <<tags, run, outs, done, digest, version, floating, events>>
    BY DEF PushImage, package
  <1>2. leg[t][a] \in Leg /\ LastVariant \in Nat BY <1>0, BuildFacts DEF TypeOK, Leg
  <1>3. l \in Leg /\ l.at = "planned" /\ l.pushed = i /\ l.saw = leg[t][a].saw
    BY <1>1, <1>2 DEF Leg, Variants
  <1> HIDE DEF l
  <1>4. /\ leg' \in [Builds -> [Arches -> Leg]] /\ leg'[t][a] = l
        /\ \A b \in Arches : b # a => leg'[t][b] = leg[t][b]
        /\ \A s \in Builds : s # t => leg'[s] = leg[s]
    BY <1>0, <1>1, <1>3, SetLegType
  <1>5. /\ crossed' \in [Builds -> BOOLEAN] /\ crossed'[t] = crossed[t]
        /\ \A s \in Builds : s # t => crossed'[s] = TRUE
    BY <1>0, <1>1, CrossesOthers
  <1> HIDE DEF i
  <1>6. staged' \in [Variants -> Images]
    <2>1. staged[i] \in Images BY <1>0, <1>1 DEF TypeOK
    <2>2. [staged[i] EXCEPT ![a] = t] \in Images BY <2>1 DEF Images
    <2> QED BY <1>0, <1>1, <2>2 DEF TypeOK
  <1>7. TypeOK' BY <1>0, <1>1, <1>4, <1>5, <1>6 DEF TypeOK, Leg
  <1>8. Seen' = Seen BY <1>1, SameSeen
  <1>9. ASSUME NEW s \in Builds, s # t PROVE Good(s)'
    BY <1>1, <1>4, <1>5, <1>8, <1>9, OthersKeep
  <1>10. SawWhatWas(t)' BY <1>0, <1>1, <1>3, <1>4, <1>8 DEF SawWhatWas
  <1>11. InOrder(t)' BY <1>0, <1>1, <1>3, <1>4 DEF InOrder
  <1>12. StagedIsOwn(t) => StagedIsOwn(t)'
    <2> SUFFICES ASSUME StagedIsOwn(t), NEW b \in Arches, NEW j \in Variants, j <= leg'[t][b].pushed
                 PROVE  staged'[j][b] \in {t, Absent}
      BY DEF StagedIsOwn
    <2>1. staged[i] \in Images /\ staged[j] \in Images BY <1>0, <1>1 DEF TypeOK
    <2>2. CASE j = i /\ b = a
      <3>1. staged'[i][a] = t BY <1>0, <1>1, <2>1 DEF TypeOK, Images
      <3> QED BY <2>2, <3>1
    <2>3. CASE ~(j = i /\ b = a)
      <3>1. staged'[j][b] = staged[j][b]
        <4>1. CASE j # i BY <1>0, <1>1, <4>1 DEF TypeOK
        <4>2. CASE j = i /\ b # a
          <5>1. staged'[i] = [staged[i] EXCEPT ![a] = t] BY <1>0, <1>1 DEF TypeOK
          <5> QED BY <2>1, <4>2, <5>1 DEF Images
        <4> QED BY <2>3, <4>1, <4>2
      <3>2. j <= leg[t][b].pushed
        <4>1. CASE b # a BY <1>4, <4>1
        <4>2. CASE b = a
          <5>1. j <= i /\ j # i BY <1>3, <1>4, <2>3, <4>2
          <5>2. i = leg[t][a].pushed + 1 /\ leg[t][a].pushed \in Nat /\ j \in Nat
            BY <1>2 DEF i, Leg, Variants
          <5> QED BY <4>2, <5>1, <5>2
        <4> QED BY <4>1, <4>2
      <3> QED BY <3>1, <3>2 DEF StagedIsOwn
    <2> QED BY <2>2, <2>3
  <1>13. Uncrossed(t)' BY <1>0, <1>1, <1>5, <1>12 DEF Uncrossed, MovedIsOwn
  <1> QED BY <1>7, <1>9, <1>10, <1>11, <1>13 DEF IInv, Good

\* The last leg to finish starts the manifest job, which has moved nothing yet.
LEMMA FinishLegIInv == ASSUME IInv, NEW t \in Builds, NEW a \in Arches, FinishLeg(t, a) PROVE IInv'
  <1> DEFINE l == [at |-> "done", pushed |-> leg[t][a].pushed, saw |-> leg[t][a].saw]
  <1>0. TypeOK /\ SawWhatWas(t) /\ InOrder(t) /\ Uncrossed(t) BY DEF IInv, Good
  <1>1. /\ run[t] = "build"
        /\ IsHighestBuild(t, leg[t][a].saw) => leg[t][a].pushed = LastVariant
        /\ SetLeg(t, a, l)
        /\ outs' = [outs EXCEPT ![t] = leg[t][a].saw]
        /\ run' = [run EXCEPT ![t] = Onward(t, leg'[t], leg[t][a].saw)]
        /\ UNCHANGED <<tags, done, digest, staged, version, floating, crossed, events>>
    BY DEF FinishLeg, package
  <1>2. leg[t][a] \in Leg /\ LastVariant \in Nat BY <1>0, BuildFacts DEF TypeOK, Leg
  <1>3. l \in Leg /\ l.at = "done" /\ l.pushed = leg[t][a].pushed /\ l.saw = leg[t][a].saw
    BY <1>2 DEF Leg
  <1> HIDE DEF l
  <1>4. /\ leg' \in [Builds -> [Arches -> Leg]] /\ leg'[t][a] = l
        /\ \A b \in Arches : b # a => leg'[t][b] = leg[t][b]
        /\ \A s \in Builds : s # t => leg'[s] = leg[s]
    BY <1>0, <1>1, <1>3, SetLegType
  <1> DEFINE legs == leg'[t]  saw == leg[t][a].saw
  <1>5. /\ Onward(t, legs, saw) \in {"build", "manifest", "done"}
        /\ Onward(t, legs, saw) = "manifest" => MatrixDone(legs) /\ IsHighestBuild(t, saw)
    <2> HIDE DEF legs, saw
    <2> QED BY OnwardIs
  <1>6. /\ run' \in [Builds -> {"none", "queued", "build", "manifest", "done", "failed"}]
        /\ run'[t] = Onward(t, legs, saw) /\ \A s \in Builds : s # t => run'[s] = run[s]
    BY <1>0, <1>1, <1>5 DEF TypeOK
  <1>7. /\ outs' \in [Builds -> SUBSET Builds] /\ outs'[t] = saw
        /\ \A s \in Builds : s # t => outs'[s] = outs[s]
    BY <1>0, <1>1, <1>2 DEF TypeOK, Leg
  <1>8. TypeOK' BY <1>0, <1>1, <1>4, <1>6, <1>7 DEF TypeOK, Leg
  <1>9. Seen' = Seen BY <1>1, SameSeen
  <1>10. ASSUME NEW s \in Builds, s # t PROVE Good(s)'
    BY <1>1, <1>4, <1>6, <1>7, <1>9, <1>10, OthersKeep
  <1>11. SawWhatWas(t)'
    <2>1. t \in Seen BY <1>0, <1>1 DEF SawWhatWas
    <2> QED BY <1>0, <1>3, <1>4, <1>7, <1>9, <2>1 DEF SawWhatWas
  <1>12. done[t] = 0 BY <1>0, <1>1 DEF InOrder
  <1>13. InOrder(t)'
    <2>1. \A b \in Arches : leg'[t][b].at = "done" /\ IsHighestBuild(t, leg'[t][b].saw) =>
                                leg'[t][b].pushed = LastVariant
      BY <1>0, <1>1, <1>3, <1>4 DEF InOrder
    <2>2. run'[t] = "manifest" => MatrixDone(leg'[t]) /\ IsHighestBuild(t, outs'[t])
      BY <1>5, <1>6, <1>7
    <2> QED BY <1>1, <1>12, <2>1, <2>2 DEF InOrder
  <1>14. StagedIsOwn(t) => StagedIsOwn(t)'
    <2>1. \A b \in Arches : leg'[t][b].pushed = leg[t][b].pushed BY <1>3, <1>4
    <2> QED BY <1>1, <2>1 DEF StagedIsOwn
  <1>15. MovedIsOwn(t)'
    <2>1. done'[t] = 0 BY <1>1, <1>12
    <2> QED BY <1>2, <2>1 DEF MovedIsOwn, Variants
  <1>16. Uncrossed(t)' BY <1>0, <1>1, <1>14, <1>15 DEF Uncrossed
  <1> QED BY <1>8, <1>10, <1>11, <1>13, <1>16 DEF IInv, Good

LEMMA LegsIInv == ASSUME IInv, NEW t \in Builds, Legs(t) PROVE IInv'
  <1>1. ASSUME NEW a \in Arches, LegFails(t, a) PROVE IInv'
    <2>1. events' \in 0..MaxEvents BY <1>1, EventType DEF LegFails, IInv
    <2> QED BY <1>1, <2>1, LegsStopIInv DEF LegFails, package
  <1> QED BY <1>1, PlanIInv, PushIInv, FinishLegIInv DEF Legs

\* Where the manifest job ends, the run's knowledge goes, and maybe what is staged.
LEMMA ManifestEndsIInv ==
    ASSUME IInv, NEW t \in Builds, NEW how \in {"done", "failed"}, run[t] = "manifest",
           ManifestEnds(t, how), events' \in 0..MaxEvents,
           UNCHANGED <<tags, leg, outs, version, floating>>
    PROVE  IInv'
  <1>0. TypeOK /\ SawWhatWas(t) /\ InOrder(t) /\ Uncrossed(t) BY DEF IInv, Good
  <1>1. /\ run' = [run EXCEPT ![t] = how]
        /\ done' = [done EXCEPT ![t] = 0]
        /\ digest' = [digest EXCEPT ![t] = NoDigest]
        /\ \/ staged' = NoDigest /\ Crosses(t)
           \/ UNCHANGED <<staged, crossed>>
    BY DEF ManifestEnds, Discard
  <1>2. /\ run' \in [Builds -> {"none", "queued", "build", "manifest", "done", "failed"}]
        /\ run'[t] = how /\ \A s \in Builds : s # t => run'[s] = run[s]
    BY <1>0, <1>1 DEF TypeOK
  <1>3. /\ done' \in [Builds -> 0..(3 * LastVariant)] /\ done'[t] = 0
        /\ \A s \in Builds : s # t => done'[s] = done[s]
    <2>1. 0 \in 0..(3 * LastVariant) BY BuildFacts
    <2> QED BY <1>0, <1>1, <2>1 DEF TypeOK
  <1>4. /\ digest' \in [Builds -> [Variants -> Images]]
        /\ \A s \in Builds : s # t => digest'[s] = digest[s]
    BY <1>0, <1>1, BuildFacts DEF TypeOK
  <1>5. /\ crossed' \in [Builds -> BOOLEAN] /\ crossed'[t] = crossed[t]
        /\ \A s \in Builds : s # t =>
              crossed'[s] = TRUE \/ (crossed'[s] = crossed[s] /\ UNCHANGED staged)
    <2>1. CASE Crosses(t) BY <1>0, <2>1, CrossesOthers
    <2>2. CASE UNCHANGED <<staged, crossed>>
      <3>1. crossed' \in [Builds -> BOOLEAN] BY <1>0, <2>2 DEF TypeOK
      <3> QED BY <2>2, <3>1
    <2> QED BY <1>1, <2>1, <2>2
  <1>6. staged' \in [Variants -> Images] BY <1>0, <1>1, BuildFacts DEF TypeOK
  <1>7. TypeOK' BY <1>0, <1>2, <1>3, <1>4, <1>5, <1>6 DEF TypeOK
  <1>8. Seen' = Seen BY SameSeen
  <1>9. ASSUME NEW s \in Builds, s # t PROVE Good(s)'
    BY <1>2, <1>3, <1>4, <1>5, <1>8, <1>9, OthersKeep
  <1>10. SawWhatWas(t)' BY <1>0, <1>8 DEF SawWhatWas
  <1>11. InOrder(t)' BY <1>0, <1>2, <1>3 DEF InOrder
  <1>12. StagedIsOwn(t) => StagedIsOwn(t)'
    <2>1. CASE staged' = NoDigest
      <3>1. \A a \in Arches, i \in Variants : staged'[i][a] = Absent
        BY <2>1 DEF NoDigest, Nothing
      <3> QED BY <3>1 DEF StagedIsOwn
    <2>2. CASE UNCHANGED staged BY <2>2 DEF StagedIsOwn
    <2> QED BY <1>1, <2>1, <2>2
  <1>13. Uncrossed(t)' BY <1>0, <1>2, <1>5, <1>12 DEF Uncrossed, MovedIsOwn
  <1> QED BY <1>7, <1>9, <1>10, <1>11, <1>13 DEF IInv, Good

\* Where it goes on, what it moves is to be its own, and crosses the other runs.
LEMMA ManifestStepIInv ==
    ASSUME IInv, NEW t \in Builds, run[t] = "manifest",
           ManifestStep(t), done[t] < 3 * LastVariant,
           UNCHANGED <<tags, run, leg, outs, staged, events>>,
           digest' \in [Builds -> [Variants -> Images]],
           \A s \in Builds : s # t => digest'[s] = digest[s],
           version' \in [Variants -> [Upstreams -> Images]],
           floating' \in [Variants -> Images],
           Crosses(t) \/ UNCHANGED <<crossed, version, floating>>,
           crossed[t] \/ MovedIsOwn(t)'
    PROVE  IInv'
  <1>0. TypeOK /\ SawWhatWas(t) /\ InOrder(t) /\ Uncrossed(t) BY DEF IInv, Good
  <1>1. done' \in [Builds -> 0..(3 * LastVariant)]
        /\ \A s \in Builds : s # t => done'[s] = done[s]
    <2>1. done[t] \in 0..(3 * LastVariant) /\ LastVariant \in Nat BY <1>0, BuildFacts DEF TypeOK
    <2>2. done[t] + 1 \in 0..(3 * LastVariant) BY <2>1
    <2> QED BY <1>0, <2>2 DEF TypeOK, ManifestStep
  <1>2. /\ crossed' \in [Builds -> BOOLEAN] /\ crossed'[t] = crossed[t]
        /\ \A s \in Builds : s # t =>
              crossed'[s] = TRUE \/ (crossed'[s] = crossed[s] /\ UNCHANGED <<version, floating>>)
    <2>1. CASE Crosses(t) BY <1>0, <2>1, CrossesOthers
    <2>2. CASE UNCHANGED <<crossed, version, floating>>
      <3>1. crossed' \in [Builds -> BOOLEAN] BY <1>0, <2>2 DEF TypeOK
      <3> QED BY <2>2, <3>1
    <2> QED BY <2>1, <2>2
  <1>3. TypeOK' BY <1>0, <1>1, <1>2 DEF TypeOK
  <1>4. Seen' = Seen BY SameSeen
  <1>5. ASSUME NEW s \in Builds, s # t PROVE Good(s)'
    BY <1>1, <1>2, <1>4, <1>5, OthersKeep
  <1>6. SawWhatWas(t)' BY <1>0, <1>4 DEF SawWhatWas
  <1>7. InOrder(t)' BY <1>0 DEF InOrder
  <1>8. StagedIsOwn(t)' <=> StagedIsOwn(t) BY DEF StagedIsOwn
  <1>9. Uncrossed(t)' BY <1>0, <1>2, <1>8 DEF Uncrossed
  <1> QED BY <1>3, <1>5, <1>6, <1>7, <1>9 DEF IInv, Good

\* What an uncrossed run that publishes finds staged, if every image is there.
LEMMA StagedOwn ==
    ASSUME IInv, NEW t \in Builds, NEW i \in Variants, run[t] = "manifest",
           ~crossed[t], Publishing(t), \A a \in Arches : staged[i][a] # Absent
    PROVE  staged[i] = Own(t)
  <1>1. TypeOK /\ InOrder(t) /\ StagedIsOwn(t) BY DEF IInv, Good, Uncrossed
  <1>2. staged[i] \in [Arches -> Builds \cup {Absent}] BY <1>1 DEF TypeOK, Images
  <1>3. ASSUME NEW a \in Arches PROVE staged[i][a] = t
    <2>1. leg[t][a].at = "done" BY <1>1 DEF InOrder, MatrixDone
    <2>2. leg[t][a].pushed = LastVariant BY <1>1, <2>1 DEF InOrder, Publishing
    <2>3. i <= leg[t][a].pushed BY <2>2, BuildFacts DEF Variants
    <2>4. staged[i][a] \in {t, Absent} BY <1>1, <2>3 DEF StagedIsOwn
    <2> QED BY <2>4
  <1> QED BY <1>2, <1>3 DEF Own

LEMMA CreateIInv == ASSUME IInv, NEW t \in Builds, NEW i \in Variants, Create(t, i) PROVE IInv'
  <1>0. TypeOK /\ Uncrossed(t) BY DEF IInv, Good
  <1>1. /\ run[t] = "manifest" /\ done[t] = 2 * i - 2
        /\ UNCHANGED <<tags, leg, outs, floating, events>>
    BY DEF Create
  <1>2. CASE ManifestEnds(t, "failed") /\ UNCHANGED version
    <2>1. events' \in 0..MaxEvents BY <1>0, <1>1 DEF TypeOK
    <2> QED BY <1>1, <1>2, <2>1, ManifestEndsIInv
  <1>3. CASE /\ \A a \in Arches : staged[i][a] # Absent
             /\ version' = [version EXCEPT ![i] = [version[i] EXCEPT ![t.up] = staged[i]]]
             /\ ManifestStep(t) /\ Crosses(t) /\ UNCHANGED <<run, digest, staged>>
    <2>1. i \in 1..LastVariant /\ LastVariant \in Nat /\ t.up \in Upstreams
      BY BuildFacts DEF Variants
    <2>2. /\ version' \in [Variants -> [Upstreams -> Images]]
          /\ version'[i][t.up] = staged[i] /\ \A j \in Variants : j # i => version'[j] = version[j]
      <3>1. staged[i] \in Images /\ version[i] \in [Upstreams -> Images] BY <1>0 DEF TypeOK
      <3>2. [version[i] EXCEPT ![t.up] = staged[i]] \in [Upstreams -> Images] BY <3>1
      <3>3. [version[i] EXCEPT ![t.up] = staged[i]][t.up] = staged[i] BY <2>1, <3>1
      <3> QED BY <1>0, <1>3, <3>2, <3>3 DEF TypeOK
    <2>3. done'[t] = 2 * i - 1 BY <1>0, <1>1, <1>3, <2>1 DEF TypeOK, ManifestStep
    <2>4. ASSUME ~crossed[t] PROVE MovedIsOwn(t)'
      <3> SUFFICES ASSUME Publishing(t), NEW j \in Variants
                   PROVE  /\ 2 * j - 1 <= done'[t] => version'[j][t.up] = Own(t)
                          /\ 2 * j <= done'[t] => digest'[t][j] = Own(t)
                          /\ 2 * LastVariant + j <= done'[t] => floating'[j] = Own(t)
        BY <1>1 DEF MovedIsOwn, Publishing
      <3>1. /\ 2 * j - 1 <= done[t] => version[j][t.up] = Own(t)
            /\ 2 * j <= done[t] => digest[t][j] = Own(t)
        BY <1>0, <1>1, <2>4 DEF Uncrossed, MovedIsOwn
      <3>2. j \in 1..LastVariant BY DEF Variants
      <3>3. staged[i] = Own(t) BY <1>1, <1>3, <2>4, StagedOwn
      <3>4. CASE j = i BY <1>3, <2>1, <2>2, <2>3, <3>2, <3>3, <3>4
      <3>5. CASE j # i
        <4>1. 2 * j - 1 <= done'[t] => 2 * j - 1 <= done[t] BY <1>1, <2>1, <2>3, <3>2, <3>5
        <4>2. 2 * j <= done'[t] => 2 * j <= done[t] BY <1>1, <2>1, <2>3, <3>2, <3>5
        <4>3. ~(2 * LastVariant + j <= done'[t]) BY <2>1, <2>3, <3>2
        <4> QED BY <1>3, <2>2, <3>1, <3>5, <4>1, <4>2, <4>3
      <3> QED BY <3>4, <3>5
    <2>5. done[t] < 3 * LastVariant BY <1>1, <2>1
    <2>6. digest' \in [Builds -> [Variants -> Images]] /\ floating' \in [Variants -> Images]
      BY <1>0, <1>1, <1>3 DEF TypeOK
    <2> QED BY <1>1, <1>3, <2>2, <2>4, <2>5, <2>6, ManifestStepIInv
  <1> QED BY <1>2, <1>3 DEF Create

LEMMA InspectIInv == ASSUME IInv, NEW t \in Builds, NEW i \in Variants, Inspect(t, i) PROVE IInv'
  <1>0. TypeOK /\ Uncrossed(t) BY DEF IInv, Good
  <1>1. /\ run[t] = "manifest" /\ done[t] = 2 * i - 1
        /\ digest' = [digest EXCEPT ![t] = [digest[t] EXCEPT ![i] = version[i][t.up]]]
        /\ ManifestStep(t)
        /\ UNCHANGED <<tags, run, leg, outs, staged, version, floating, crossed, events>>
    BY DEF Inspect, package
  <1>2. i \in 1..LastVariant /\ LastVariant \in Nat /\ t.up \in Upstreams
    BY BuildFacts DEF Variants
  <1>3. /\ digest' \in [Builds -> [Variants -> Images]]
        /\ \A s \in Builds : s # t => digest'[s] = digest[s]
        /\ digest'[t][i] = version[i][t.up]
        /\ \A j \in Variants : j # i => digest'[t][j] = digest[t][j]
    <2>1. version[i][t.up] \in Images /\ digest[t] \in [Variants -> Images]
      BY <1>0, <1>2 DEF TypeOK
    <2>2. [digest[t] EXCEPT ![i] = version[i][t.up]] \in [Variants -> Images] BY <2>1
    <2>3. digest'[t] = [digest[t] EXCEPT ![i] = version[i][t.up]] BY <1>0, <1>1 DEF TypeOK
    <2> QED BY <1>0, <1>1, <2>1, <2>2, <2>3 DEF TypeOK
  <1>4. done'[t] = 2 * i BY <1>0, <1>1, <1>2 DEF TypeOK, ManifestStep
  <1>5. ASSUME ~crossed[t] PROVE MovedIsOwn(t)'
    <2> SUFFICES ASSUME Publishing(t), NEW j \in Variants
                 PROVE  /\ 2 * j - 1 <= done'[t] => version'[j][t.up] = Own(t)
                        /\ 2 * j <= done'[t] => digest'[t][j] = Own(t)
                        /\ 2 * LastVariant + j <= done'[t] => floating'[j] = Own(t)
      BY <1>1 DEF MovedIsOwn, Publishing
    <2>1. \A k \in Variants : /\ 2 * k - 1 <= done[t] => version[k][t.up] = Own(t)
                              /\ 2 * k <= done[t] => digest[t][k] = Own(t)
      BY <1>0, <1>1, <1>5 DEF Uncrossed, MovedIsOwn
    <2>2. j \in 1..LastVariant BY DEF Variants
    <2>3. 2 * j - 1 <= done'[t] => 2 * j - 1 <= done[t] BY <1>1, <1>2, <1>4, <2>2
    <2>4. j # i /\ 2 * j <= done'[t] => 2 * j <= done[t] BY <1>1, <1>2, <1>4, <2>2
    <2>5. version[i][t.up] = Own(t) BY <1>1, <1>2, <2>1
    <2>6. ~(2 * LastVariant + j <= done'[t]) BY <1>2, <1>4, <2>2
    <2>7. 2 * j <= done'[t] => digest'[t][j] = Own(t)
      <3>1. CASE j = i BY <1>3, <2>5, <3>1
      <3>2. CASE j # i BY <1>3, <2>1, <2>4, <3>2
      <3> QED BY <3>1, <3>2
    <2> QED BY <1>1, <2>1, <2>3, <2>6, <2>7
  <1>6. done[t] < 3 * LastVariant BY <1>1, <1>2
  <1>7. version' \in [Variants -> [Upstreams -> Images]] /\ floating' \in [Variants -> Images]
    BY <1>0, <1>1 DEF TypeOK
  <1> QED BY <1>1, <1>3, <1>5, <1>6, <1>7, ManifestStepIInv

LEMMA SlideIInv == ASSUME IInv, NEW t \in Builds, NEW i \in Variants, Slide(t, i) PROVE IInv'
  <1>0. TypeOK /\ Uncrossed(t) BY DEF IInv, Good
  <1>1. /\ run[t] = "manifest" /\ done[t] = 2 * LastVariant + i - 1
        /\ floating' = [floating EXCEPT ![i] = digest[t][i]]
        /\ ManifestStep(t) /\ Crosses(t)
        /\ UNCHANGED <<tags, run, leg, outs, digest, staged, version, events>>
    BY DEF Slide
  <1>2. i \in 1..LastVariant /\ LastVariant \in Nat BY BuildFacts DEF Variants
  <1>3. /\ floating' \in [Variants -> Images] /\ floating'[i] = digest[t][i]
        /\ \A j \in Variants : j # i => floating'[j] = floating[j]
    <2>1. digest[t][i] \in Images BY <1>0 DEF TypeOK
    <2> QED BY <1>0, <1>1, <2>1 DEF TypeOK
  <1>4. done'[t] = 2 * LastVariant + i BY <1>0, <1>1, <1>2 DEF TypeOK, ManifestStep
  <1>5. ASSUME ~crossed[t] PROVE MovedIsOwn(t)'
    <2> SUFFICES ASSUME Publishing(t), NEW j \in Variants
                 PROVE  /\ 2 * j - 1 <= done'[t] => version'[j][t.up] = Own(t)
                        /\ 2 * j <= done'[t] => digest'[t][j] = Own(t)
                        /\ 2 * LastVariant + j <= done'[t] => floating'[j] = Own(t)
      BY <1>1 DEF MovedIsOwn, Publishing
    <2>1. \A k \in Variants :
              /\ 2 * k - 1 <= done[t] => version[k][t.up] = Own(t)
              /\ 2 * k <= done[t] => digest[t][k] = Own(t)
              /\ 2 * LastVariant + k <= done[t] => floating[k] = Own(t)
      BY <1>0, <1>1, <1>5 DEF Uncrossed, MovedIsOwn
    <2>2. j \in 1..LastVariant BY DEF Variants
    <2>3. 2 * j - 1 <= done[t] /\ 2 * j <= done[t] BY <1>1, <1>2, <2>2
    <2>4. 2 * i <= done[t] BY <1>1, <1>2
    <2>5. 2 * LastVariant + j <= done'[t] => floating'[j] = Own(t)
      <3>1. CASE j = i BY <1>3, <2>1, <2>4, <3>1
      <3>2. CASE j # i
        <4>1. 2 * LastVariant + j <= done'[t] => 2 * LastVariant + j <= done[t]
          BY <1>1, <1>2, <1>4, <2>2, <3>2
        <4> QED BY <1>3, <2>1, <3>2, <4>1
      <3> QED BY <3>1, <3>2
    <2> QED BY <1>1, <2>1, <2>3, <2>5
  <1>6. done[t] < 3 * LastVariant BY <1>1, <1>2
  <1>7. /\ digest' \in [Builds -> [Variants -> Images]]
        /\ version' \in [Variants -> [Upstreams -> Images]]
    BY <1>0, <1>1 DEF TypeOK
  <1> QED BY <1>1, <1>3, <1>5, <1>6, <1>7, ManifestStepIInv

LEMMA ManifestIInv == ASSUME IInv, NEW t \in Builds, Manifest(t) PROVE IInv'
  <1>1. ASSUME Finish(t) PROVE IInv'
    <2>1. events' \in 0..MaxEvents BY <1>1 DEF Finish, IInv, TypeOK
    <2> QED BY <1>1, <2>1, ManifestEndsIInv DEF Finish, package
  <1>2. ASSUME ManifestFails(t) PROVE IInv'
    <2>1. events' \in 0..MaxEvents BY <1>2, EventType DEF ManifestFails, IInv
    <2> QED BY <1>2, <2>1, ManifestEndsIInv DEF ManifestFails, package
  <1> QED BY <1>1, <1>2, CreateIInv, InspectIInv, SlideIInv DEF Manifest

LEMMA NextIInv == IInv /\ [Next]_vars => IInv'
  <1> SUFFICES ASSUME IInv, [Next]_vars PROVE IInv' OBVIOUS
  <1>1. CASE Next
    <2>1. PICK t \in Builds :
              \/ Sync(t) \/ Start(t) \/ \E again \in SUBSET Arches : Rerun(t, again)
              \/ Legs(t) \/ Manifest(t)
      BY <1>1 DEF Next
    <2> QED BY <2>1, SyncIInv, RunsIInv, LegsIInv, ManifestIInv
  <1>2. CASE UNCHANGED vars
    <2>1. UNCHANGED <<tags, run, leg, outs, done, digest, staged, version, floating, crossed,
                      events>>
      BY <1>2 DEF vars, package
    <2>2. TypeOK' BY <2>1 DEF IInv, TypeOK
    <2>3. Seen' = Seen BY <2>1, SameSeen
    <2>4. \A s \in Builds : Good(s)' BY <2>1, <2>3, OthersKeep
    <2> QED BY <2>2, <2>4 DEF IInv
  <1> QED BY <1>1, <1>2

LEMMA AlwaysIInv == Spec => []IInv
  BY InitIInv, NextIInv, PTL DEF Spec

\* A run moves a name by stitching it or by sliding it.
LEMMA MovesAre ==
    ASSUME IInv, Next, NEW t \in Builds, NEW i \in Variants
    PROVE  /\ MovesVersion(t, i) =>
                 /\ run[t] = "manifest" /\ \A a \in Arches : staged[i][a] # Absent
                 /\ version' = [version EXCEPT ![i] = [version[i] EXCEPT ![t.up] = staged[i]]]
           /\ MovesFloating(t, i) => Slide(t, i)
  <1>0. TypeOK BY DEF IInv
  <1>1. PICK s \in Builds :
            \/ Sync(s) \/ Start(s) \/ \E again \in SUBSET Arches : Rerun(s, again)
            \/ Legs(s) \/ Manifest(s)
    BY DEF Next
  <1>2. CASE Sync(s) \/ Start(s) \/ (\E again \in SUBSET Arches : Rerun(s, again)) \/ Legs(s)
    <2>1. UNCHANGED done
      BY <1>2 DEF Sync, Start, Rerun, RunJobs, Legs, PlanLeg, PushImage, FinishLeg, LegFails
    <2> QED BY <2>1 DEF MovesVersion, MovesFloating
  <1>3. CASE Finish(s) \/ ManifestFails(s) \/ \E j \in Variants : Inspect(s, j)
    <2>1. UNCHANGED <<version, floating>> BY <1>3 DEF Finish, ManifestFails, Inspect, package
    <2> QED BY <2>1 DEF MovesVersion, MovesFloating
  <1>4. ASSUME NEW j \in Variants, Create(s, j), MovesVersion(t, i)
        PROVE  /\ run[t] = "manifest" /\ \A a \in Arches : staged[i][a] # Absent
               /\ version' = [version EXCEPT ![i] = [version[i] EXCEPT ![t.up] = staged[i]]]
    <2>1. version' # version /\ done'[t] # done[t] BY <1>4 DEF MovesVersion
    <2>2. /\ run[s] = "manifest" /\ \A a \in Arches : staged[j][a] # Absent
          /\ version' = [version EXCEPT ![j] = [version[j] EXCEPT ![s.up] = staged[j]]]
          /\ ManifestStep(s)
      BY <1>4, <2>1 DEF Create
    <2>3. s = t BY <1>0, <2>1, <2>2 DEF ManifestStep, TypeOK
    <2>4. j = i BY <1>0, <1>4, <2>2 DEF MovesVersion, TypeOK
    <2> QED BY <2>2, <2>3, <2>4
  <1>5. ASSUME NEW j \in Variants, Create(s, j) PROVE ~MovesFloating(t, i)
    BY <1>5 DEF Create, MovesFloating
  <1>6. ASSUME NEW j \in Variants, Slide(s, j) PROVE ~MovesVersion(t, i)
    BY <1>6 DEF Slide, MovesVersion
  <1>7. ASSUME NEW j \in Variants, Slide(s, j), MovesFloating(t, i) PROVE Slide(t, i)
    <2>1. s = t BY <1>0, <1>7 DEF MovesFloating, Slide, ManifestStep, TypeOK
    <2>2. j = i BY <1>0, <1>7 DEF MovesFloating, Slide, TypeOK
    <2> QED BY <1>7, <2>1, <2>2
  <1>8. CASE Manifest(s) BY <1>3, <1>4, <1>5, <1>6, <1>7, <1>8 DEF Manifest
  <1> QED BY <1>1, <1>2, <1>8

\* A run ends green when its names have moved, or its last leg has said not to publish.
LEMMA GreenIs ==
    ASSUME IInv, Next, NEW t \in Builds, run[t] \in {"build", "manifest"}, run'[t] = "done"
    PROVE  Finish(t) \/ \E a \in Arches : FinishLeg(t, a)
  <1>0. TypeOK BY DEF IInv
  <1>1. PICK s \in Builds :
            \/ Sync(s) \/ Start(s) \/ \E again \in SUBSET Arches : Rerun(s, again)
            \/ Legs(s) \/ Manifest(s)
    BY DEF Next
  <1>2. run'[t] # run[t] OBVIOUS
  <1>3. ASSUME Sync(s) PROVE FALSE BY <1>0, <1>3, <1>2 DEF Sync, TypeOK
  <1>4. ASSUME NEW again \in SUBSET Arches, RunJobs(s, again), run[s] \in {"queued", "done", "failed"}
        PROVE  FALSE
    <2>1. s # t BY <1>4
    <2>2. run' = [run EXCEPT ![s] = Onward(s, leg'[s], outs[s])] BY <1>4 DEF RunJobs
    <2> QED BY <1>0, <1>2, <2>1, <2>2 DEF TypeOK
  <1>5. ASSUME Start(s) \/ \E again \in SUBSET Arches : Rerun(s, again) PROVE FALSE
    BY <1>4, <1>5 DEF Start, Rerun
  <1>6. ASSUME LegsStop(s) PROVE FALSE
    <2>1. run' = [run EXCEPT ![s] = "failed"] BY <1>6 DEF LegsStop
    <2> QED BY <1>0, <1>2, <2>1 DEF TypeOK
  <1>7. ASSUME NEW a \in Arches, PlanLeg(s, a) \/ PushImage(s, a) \/ LegFails(s, a) PROVE FALSE
    BY <1>2, <1>6, <1>7 DEF PlanLeg, PushImage, LegFails
  <1>8. ASSUME NEW a \in Arches, FinishLeg(s, a) PROVE s = t
    <2>1. run' = [run EXCEPT ![s] = Onward(s, leg'[s], leg[s][a].saw)] BY <1>8 DEF FinishLeg
    <2> QED BY <1>0, <1>2, <2>1 DEF TypeOK
  <1>9. ASSUME ManifestEnds(s, "failed") PROVE FALSE
    <2>1. run' = [run EXCEPT ![s] = "failed"] BY <1>9 DEF ManifestEnds
    <2> QED BY <1>0, <1>2, <2>1 DEF TypeOK
  <1>10. ASSUME NEW j \in Variants, Create(s, j) \/ Inspect(s, j) \/ Slide(s, j) PROVE FALSE
    BY <1>2, <1>9, <1>10 DEF Create, Inspect, Slide
  <1>11. ASSUME ManifestFails(s) PROVE FALSE BY <1>9, <1>11 DEF ManifestFails
  <1>12. ASSUME Finish(s) PROVE s = t
    <2>1. run' = [run EXCEPT ![s] = "done"] BY <1>12 DEF Finish, ManifestEnds
    <2> QED BY <1>0, <1>2, <2>1 DEF TypeOK
  <1>13. CASE Legs(s) BY <1>7, <1>8, <1>13 DEF Legs
  <1>14. CASE Manifest(s) BY <1>10, <1>11, <1>12, <1>14 DEF Manifest
  <1> QED BY <1>1, <1>3, <1>5, <1>13, <1>14

\* A build that is the highest now was so in every plan of its run.
LEMMA HighestWasPlanned ==
    ASSUME IInv, NEW t \in Builds
    PROVE  /\ IsHighestBuild(t, Seen) => Publishing(t)
           /\ IsHighestStable(t, Seen) => IsHighestBuild(t, Seen) /\ Tops(t, outs[t])
  <1>1. SawWhatWas(t) BY DEF IInv, Good
  <1>2. Seen \subseteq Builds BY DEF Seen
  <1>3. IsHighestBuild(t, Seen) => \A a \in Arches : IsHighestBuild(t, leg[t][a].saw)
    BY <1>1, FewerTags DEF SawWhatWas
  <1>4. IsHighestStable(t, Seen) => IsHighestBuild(t, Seen) BY <1>2, TopIsHighest
  <1>5. IsHighestStable(t, Seen) => Tops(t, outs[t])
    BY <1>1, <1>4, FewerTags DEF SawWhatWas, Tops
  <1> QED BY <1>3, <1>4, <1>5 DEF Publishing

-----------------------------------------------------------------------------
(* The theorems.                                                           *)

\* Every variable has its type.
THEOREM ReleaseTypes == Spec => []TypeOK
  <1>1. IInv => TypeOK BY DEF IInv
  <1> QED BY <1>1, AlwaysIInv, PTL

\* A run that no other has crossed and whose legs all planned to publish gives every
\* name its own build, whatever was staged before and whichever jobs are run again.
THEOREM RunsStitchTheirOwn == Spec => StitchesItsOwn
  <1>1. ASSUME IInv, [Next]_vars
        PROVE  [\A t \in Builds, i \in Variants :
                  ~crossed[t] /\ (\A a \in Arches : IsHighestBuild(t, leg[t][a].saw)) =>
                      /\ MovesVersion(t, i) => version'[i][t.up] = Own(t)
                      /\ MovesFloating(t, i) => floating'[i] = Own(t)]_vars
    <2> SUFFICES ASSUME Next, NEW t \in Builds, NEW i \in Variants, ~crossed[t], Publishing(t)
                 PROVE  /\ MovesVersion(t, i) => version'[i][t.up] = Own(t)
                        /\ MovesFloating(t, i) => floating'[i] = Own(t)
      BY <1>1 DEF Publishing
    <2>0. IInv /\ TypeOK /\ Uncrossed(t) BY <1>1 DEF IInv, Good
    <2>1. ASSUME MovesVersion(t, i) PROVE version'[i][t.up] = Own(t)
      <3>1. /\ run[t] = "manifest" /\ \A a \in Arches : staged[i][a] # Absent
            /\ version' = [version EXCEPT ![i] = [version[i] EXCEPT ![t.up] = staged[i]]]
        BY <2>0, <2>1, MovesAre
      <3>2. staged[i] = Own(t) BY <2>0, <3>1, StagedOwn
      <3>3. t.up \in Upstreams BY BuildFacts
      <3> QED BY <2>0, <3>1, <3>2, <3>3 DEF TypeOK
    <2>2. ASSUME MovesFloating(t, i) PROVE floating'[i] = Own(t)
      <3>1. Slide(t, i) BY <2>0, <2>2, MovesAre
      <3>2. floating'[i] = digest[t][i] /\ run[t] = "manifest" /\ done[t] = 2 * LastVariant + i - 1
        BY <2>0, <3>1 DEF Slide, TypeOK
      <3>3. 2 * i <= done[t] BY <3>2, BuildFacts DEF Variants
      <3> QED BY <2>0, <3>2, <3>3 DEF Uncrossed, MovedIsOwn
    <2> QED BY <2>1, <2>2
  <1> QED BY <1>1, AlwaysIInv, PTL DEF Spec, StitchesItsOwn

\* A run takes a name from a higher build only if it planned before that build's tag
\* was there: runs of a product go back on nothing they could know of.
THEOREM RunsPassNothingSeenBack == Spec => NothingSeenIsPassedBack
  <1>1. ASSUME IInv, [Next]_vars
        PROVE  [\A t \in Builds, i \in Variants, a \in Arches :
                  /\ MovesVersion(t, i) =>
                        LET s == version[i][t.up][a]
                        IN s.up = t.up /\ s.rev > t.rev => s \notin outs[t]
                  /\ MovesFloating(t, i) =>
                        (Below(t, floating[i][a]) => floating[i][a] \notin outs[t])]_vars
    <2> SUFFICES ASSUME Next, NEW t \in Builds, NEW i \in Variants, NEW a \in Arches
                 PROVE  /\ MovesVersion(t, i) =>
                              LET s == version[i][t.up][a]
                              IN s.up = t.up /\ s.rev > t.rev => s \notin outs[t]
                        /\ MovesFloating(t, i) =>
                              (Below(t, floating[i][a]) => floating[i][a] \notin outs[t])
      BY <1>1
    <2>0. IInv /\ TypeOK /\ InOrder(t) BY <1>1 DEF IInv, Good
    <2>1. \A s \in outs[t] : s.up \in Nat /\ s.rev \in Nat
      BY <2>0, BuildFacts DEF TypeOK
    <2>2. t.up \in Nat /\ t.rev \in Nat BY BuildFacts
    <2>3. ASSUME MovesVersion(t, i), NEW s \in outs[t], s.up = t.up, s.rev > t.rev PROVE FALSE
      <3>1. run[t] = "manifest" BY <2>0, <2>3, MovesAre
      <3>2. IsHighestBuild(t, outs[t]) BY <2>0, <3>1 DEF InOrder
      <3> QED BY <2>1, <2>2, <2>3, <3>2 DEF IsHighestBuild
    <2>4. ASSUME MovesFloating(t, i), NEW s \in outs[t], Below(t, s) PROVE FALSE
      <3>1. Slide(t, i) BY <2>0, <2>4, MovesAre
      <3>2. done[t] = 2 * LastVariant + i - 1 /\ done[t] < StepsOf(t) BY <3>1 DEF Slide
      <3>3. Tops(t, outs[t])
        BY <3>2, BuildFacts DEF StepsOf, Variants
      <3>4. s = t \/ Below(s, t) BY <3>3 DEF Tops, IsHighestStable
      <3> QED BY <2>1, <2>2, <2>4, <3>4 DEF Below
    <2> QED BY <2>3, <2>4
  <1> QED BY <1>1, AlwaysIInv, PTL DEF Spec, NothingSeenIsPassedBack

\* A run that ends green uncrossed has left the names as they should be by then.
THEOREM GreenRunsHavePublished == Spec => GreenMeansPublished
  <1>1. ASSUME IInv, [Next]_vars
        PROVE  [\A t \in Builds :
                  run[t] \in {"build", "manifest"} /\ run'[t] = "done" /\ ~crossed[t] =>
                      \A i \in Variants :
                          /\ IsHighestBuild(t, Seen) => version'[i][t.up] = Own(t)
                          /\ IsHighestStable(t, Seen) => floating'[i] = Own(t)]_vars
    <2> SUFFICES ASSUME Next, NEW t \in Builds, run[t] \in {"build", "manifest"},
                        run'[t] = "done", ~crossed[t], NEW i \in Variants
                 PROVE  /\ IsHighestBuild(t, Seen) => version'[i][t.up] = Own(t)
                        /\ IsHighestStable(t, Seen) => floating'[i] = Own(t)
      BY <1>1
    <2>0. IInv /\ TypeOK /\ Uncrossed(t) BY <1>1 DEF IInv, Good
    <2>1. /\ IsHighestBuild(t, Seen) => Publishing(t)
          /\ IsHighestStable(t, Seen) => IsHighestBuild(t, Seen) /\ Tops(t, outs[t])
      BY <2>0, HighestWasPlanned
    <2>2. ASSUME NEW a \in Arches, FinishLeg(t, a) PROVE ~IsHighestBuild(t, Seen)
      <3> DEFINE legs == leg'[t]  saw == leg[t][a].saw
      <3>1. run'[t] = Onward(t, legs, saw) BY <2>0, <2>2 DEF FinishLeg, TypeOK
      <3>2. Onward(t, legs, saw) = "done" => ~IsHighestBuild(t, saw)
        <4> HIDE DEF legs, saw
        <4> QED BY OnwardIs
      <3> QED BY <2>1, <3>1, <3>2 DEF Publishing
    <2>3. CASE Finish(t)
      <3>1. run[t] = "manifest" /\ done[t] = StepsOf(t) /\ UNCHANGED <<version, floating>>
        BY <2>3 DEF Finish, package
      <3>2. i \in 1..LastVariant /\ LastVariant \in Nat BY BuildFacts DEF Variants
      <3>3. Publishing(t) =>
                /\ 2 * i - 1 <= done[t] => version[i][t.up] = Own(t)
                /\ 2 * LastVariant + i <= done[t] => floating[i] = Own(t)
        BY <2>0, <3>1 DEF Uncrossed, MovedIsOwn
      <3>4. 2 * i - 1 <= done[t] BY <3>1, <3>2 DEF StepsOf
      <3>5. Tops(t, outs[t]) => 2 * LastVariant + i <= done[t] BY <3>1, <3>2 DEF StepsOf
      <3> QED BY <2>1, <3>1, <3>3, <3>4, <3>5
    <2>4. Finish(t) \/ \E a \in Arches : FinishLeg(t, a) BY <2>0, GreenIs
    <2> QED BY <2>1, <2>2, <2>3, <2>4
  <1> QED BY <1>1, AlwaysIInv, PTL DEF Spec, GreenMeansPublished
=============================================================================
