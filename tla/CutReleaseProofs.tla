--------------------------- MODULE CutReleaseProofs ---------------------------
(***************************************************************************)
(* What tag.yml's jobs and a rebuild by hand keep for any products, any    *)
(* number of pushes, of jobs at once, of faults and of rebuilds: the type  *)
(* invariant; a published tag never moves; every tag names the version its *)
(* commit pins; a green job has released what its push pinned; and nothing *)
(* is built a second time that was not asked for by hand.                  *)
(***************************************************************************)
EXTENDS CutRelease, WellFoundedInduction, TLAPS

\* What a release that is decided and a release that is tagged have in common:
\* it is of a commit on main, and of the version that commit pins.
Fits(t, k) == k \in 1..Len(main) /\ main[k][t.product].up = t.up

\* CutsCanPublish is not inductive by itself: it needs the same of what the jobs
\* and the desk have decided, and that a job's commit is on main.
Started == \A k \in Commits : pc[k] # "none" => k <= Len(main)
DueFits == \A k \in Commits : \A t \in due[k] : Fits(t, k)
DeskFits == /\ desk # 0 => desk \in 1..Len(main)
            /\ \A t \in deskDue : Fits(t, desk)
TagsFit == \A t \in Release : tags[t] # 0 => Fits(t, tags[t])

IInv == TypeOK /\ Started /\ DueFits /\ DeskFits /\ TagsFit

\* next_release numbers a build of the product and version it is asked about.
LEMMA NextReleaseFits ==
    ASSUME NEW seen, NEW p, NEW u, NEW t \in NextRelease(seen, p, u)
    PROVE  t \in Release /\ t.product = p /\ t.up = u
  BY DEF NextRelease

\* What a job decides fits the commit it has checked out.
LEMMA DecidedFits ==
    ASSUME NEW p, NEW k \in 1..Len(main), NEW seen,
           NEW t \in Decide(p, k, seen) \cup DecideRebuild(p, k, seen)
    PROVE  t \in Release /\ t.product = p /\ Fits(t, k)
  <1>1. t \in NextRelease(seen, p, main[k][p].up)
    BY DEF Decide, DecideRebuild
  <1> QED BY <1>1, NextReleaseFits DEF Fits

\* A push gives the forge at most the one tag, and only if it has none.
LEMMA PushedOnce ==
    ASSUME NEW t \in Release, NEW k \in Commits, TypeOK
    PROVE  /\ Pushed(t, k) \in [Release -> 0..MaxPushes]
           /\ \A s \in Release : tags[s] # 0 => Pushed(t, k)[s] = tags[s]
           /\ \A s \in Release : Pushed(t, k)[s] # 0 =>
                 Pushed(t, k)[s] = tags[s] \/ (s = t /\ Pushed(t, k)[s] = k)
  <1>1. MaxPushes \in Nat BY CutAssumption
  <1> QED BY <1>1 DEF Pushed, TypeOK, Commits

LEMMA InitIInv == Init => IInv
  <1> SUFFICES ASSUME Init PROVE IInv OBVIOUS
  <1> USE CutAssumption
  <1>1. PICK pins \in [Products -> {[up |-> 1, app |-> 1]}] : main = <<pins>>
    BY DEF Init
  <1>2. main \in Seq([Products -> Pin]) /\ Len(main) = 1 /\ 1 \in Commits
    <2>1. pins \in [Products -> Pin] BY DEF Pin, Odd
    <2> QED BY <1>1, <2>1 DEF Commits
  <1>3. TypeOK
    <2>1. tags \in [Release -> 0..MaxPushes] BY DEF Init
    <2>2. /\ pc \in [Commits -> {"none", "queued", "push", "done", "failed"}]
          /\ due \in [Commits -> SUBSET Release]
      BY DEF Init
    <2>3. /\ desk \in 0..MaxPushes /\ deskDue \in SUBSET Release
          /\ deskTags \in SUBSET Release /\ rebuilt \in SUBSET Release
          /\ faults \in 0..MaxFaults /\ reruns \in 0..MaxReruns
      BY DEF Init
    <2> QED BY <1>2, <2>1, <2>2, <2>3 DEF TypeOK
  <1>4. Started BY <1>2 DEF Started, Init, Commits
  <1>5. DueFits /\ DeskFits /\ TagsFit BY DEF DueFits, DeskFits, TagsFit, Init
  <1> QED BY <1>3, <1>4, <1>5 DEF IInv

\* A push to main leaves what the commits before it pin alone.
LEMMA PushIInv ==
    ASSUME IInv, NEW p \in Products, NEW pin \in Pin, Push(p, pin)
    PROVE  IInv'
  <1> USE CutAssumption
  <1> DEFINE last == main[Len(main)]
  <1>1. last \in [Products -> Pin] /\ [last EXCEPT ![p] = pin] \in [Products -> Pin]
    BY DEF IInv, TypeOK, Commits
  <1>2. /\ main' \in Seq([Products -> Pin]) /\ Len(main') = Len(main) + 1
        /\ Len(main') \in Commits
        /\ \A k \in 1..Len(main) : main'[k] = main[k]
    BY <1>1 DEF IInv, TypeOK, Push, Commits
  <1>3. TypeOK'
    BY <1>2 DEF IInv, TypeOK, Push, hand, Commits
  <1>4. \A t \in Release, k \in 0..MaxPushes : Fits(t, k) => Fits(t, k)'
    BY <1>2 DEF Fits, IInv, TypeOK, Commits
  <1>5. Started'
    BY <1>2 DEF Started, IInv, TypeOK, Push, Commits
  <1>6. DueFits'
    BY <1>4 DEF DueFits, IInv, TypeOK, Push, Commits
  <1>7. DeskFits'
    BY <1>2, <1>4 DEF DeskFits, IInv, TypeOK, Push, hand, Commits
  <1>8. TagsFit'
    BY <1>4 DEF TagsFit, IInv, TypeOK, Push
  <1> QED BY <1>3, <1>5, <1>6, <1>7, <1>8 DEF IInv

LEMMA CutDecideIInv ==
    ASSUME IInv, NEW k \in Commits, CutDecide(k)
    PROVE  IInv'
  <1> USE CutAssumption
  <1> DEFINE decided == UNION {Decide(p, k, SeenByJob) : p \in Products}
  <1>1. k \in 1..Len(main) BY DEF IInv, Started, CutDecide, Commits, TypeOK
  <1>2. \A t \in decided : t \in Release /\ Fits(t, k)
    BY <1>1, DecidedFits
  <1>3. due' = [due EXCEPT ![k] = decided] /\ UNCHANGED <<main, tags, hand, faults, reruns>>
    BY DEF CutDecide
  <1>4. pc' = [pc EXCEPT ![k] = IF due'[k] = {} THEN "done" ELSE "push"] /\ pc[k] = "queued"
    BY DEF CutDecide
  <1> HIDE DEF decided
  <1>5. TypeOK' BY <1>2, <1>3, <1>4 DEF IInv, TypeOK, hand
  <1>6. Started' BY <1>3, <1>4 DEF IInv, Started, TypeOK
  <1>7. DueFits' BY <1>2, <1>3 DEF IInv, DueFits, Fits, TypeOK
  <1>8. DeskFits' /\ TagsFit' BY <1>3 DEF IInv, DeskFits, TagsFit, Fits, hand
  <1> QED BY <1>5, <1>6, <1>7, <1>8 DEF IInv

LEMMA CutPushIInv ==
    ASSUME IInv, NEW k \in Commits, CutPush(k)
    PROVE  IInv'
  <1> USE CutAssumption
  <1>1. PICK t \in NextOf(due[k]) :
           /\ tags' = Pushed(t, Checkout(k))
           /\ due' = [due EXCEPT ![k] = IF Raises(t) THEN {} ELSE @ \ {t}]
           /\ pc' = [pc EXCEPT ![k] = IF Raises(t) THEN "failed"
                                      ELSE IF due'[k] = {} THEN "done" ELSE "push"]
    BY DEF CutPush
  <1>2. t \in due[k] /\ t \in Release /\ Fits(t, k)
    BY DEF NextOf, IInv, TypeOK, DueFits
  <1>3. UNCHANGED <<main, hand, faults, reruns>> /\ pc[k] = "push"
    BY DEF CutPush
  <1>4. tags' = Pushed(t, k) BY <1>1 DEF Checkout
  <1>5. TypeOK'
    BY <1>1, <1>2, <1>3, <1>4, PushedOnce DEF IInv, TypeOK, hand
  <1>6. Started' BY <1>1, <1>3 DEF IInv, Started, TypeOK
  <1>7. DueFits' BY <1>1, <1>3 DEF IInv, DueFits, Fits, TypeOK
  <1>8. DeskFits' BY <1>3 DEF IInv, DeskFits, Fits, hand
  <1>9. TagsFit'
    <2> SUFFICES ASSUME NEW s \in Release, tags'[s] # 0 PROVE Fits(s, tags[s])'
      BY DEF TagsFit
    <2>1. main' = main BY <1>3
    <2>2. tags'[s] = tags[s] \/ (s = t /\ tags'[s] = k)
      <3>1. TypeOK BY DEF IInv
      <3>2. Pushed(t, k)[s] # 0 => Pushed(t, k)[s] = tags[s] \/ (s = t /\ Pushed(t, k)[s] = k)
        BY <1>2, <3>1, PushedOnce
      <3> QED BY <1>4, <3>2
    <2>3. CASE tags'[s] = tags[s] BY <2>1, <2>3 DEF IInv, TagsFit, Fits
    <2>4. CASE s = t /\ tags'[s] = k BY <1>2, <2>1, <2>4 DEF Fits
    <2> QED BY <2>2, <2>3, <2>4
  <1> QED BY <1>5, <1>6, <1>7, <1>8, <1>9 DEF IInv

LEMMA CutFailsIInv ==
    ASSUME IInv, NEW k \in Commits, CutFails(k)
    PROVE  IInv'
  <1> USE CutAssumption
  <1>1. /\ UNCHANGED <<main, hand, reruns>>
        /\ faults' = faults + 1 /\ faults < MaxFaults
        /\ pc' = [pc EXCEPT ![k] = "failed"] /\ pc[k] \in {"queued", "push"}
        /\ due' = [due EXCEPT ![k] = {}]
    BY DEF CutFails
  <1>2. \/ tags' = tags
        \/ \E t \in NextOf(due[k]) : tags' = Pushed(t, k)
    BY DEF CutFails, Checkout
  <1>3. \/ tags' = tags
        \/ \E t \in Release : Fits(t, k) /\ tags' = Pushed(t, k)
    BY <1>2 DEF NextOf, IInv, TypeOK, DueFits
  <1>4. tags' \in [Release -> 0..MaxPushes] /\ TagsFit'
    <2>1. CASE tags' = tags BY <1>1, <2>1 DEF IInv, TypeOK, TagsFit, Fits
    <2>2. CASE \E t \in Release : Fits(t, k) /\ tags' = Pushed(t, k)
      <3>1. PICK t \in Release : Fits(t, k) /\ tags' = Pushed(t, k) BY <2>2
      <3> QED BY <1>1, <3>1, PushedOnce DEF IInv, TagsFit, Fits
    <2> QED BY <1>3, <2>1, <2>2
  <1>5. TypeOK' BY <1>1, <1>4 DEF IInv, TypeOK, hand
  <1>6. Started' BY <1>1 DEF IInv, Started, TypeOK
  <1>7. DueFits' BY <1>1 DEF IInv, DueFits, Fits, TypeOK
  <1>8. DeskFits' BY <1>1 DEF IInv, DeskFits, Fits, hand
  <1> QED BY <1>4, <1>5, <1>6, <1>7, <1>8 DEF IInv

LEMMA RerunIInv ==
    ASSUME IInv, NEW k \in Commits, Rerun(k)
    PROVE  IInv'
  <1> USE CutAssumption DEF IInv, Rerun, hand
  <1>1. TypeOK' BY DEF TypeOK
  <1>2. Started' BY DEF Started, TypeOK
  <1>3. DueFits' /\ DeskFits' /\ TagsFit' BY DEF DueFits, DeskFits, TagsFit, Fits
  <1> QED BY <1>1, <1>2, <1>3

LEMMA DeskRebuildIInv ==
    ASSUME IInv, NEW p \in Products, NEW k \in Commits, DeskRebuild(p, k)
    PROVE  IInv'
  <1> USE CutAssumption
  <1>1. /\ k \in 1..Len(main) /\ desk' = k
        /\ deskDue' = DecideRebuild(p, k, Fetched \cup deskTags)
        /\ UNCHANGED <<main, tags, jobs, deskTags, rebuilt, faults, reruns>>
    BY DEF DeskRebuild, IInv, TypeOK, Commits
  <1>2. \A t \in deskDue' : t \in Release /\ Fits(t, k)
    BY <1>1, DecidedFits
  <1>3. TypeOK'
    <2>1. deskDue' \in SUBSET Release BY <1>2
    <2>2. k \in 0..MaxPushes BY DEF Commits
    <2>3. desk' \in 0..MaxPushes BY <1>1, <2>2
    <2> QED BY <1>1, <2>1, <2>3 DEF IInv, TypeOK, jobs
  <1>4. DeskFits' BY <1>1, <1>2 DEF DeskFits, Fits
  <1>5. Started' /\ DueFits' /\ TagsFit'
    BY <1>1 DEF IInv, Started, DueFits, TagsFit, Fits, jobs
  <1> QED BY <1>3, <1>4, <1>5 DEF IInv

LEMMA DeskPushIInv ==
    ASSUME IInv, NEW ok \in BOOLEAN, DeskPush(ok)
    PROVE  IInv'
  <1> USE CutAssumption
  <1>1. /\ desk # 0 /\ desk' = 0 /\ deskDue' = {}
        /\ UNCHANGED <<main, jobs, reruns>>
        /\ faults' \in 0..MaxFaults
    BY DEF DeskPush, IInv, TypeOK
  <1>2. PICK t \in NextOf(deskDue) :
          \/ /\ tags' = Pushed(t, desk)
             /\ rebuilt' = rebuilt \cup {t}
             /\ UNCHANGED deskTags
          \/ /\ deskTags' = IF tags[t] = 0 THEN deskTags \cup {t} ELSE deskTags
             /\ UNCHANGED <<tags, rebuilt>>
    BY DEF DeskPush
  <1>3. t \in Release /\ Fits(t, desk) /\ desk \in Commits
    BY <1>1 DEF NextOf, IInv, TypeOK, DeskFits, Commits
  <1>4. tags' \in [Release -> 0..MaxPushes] /\ TagsFit'
    <2>1. CASE tags' = Pushed(t, desk)
      <3> DEFINE new == Pushed(t, desk)
      <3>1. /\ new \in [Release -> 0..MaxPushes]
            /\ \A s \in Release : new[s] # 0 =>
                  new[s] = tags[s] \/ (s = t /\ new[s] = desk)
        BY <1>3, PushedOnce DEF IInv
      <3> HIDE DEF new
      <3>2. \A s \in Release : new[s] # 0 => Fits(s, new[s])
        BY <1>3, <3>1 DEF IInv, TagsFit
      <3>3. tags' = new BY <2>1 DEF new
      <3>4. TagsFit' BY <1>1, <3>2, <3>3 DEF TagsFit, Fits
      <3> QED BY <3>1, <3>3, <3>4
    <2>2. CASE tags' = tags
      BY <1>1, <2>2 DEF IInv, TypeOK, TagsFit, Fits
    <2> QED BY <1>2, <2>1, <2>2
  <1>5. TypeOK' BY <1>1, <1>2, <1>3, <1>4 DEF IInv, TypeOK, jobs
  <1>6. DeskFits' BY <1>1 DEF DeskFits
  <1>7. Started' /\ DueFits' BY <1>1 DEF IInv, Started, DueFits, Fits, jobs
  <1> QED BY <1>4, <1>5, <1>6, <1>7 DEF IInv

LEMMA NextIInv == IInv /\ [Next]_vars => IInv'
  <1> SUFFICES ASSUME IInv, [Next]_vars PROVE IInv' OBVIOUS
  <1>1. CASE \E p \in Products, pin \in Pin : Push(p, pin) BY <1>1, PushIInv
  <1>2. CASE \E k \in Commits : Job(k)
    BY <1>2, CutDecideIInv, CutPushIInv DEF Job
  <1>3. CASE \E k \in Commits : CutFails(k) \/ Rerun(k)
    BY <1>3, CutFailsIInv, RerunIInv
  <1>4. CASE \E p \in Products, k \in Commits : DeskRebuild(p, k)
    BY <1>4, DeskRebuildIInv
  <1>5. CASE \E ok \in BOOLEAN : DeskPush(ok) BY <1>5, DeskPushIInv
  <1>6. CASE UNCHANGED vars
    BY <1>6 DEF vars, jobs, hand, IInv, TypeOK, Started, DueFits, DeskFits, TagsFit, Fits
  <1> QED BY <1>1, <1>2, <1>3, <1>4, <1>5, <1>6 DEF Next

LEMMA AlwaysIInv == Spec => []IInv
  BY InitIInv, NextIInv, PTL DEF Spec

\* Every variable of the jobs, the forge and the desk keeps its type.
THEOREM CutTypes == Spec => []TypeOK
  <1>1. IInv => TypeOK BY DEF IInv
  <1> QED BY <1>1, AlwaysIInv, PTL

\* Every release on the forge names the version its own commit pins, whoever pushed
\* it and whatever main has become since: release_plan.plan never refuses its pin.
THEOREM EveryCutCanPublish == Spec => []CutsCanPublish
  <1>1. IInv => CutsCanPublish
    BY DEF IInv, TagsFit, Fits, CutsCanPublish, Fetched
  <1> QED BY <1>1, AlwaysIInv, PTL

\* What no step takes back: a tag the forge has, a commit on main.
Keeps == /\ \A t \in Release : tags[t] # 0 => tags'[t] = tags[t]
         /\ Len(main) <= Len(main')
         /\ \A k \in 1..Len(main) : main'[k] = main[k]

LEMMA StepKeeps == ASSUME IInv, Next PROVE Keeps
  <1> USE CutAssumption
  <1>1. CASE \E p \in Products, pin \in Pin : Push(p, pin)
    <2>1. PICK p \in Products, pin \in Pin : Push(p, pin) BY <1>1
    <2>2. [main[Len(main)] EXCEPT ![p] = pin] \in [Products -> Pin]
      BY DEF IInv, TypeOK, Commits
    <2> QED BY <2>1, <2>2 DEF Keeps, Push, IInv, TypeOK
  <1>2. ASSUME main' = main, \A t \in Release : tags[t] # 0 => tags'[t] = tags[t]
        PROVE  Keeps
    <2>1. Len(main) \in Nat BY DEF IInv, TypeOK, Commits
    <2> QED BY <1>2, <2>1 DEF Keeps
  <1>3. CASE \E k \in Commits : CutPush(k)
    <2>1. PICK k \in Commits, t \in Release : tags' = Pushed(t, k) /\ main' = main
      BY <1>3 DEF CutPush, NextOf, Checkout, IInv, TypeOK
    <2> QED BY <2>1, <1>2, PushedOnce DEF IInv
  <1>4. CASE \E k \in Commits : CutFails(k)
    <2>1. PICK k \in Commits : CutFails(k) BY <1>4
    <2>2. main' = main /\ (tags' = tags \/ \E t \in Release : tags' = Pushed(t, k))
      BY <2>1 DEF CutFails, NextOf, Checkout, IInv, TypeOK
    <2> QED BY <2>2, <1>2, PushedOnce DEF IInv
  <1>5. CASE \E ok \in BOOLEAN : DeskPush(ok)
    <2>1. desk \in Commits BY <1>5 DEF DeskPush, IInv, TypeOK, Commits
    <2>2. main' = main /\ (tags' = tags \/ \E t \in Release : tags' = Pushed(t, desk))
      BY <1>5 DEF DeskPush, NextOf, IInv, TypeOK
    <2> QED BY <2>1, <2>2, <1>2, PushedOnce DEF IInv
  <1>6. CASE UNCHANGED <<main, tags>> BY <1>6, <1>2
  <1> QED BY <1>1, <1>3, <1>4, <1>5, <1>6
          DEF Next, Job, CutDecide, Rerun, DeskRebuild

\* No step of a job, of a failure or of the desk moves a tag the forge has.
THEOREM PublishedTagsStay == Spec => TagsNeverMove
  <1> DEFINE Stay == \A t \in Release : tags[t] # 0 => tags'[t] = tags[t]
  <1>1. IInv /\ [Next]_vars => [Stay]_vars
    BY StepKeeps DEF Keeps
  <1>2. Spec => [][Stay]_vars
    BY <1>1, AlwaysIInv, PTL DEF Spec
  <1> QED BY <1>2 DEF TagsNeverMove

-----------------------------------------------------------------------------
(* A green job has released what its push pinned.                           *)

\* The pin of product p in commit k is released, as PinsReleased has it.
Released(p, k) == \E t \in BuildsOf(Fetched, p, main[k][p].up) :
                      p \in Tracked => main[tags[t]][p] = main[k][p]

\* The job of commit k still owes product p its build.
Owes(p, k) == \E t \in due[k] : t.product = p /\ t.up = main[k][p].up

\* A job at work has, or still owes, every build its pins ask for.
ReleaseInv == \A k \in Commits :
    /\ pc[k] = "push" => \A p \in Products : main[k][p].up \in Unversioned \/ Released(p, k) \/ Owes(p, k)
    /\ pc[k] = "done" => PinsReleased(k)

\* Any builds of a version have a highest one: the least of what is left to the
\* bound of the build numbers is that of the highest number.
LEMMA SomeBuildIsTop ==
    ASSUME NEW same \in SUBSET Release, same # {}
    PROVE  \E t \in same : IsTop(t, same)
  <1> USE CutAssumption
  <1> DEFINE N == MaxRev
             Left == {N - t.rev : t \in same}
             Below == OpToRel(<, Nat)
  <1>1. N \in Nat /\ \A t \in same : t.rev \in 1..N
    BY DEF Release, MaxRev
  <1>2. Left \subseteq Nat /\ Left # {}
    BY <1>1
  <1>3. IsWellFoundedOn(Below, Nat)
    BY NatLessThanWellFounded
  <1>4. PICK n \in Left : \A m \in Left : <<m, n>> \notin Below
    <2> HIDE DEF Left, Below
    <2> QED BY <1>2, <1>3, WFMin
  <1>5. PICK t \in same : n = N - t.rev
    BY <1>4
  <1>6. ASSUME NEW s \in same PROVE s.rev <= t.rev
    <2>1. N - s.rev \in Left /\ N - s.rev \in Nat /\ n \in Nat
      BY <1>2, <1>4
    <2>2. ~(N - s.rev < n)
      BY <1>4, <2>1 DEF OpToRel
    <2> QED BY <1>1, <1>5, <2>1, <2>2
  <1> QED BY <1>5, <1>6 DEF IsTop

\* The tags of the forge are releases, each of a commit on main.
LEMMA FetchedOnMain ==
    ASSUME IInv, NEW t \in Fetched
    PROVE  t \in Release /\ tags[t] # 0 /\ tags[t] \in 1..Len(main)
  BY DEF IInv, TagsFit, Fits, Fetched

\* What is released stays released.
LEMMA ReleasedStays ==
    ASSUME IInv, Keeps, NEW p \in Products, NEW k \in 1..Len(main), Released(p, k)
    PROVE  Released(p, k)'
  <1>1. main'[k] = main[k] BY DEF Keeps
  <1>2. PICK t \in Fetched : /\ Parses(t) /\ t.product = p /\ t.up = main[k][p].up
                             /\ p \in Tracked => main[tags[t]][p] = main[k][p]
    BY DEF Released, BuildsOf
  <1>3. t \in Release /\ tags[t] # 0 /\ tags[t] \in 1..Len(main)
    BY FetchedOnMain
  <1>4. tags'[t] = tags[t] /\ main'[tags[t]] = main[tags[t]]
    BY <1>3 DEF Keeps
  <1>5. t \in Fetched' BY <1>3, <1>4 DEF Fetched
  <1> QED BY <1>1, <1>2, <1>4, <1>5 DEF Released, BuildsOf

LEMMA PinsAreReleased ==
    ASSUME NEW k
    PROVE  PinsReleased(k) <=> \A p \in Products : main[k][p].up \in Unversioned \/ Released(p, k)
  BY DEF PinsReleased, Released

\* After `decide` a product's pins are released or their build is due.
LEMMA DecidedOwes ==
    ASSUME IInv, NEW p \in Products, NEW k \in 1..Len(main), main[k][p].up \notin Unversioned,
           IsDue(p, k, Fetched) => NumberLeft(p, k, Fetched)
    PROVE  \/ Released(p, k)
           \/ \E t \in Decide(p, k, Fetched) : t.product = p /\ t.up = main[k][p].up
  <1> DEFINE u == main[k][p].up
             same == BuildsOf(Fetched, p, u)
  <1>1. CASE IsDue(p, k, Fetched)
    <2>1. PICK t \in NextRelease(Fetched, p, u) : TRUE
      BY <1>1 DEF NumberLeft
    <2>2. t.product = p /\ t.up = u
      BY <2>1, NextReleaseFits
    <2>3. t \in Decide(p, k, Fetched)
      BY <1>1, <2>1 DEF Decide
    <2> QED BY <2>2, <2>3
  <1>2. CASE ~IsDue(p, k, Fetched)
    <2>1. same # {} /\ \A t \in same : IsTop(t, same) => ~PinsChanged(p, k, t)
      BY <1>2 DEF IsDue, Unversioned
    <2>2. same \in SUBSET Release
      BY DEF BuildsOf, Fetched
    <2>3. PICK t \in same : IsTop(t, same)
      <3> HIDE DEF same
      <3> QED BY <2>1, <2>2, SomeBuildIsTop
    <2>4. ~PinsChanged(p, k, t)
      BY <2>1, <2>3
    <2> QED BY <2>3, <2>4 DEF Released, PinsChanged
  <1> QED BY <1>1, <1>2

\* A push that is taken settles what the job owes its product.
LEMMA TakenIsReleased ==
    ASSUME IInv, NEW k \in 1..Len(main), NEW t \in Release, Fits(t, k),
           main' = main, tags' = [tags EXCEPT ![t] = k],
           main[k][t.product].up \notin Unversioned
    PROVE  Released(t.product, k)'
  <1> USE CutAssumption
  <1>1. tags'[t] = k /\ k # 0
    BY DEF IInv, TypeOK
  <1>2. t \in Fetched' BY <1>1 DEF Fetched
  <1> QED BY <1>1, <1>2 DEF Released, BuildsOf, Fits, Parses, Unversioned

LEMMA ReleasedNext == IInv /\ ReleaseInv /\ [Next]_vars => ReleaseInv'
  <1> USE CutAssumption
  <1> SUFFICES ASSUME IInv, ReleaseInv, [Next]_vars PROVE ReleaseInv' OBVIOUS
  <1>0. CASE UNCHANGED vars
    <2>1. main' = main /\ tags' = tags /\ pc' = pc /\ due' = due BY <1>0 DEF vars, jobs
    <2>2. \A p, k : Released(p, k)' <=> Released(p, k)
      BY <2>1 DEF Released, BuildsOf, Fetched
    <2>3. \A p, k : Owes(p, k)' <=> Owes(p, k)
      BY <2>1 DEF Owes
    <2>4. \A k : PinsReleased(k)' <=> PinsReleased(k)
      BY <2>1 DEF PinsReleased, BuildsOf, Fetched
    <2> QED BY <2>1, <2>2, <2>3, <2>4 DEF ReleaseInv
  <1> SUFFICES ASSUME Next PROVE ReleaseInv' BY <1>0
  <1>k. Keeps BY StepKeeps
  <1>m. \A k \in Commits : pc[k] # "none" => k \in 1..Len(main)
    BY DEF IInv, Started, Commits, TypeOK
  \* A job whose own state is left alone keeps what it has.
  <1>u. ASSUME NEW k \in Commits, pc'[k] = pc[k], due'[k] = due[k]
        PROVE  /\ pc'[k] = "push" => \A p \in Products :
                     (main[k][p].up \in Unversioned \/ Released(p, k) \/ Owes(p, k))'
               /\ pc'[k] = "done" => PinsReleased(k)'
    <2> SUFFICES ASSUME pc[k] \in {"push", "done"}
                 PROVE  /\ pc[k] = "push" => \A p \in Products :
                              (main[k][p].up \in Unversioned \/ Released(p, k) \/ Owes(p, k))'
                        /\ pc[k] = "done" => PinsReleased(k)'
      BY <1>u
    <2>1. k \in 1..Len(main) BY <1>m
    <2>2. main'[k] = main[k] BY <2>1, <1>k DEF Keeps
    <2>3. \A p \in Products : Released(p, k) => Released(p, k)'
      BY <2>1, <1>k, ReleasedStays
    <2>4. \A p \in Products : Owes(p, k) => Owes(p, k)'
      BY <1>u, <2>2 DEF Owes
    <2>5. PinsReleased(k)' <=> \A p \in Products : (main[k][p].up \in Unversioned \/ Released(p, k))'
      BY DEF PinsReleased, Released
    <2> QED BY <2>2, <2>3, <2>4, <2>5, PinsAreReleased DEF ReleaseInv
  \* Two jobs at most are not: the one that steps, and one that is started.
  <1>w. ASSUME NEW k \in Commits,
               \A j \in Commits \ {k} : pc'[j] = pc[j] /\ due'[j] = due[j],
               pc'[k] = "push" => \A p \in Products :
                     (main[k][p].up \in Unversioned \/ Released(p, k) \/ Owes(p, k))',
               pc'[k] = "done" => PinsReleased(k)'
        PROVE  ReleaseInv'
    BY <1>u, <1>w DEF ReleaseInv
  <1>1. ASSUME NEW p \in Products, NEW pin \in Pin, Push(p, pin) PROVE ReleaseInv'
    <2>1. Len(main) + 1 \in Commits /\ pc' = [pc EXCEPT ![Len(main) + 1] = "queued"]
          /\ due' = due
      BY <1>1 DEF Push, IInv, TypeOK, Commits
    <2>2. pc'[Len(main) + 1] = "queued"
          /\ \A j \in Commits \ {Len(main) + 1} : pc'[j] = pc[j] /\ due'[j] = due[j]
      BY <2>1 DEF IInv, TypeOK
    <2> QED BY <2>1, <2>2, <1>w
  <1>2. ASSUME NEW k \in Commits, CutDecide(k) PROVE ReleaseInv'
    <2> DEFINE decided == UNION {Decide(p, k, SeenByJob) : p \in Products}
    <2>1. /\ due' = [due EXCEPT ![k] = decided] /\ main' = main /\ tags' = tags
          /\ pc' = [pc EXCEPT ![k] = IF due'[k] = {} THEN "done" ELSE "push"]
          /\ pc[k] = "queued"
          /\ \A p \in Products : IsDue(p, k, SeenByJob) => NumberLeft(p, k, SeenByJob)
      BY <1>2 DEF CutDecide
    <2>2. k \in 1..Len(main) BY <2>1, <1>m
    <2>3. \A p \in Products : \/ main[k][p].up \in Unversioned \/ Released(p, k)
                              \/ \E t \in decided : t.product = p /\ t.up = main[k][p].up
      BY <2>1, <2>2, DecidedOwes DEF SeenByJob
    <2> HIDE DEF decided
    <2>4. due'[k] = decided /\ pc'[k] = (IF decided = {} THEN "done" ELSE "push")
          /\ \A j \in Commits \ {k} : pc'[j] = pc[j] /\ due'[j] = due[j]
      BY <2>1 DEF IInv, TypeOK
    <2>5. \A p \in Products : Released(p, k)' <=> Released(p, k)
      BY <2>1 DEF Released, Fetched
    <2>6. \A p \in Products : (main[k][p].up \in Unversioned \/ Released(p, k) \/ Owes(p, k))'
      BY <2>1, <2>3, <2>4, <2>5 DEF Owes
    <2>7. decided = {} => PinsReleased(k)'
      <3>1. decided = {} => \A p \in Products : main'[k][p].up \in Unversioned \/ Released(p, k)'
        BY <2>1, <2>3, <2>5
      <3> QED BY <3>1 DEF PinsReleased, Released
    <2> QED BY <2>4, <2>6, <2>7, <1>w
  <1>3. ASSUME NEW k \in Commits, CutPush(k) PROVE ReleaseInv'
    <2>1. PICK t \in NextOf(due[k]) :
             /\ tags' = Pushed(t, Checkout(k))
             /\ due' = [due EXCEPT ![k] = IF Raises(t) THEN {} ELSE @ \ {t}]
             /\ pc' = [pc EXCEPT ![k] = IF Raises(t) THEN "failed"
                                        ELSE IF due'[k] = {} THEN "done" ELSE "push"]
      BY <1>3 DEF CutPush
    <2>2. main' = main /\ pc[k] = "push" /\ k \in 1..Len(main)
      BY <1>3, <1>m DEF CutPush
    <2>3. t \in due[k] /\ t \in Release /\ Fits(t, k)
      BY <2>1 DEF NextOf, IInv, TypeOK, DueFits
    <2>4. \A j \in Commits \ {k} : pc'[j] = pc[j] /\ due'[j] = due[j]
      BY <2>1 DEF IInv, TypeOK
    <2>5. CASE Raises(t)
      <3>1. pc'[k] = "failed" BY <2>1, <2>5 DEF IInv, TypeOK
      <3> QED BY <2>4, <3>1, <1>w
    <2>6. CASE ~Raises(t)
      <3>1. due'[k] = due[k] \ {t} /\ pc'[k] = (IF due'[k] = {} THEN "done" ELSE "push")
        BY <2>1, <2>6 DEF IInv, TypeOK
      <3>2. main[k][t.product].up \in Unversioned \/ Released(t.product, k)'
        <4>1. tags' = [tags EXCEPT ![t] = k]
          BY <2>1, <2>6 DEF Pushed, Raises, Checkout
        <4> QED BY <2>2, <2>3, <4>1, TakenIsReleased
      <3>3. \A p \in Products : (main[k][p].up \in Unversioned \/ Released(p, k) \/ Owes(p, k))'
        <4> SUFFICES ASSUME NEW p \in Products, p # t.product
                     PROVE  main'[k][p].up \in Unversioned \/ Released(p, k)' \/ Owes(p, k)'
          BY <2>2, <3>2
        <4>1. Released(p, k) => Released(p, k)'
          BY <2>2, <1>k, ReleasedStays
        <4>2. Owes(p, k) => Owes(p, k)'
          BY <2>2, <3>1 DEF Owes
        <4> QED BY <2>2, <4>1, <4>2 DEF ReleaseInv
      <3>4. due'[k] = {} => \A p \in Products : main'[k][p].up \in Unversioned \/ Released(p, k)'
        BY <3>3 DEF Owes
      <3>5. due'[k] = {} => PinsReleased(k)'
        BY <3>4 DEF PinsReleased, Released
      <3> QED BY <2>4, <3>1, <3>3, <3>5, <1>w
    <2> QED BY <2>5, <2>6
  <1>4. ASSUME NEW k \in Commits, CutFails(k) \/ Rerun(k) PROVE ReleaseInv'
    <2>1. pc'[k] \in {"failed", "queued"}
          /\ \A j \in Commits \ {k} : pc'[j] = pc[j] /\ due'[j] = due[j]
      BY <1>4 DEF CutFails, Rerun, IInv, TypeOK
    <2> QED BY <2>1, <1>w
  <1>5. ASSUME UNCHANGED jobs PROVE ReleaseInv'
    <2>1. \A k \in Commits : pc'[k] = pc[k] /\ due'[k] = due[k] BY <1>5 DEF jobs
    <2> QED BY <2>1, <1>u DEF ReleaseInv
  <1> QED BY <1>1, <1>2, <1>3, <1>4, <1>5 DEF Next, Job, DeskRebuild, DeskPush

\* A job of tag.yml that ends green leaves every pin of its commit released, for
\* any number of jobs at once, whatever failed, was run again or was rebuilt by
\* hand: the pins have a build, and a tracked product's has exactly those pins.
THEOREM GreenMeansReleased == Spec => []DoneMeansReleased
  <1>1. Init => ReleaseInv
    BY DEF Init, ReleaseInv
  <1>2. ReleaseInv => DoneMeansReleased
    BY DEF ReleaseInv, DoneMeansReleased
  <1> QED BY <1>1, <1>2, ReleasedNext, AlwaysIInv, PTL DEF Spec

-----------------------------------------------------------------------------
(* No build without a change.                                               *)

\* Build s, cut from commit k, is the first of its version, or its predecessor
\* is on the forge and was cut from other pins.
Sound(s, k) ==
    \/ s.rev = 1
    \/ \E t \in Fetched : /\ t.product = s.product /\ t.up = s.up /\ s.rev = t.rev + 1
                          /\ s.product \in Tracked
                          /\ main[tags[t]][s.product] # main[k][s.product]

\* What is tagged, unless by hand, and what is still to be tagged is sound.
TwiceInv == /\ \A s \in Fetched \ rebuilt : Sound(s, tags[s])
            /\ \A k \in Commits : \A s \in due[k] : Sound(s, k)

\* A release is its product, its version and its number.
LEMMA SameRelease ==
    ASSUME NEW s \in Release, NEW t \in Release,
           s.product = t.product, s.up = t.up, s.rev = t.rev
    PROVE  s = t
  BY DEF Release

\* What is sound stays sound: the predecessor keeps its commit.
LEMMA SoundStays ==
    ASSUME IInv, Keeps, NEW s, NEW k \in 1..Len(main), Sound(s, k)
    PROVE  Sound(s, k)'
  <1>1. CASE s.rev = 1 BY <1>1 DEF Sound
  <1>2. CASE s.rev # 1
    <2>1. main'[k] = main[k] BY DEF Keeps
    <2>2. PICK t \in Fetched : /\ t.product = s.product /\ t.up = s.up /\ s.rev = t.rev + 1
                               /\ s.product \in Tracked
                               /\ main[tags[t]][s.product] # main[k][s.product]
      BY <1>2 DEF Sound
    <2>3. t \in Release /\ tags[t] # 0 /\ tags[t] \in 1..Len(main)
      BY FetchedOnMain
    <2>4. tags'[t] = tags[t] /\ main'[tags[t]] = main[tags[t]]
      BY <2>3 DEF Keeps
    <2>5. t \in Fetched' BY <2>3, <2>4 DEF Fetched
    <2> QED BY <2>1, <2>2, <2>4, <2>5 DEF Sound
  <1> QED BY <1>1, <1>2

\* `decide` numbers one past the highest build, and only past one whose pins are
\* not the checkout's.
LEMMA DecidedSound ==
    ASSUME NEW p, NEW k, NEW s \in Decide(p, k, Fetched)
    PROVE  Sound(s, k)
  <1> USE CutAssumption
  <1> DEFINE u == main[k][p].up
             same == BuildsOf(Fetched, p, u)
  <1>1. s \in NextRelease(Fetched, p, u) /\ IsDue(p, k, Fetched)
    BY DEF Decide
  <1>2. s \in Release /\ s.product = p /\ s.up = u
    BY <1>1, NextReleaseFits
  <1>3. CASE same = {}
    BY <1>1, <1>3 DEF NextRelease, Sound
  <1>4. CASE same # {}
    <2>1. PICK t \in same : IsTop(t, same) /\ PinsChanged(p, k, t)
      BY <1>1, <1>4 DEF IsDue
    <2>2. PICK r \in same : s.rev = r.rev + 1
      BY <1>1, <1>4 DEF NextRelease
    <2>3. t.rev < s.rev
      BY <1>1, <1>4 DEF NextRelease
    <2>4. r \in Release /\ t \in Release /\ t \in Fetched /\ t.product = p /\ t.up = u
      BY DEF BuildsOf, Fetched
    <2>5. r.rev \in Nat /\ t.rev \in Nat
      BY <2>4 DEF Release
    <2>6. r.rev <= t.rev
      BY <2>1, <2>2 DEF IsTop
    <2>7. s.rev = t.rev + 1
      BY <2>2, <2>3, <2>5, <2>6
    <2> QED BY <1>2, <2>1, <2>4, <2>7 DEF Sound, PinsChanged
  <1> QED BY <1>3, <1>4

LEMMA TwiceNext == IInv /\ TwiceInv /\ [Next]_vars => TwiceInv'
  <1> USE CutAssumption
  <1> SUFFICES ASSUME IInv, TwiceInv, [Next]_vars PROVE TwiceInv' OBVIOUS
  <1>0. CASE UNCHANGED vars
    BY <1>0 DEF vars, jobs, hand, TwiceInv, Sound, Fetched
  <1> SUFFICES ASSUME Next PROVE TwiceInv' BY <1>0
  <1>k. Keeps BY StepKeeps
  <1>s. ASSUME NEW s \in Fetched \ rebuilt, NEW k, k = tags[s] PROVE Sound(s, k)'
    <2>1. k \in 1..Len(main) BY <1>s, FetchedOnMain
    <2>2. Sound(s, k) BY <1>s DEF TwiceInv
    <2> QED BY <1>k, <2>1, <2>2, SoundStays
  <1>d. ASSUME NEW k \in Commits, NEW s \in due[k] PROVE Sound(s, k)'
    <2>1. k \in 1..Len(main) BY DEF IInv, DueFits, Fits
    <2>2. Sound(s, k) BY DEF TwiceInv
    <2> QED BY <1>k, <2>1, <2>2, SoundStays
  \* What is left to show: what is newly due, and what is newly tagged, is sound.
  <1>n. ASSUME \A k \in Commits : \A s \in due'[k] : s \in due[k] \/ Sound(s, k)',
               rebuilt \subseteq rebuilt',
               \A s \in Fetched' \ rebuilt' :
                   \/ s \in Fetched
                   \/ \E k \in Commits : tags'[s] = k /\ Sound(s, k)'
        PROVE  TwiceInv'
    <2>1. \A k \in Commits : \A s \in due'[k] : Sound(s, k)'
      BY <1>n, <1>d
    <2>2. ASSUME NEW s \in Fetched', s \notin rebuilt'
          PROVE  \E k \in Commits : tags'[s] = k /\ Sound(s, k)'
      <3>1. CASE s \in Fetched
        <4>1. s \in Release /\ tags[s] # 0 /\ tags[s] \in 1..Len(main) BY <3>1, FetchedOnMain
        <4>2. tags'[s] = tags[s] BY <4>1, <1>k DEF Keeps
        <4>3. tags[s] \in Commits BY <4>1 DEF IInv, TypeOK, Commits
        <4>4. s \notin rebuilt BY <1>n, <2>2
        <4> QED BY <3>1, <4>2, <4>3, <4>4, <1>s
      <3>2. CASE s \notin Fetched BY <3>2, <1>n, <2>2
      <3> QED BY <3>1, <3>2
    <2>3. \A s \in Fetched' \ rebuilt' : Sound(s, tags[s])'
      BY <2>2 DEF Sound
    <2> QED BY <2>1, <2>3 DEF TwiceInv
  <1>f. tags' = tags => Fetched' = Fetched
    BY DEF Fetched
  \* A push tags at most the release it is given.
  <1>t. ASSUME NEW t \in Release, NEW k \in Commits, tags' = Pushed(t, k)
        PROVE  \A s \in Fetched' : s \in Fetched \/ (s = t /\ tags'[s] = k)
    <2>1. TypeOK BY DEF IInv
    <2>2. \A s \in Release : tags'[s] # 0 => tags'[s] = tags[s] \/ (s = t /\ tags'[s] = k)
      BY <1>t, <2>1, PushedOnce
    <2> QED BY <2>2 DEF Fetched
  <1>1. ASSUME NEW p \in Products, NEW pin \in Pin, Push(p, pin) PROVE TwiceInv'
    BY <1>1, <1>f, <1>n DEF Push, hand
  <1>2. ASSUME NEW k \in Commits, CutDecide(k) PROVE TwiceInv'
    <2> DEFINE decided == UNION {Decide(p, k, SeenByJob) : p \in Products}
    <2>1. /\ due' = [due EXCEPT ![k] = decided] /\ tags' = tags /\ main' = main
          /\ rebuilt' = rebuilt /\ pc[k] = "queued"
      BY <1>2 DEF CutDecide, hand
    <2>2. \A s \in decided : Sound(s, k)
      BY DecidedSound DEF SeenByJob
    <2> HIDE DEF decided
    <2>3. k \in 1..Len(main) BY <2>1 DEF IInv, Started, Commits, TypeOK
    <2>4. \A s \in decided : Sound(s, k)'
      BY <2>2, <2>3, <1>k, SoundStays
    <2>5. \A j \in Commits : \A s \in due'[j] : s \in due[j] \/ Sound(s, j)'
      BY <2>1, <2>4 DEF IInv, TypeOK
    <2> QED BY <2>1, <2>5, <1>f, <1>n
  <1>3. ASSUME NEW k \in Commits, CutPush(k) PROVE TwiceInv'
    <2>1. PICK t \in NextOf(due[k]) :
             /\ tags' = Pushed(t, k)
             /\ due' = [due EXCEPT ![k] = IF Raises(t) THEN {} ELSE @ \ {t}]
      BY <1>3 DEF CutPush, Checkout
    <2>2. t \in due[k] /\ t \in Release
      BY <2>1 DEF NextOf, IInv, TypeOK
    <2>3. \A j \in Commits : due'[j] \subseteq due[j]
      BY <2>1 DEF IInv, TypeOK
    <2>4. rebuilt' = rebuilt BY <1>3 DEF CutPush, hand
    <2>5. Sound(t, k)' BY <2>2, <1>d
    <2>6. \A s \in Fetched' : s \in Fetched \/ (s = t /\ tags'[s] = k)
      BY <2>1, <2>2, <1>t
    <2> QED BY <2>3, <2>4, <2>5, <2>6, <1>n
  <1>4. ASSUME NEW k \in Commits, CutFails(k) PROVE TwiceInv'
    <2>1. due' = [due EXCEPT ![k] = {}] /\ rebuilt' = rebuilt
      BY <1>4 DEF CutFails, hand
    <2>2. \A j \in Commits : due'[j] \subseteq due[j]
      BY <2>1 DEF IInv, TypeOK
    <2>3. CASE tags' = tags BY <2>1, <2>2, <2>3, <1>f, <1>n
    <2>4. CASE \E t \in NextOf(due[k]) : tags' = Pushed(t, k)
      <3>1. PICK t \in due[k] : t \in Release /\ tags' = Pushed(t, k)
        BY <2>4 DEF NextOf, IInv, TypeOK
      <3>2. Sound(t, k)' BY <1>d
      <3>3. \A s \in Fetched' : s \in Fetched \/ (s = t /\ tags'[s] = k)
        BY <3>1, <1>t
      <3> QED BY <2>1, <2>2, <3>2, <3>3, <1>n
    <2> QED BY <1>4, <2>3, <2>4 DEF CutFails, Checkout
  <1>5. ASSUME NEW k \in Commits, Rerun(k) PROVE TwiceInv'
    BY <1>5, <1>f, <1>n DEF Rerun, hand
  <1>6. ASSUME NEW p \in Products, NEW k \in Commits, DeskRebuild(p, k) PROVE TwiceInv'
    BY <1>6, <1>f, <1>n DEF DeskRebuild, jobs
  <1>7. ASSUME NEW ok \in BOOLEAN, DeskPush(ok) PROVE TwiceInv'
    <2>1. due' = due /\ desk \in Commits
      BY <1>7 DEF DeskPush, jobs, IInv, TypeOK, Commits
    <2>2. PICK t \in NextOf(deskDue) :
            \/ tags' = Pushed(t, desk) /\ rebuilt' = rebuilt \cup {t}
            \/ UNCHANGED <<tags, rebuilt>>
      BY <1>7 DEF DeskPush
    <2>3. t \in Release BY <2>2 DEF NextOf, IInv, TypeOK
    <2>4. CASE tags' = Pushed(t, desk) /\ rebuilt' = rebuilt \cup {t}
      <3>1. \A s \in Fetched' : s \in Fetched \/ s = t
        BY <2>1, <2>3, <2>4, <1>t
      <3> QED BY <2>1, <2>4, <3>1, <1>n
    <2>5. CASE UNCHANGED <<tags, rebuilt>>
      BY <2>1, <2>5, <1>f, <1>n
    <2> QED BY <2>2, <2>4, <2>5
  <1> QED BY <1>1, <1>2, <1>3, <1>4, <1>5, <1>6, <1>7 DEF Next, Job

\* Two builds of one version that follow each other are of different pins, unless
\* somebody rebuilt by hand: however many jobs ran at once, lost an answer or
\* were run again, cutting is idempotent.
THEOREM NeverBuiltTwice == Spec => []NoBuildTwice
  <1>1. Init => TwiceInv
    BY DEF Init, TwiceInv, Fetched
  <1>2. IInv /\ TwiceInv => NoBuildTwice
    <2> SUFFICES ASSUME IInv, TwiceInv, NEW t \in Fetched \ rebuilt, NEW s \in Fetched \ rebuilt,
                        t.product = s.product, t.up = s.up, s.rev = t.rev + 1
                 PROVE  /\ t.product \in Tracked
                        /\ main[tags[t]][t.product] # main[tags[s]][s.product]
      BY DEF NoBuildTwice
    <2>1. s \in Release /\ t \in Release BY DEF Fetched
    <2>2. s.rev \in Nat /\ t.rev \in Nat \ {0}
      BY <2>1, CutAssumption DEF Release
    <2>3. Sound(s, tags[s]) BY DEF TwiceInv
    <2>4. PICK r \in Fetched : /\ r.product = s.product /\ r.up = s.up /\ s.rev = r.rev + 1
                               /\ s.product \in Tracked
                               /\ main[tags[r]][s.product] # main[tags[s]][s.product]
      BY <2>2, <2>3 DEF Sound
    <2>5. r \in Release /\ r.rev \in Nat
      BY CutAssumption DEF Fetched, Release
    <2>6. r.rev = t.rev BY <2>2, <2>4, <2>5
    <2>7. r = t BY <2>1, <2>4, <2>5, <2>6, SameRelease
    <2> QED BY <2>4, <2>7
  <1> QED BY <1>1, <1>2, TwiceNext, AlwaysIInv, PTL DEF Spec
=============================================================================
