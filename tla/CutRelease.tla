------------------------------ MODULE CutRelease ------------------------------
(***************************************************************************)
(* How a release tag comes to be (unifi_containers/cut_release.py, the     *)
(* part of release.py that numbers builds, gitops.py).                     *)
(*                                                                         *)
(* Every push to main starts a job of tag.yml on its own fresh clone: it   *)
(* fetches the forge's tags, decides for each product whether its pins are *)
(* released, and pushes one tag after the other.  Somebody may rebuild a   *)
(* release from a clone of their own meanwhile, and any push may fail or   *)
(* lose its answer.  The forge is the only thing the jobs share.           *)
(***************************************************************************)
EXTENDS Integers, FiniteSets, Sequences

CONSTANTS Products,    \* PRODUCTS, in the order of Rank
          Rank,        \* where a product comes in sorted(release.IMAGES)
          Tracked,     \* the products pins.pin_file names a file for
          MaxUp,       \* bound: upstream versions, 1 the oldest
          MaxApp,      \* bound: contents the rest of a pin file may have
          Runners,     \* how many jobs of tag.yml the forge runs at once
          MaxPushes,   \* bound: pushes to main
          MaxFaults,   \* bound: fetches and pushes that fail
          MaxReruns,   \* bound: failed jobs of superseded pushes run again
          MaxRebuilds  \* bound: rebuilds by hand

ASSUME CutAssumption ==
    /\ Rank \in [Products -> Nat] /\ Tracked \subseteq Products
    /\ MaxUp \in Nat \ {0} /\ MaxApp \in Nat \ {0} /\ MaxPushes \in Nat \ {0}
    /\ Runners \in Nat \ {0}
    /\ MaxFaults \in Nat /\ MaxReruns \in Nat /\ MaxRebuilds \in Nat

\* A version that is none to TAG_RE.  pinned_version gives what a pin file has,
\* parsed or not; only the version of a product without one has to parse.
Odd == MaxUp + 1

\* A pin as pinned_version and file_at read it: 0 is no version at all, and "app"
\* is the content of the pin file besides the version.
Pin     == [up : 0..Odd, app : 1..MaxApp]
Commits == 1..MaxPushes
\* What next_release may make, release or not.
MaxRev  == MaxPushes + MaxRebuilds + MaxReruns
Release == [product : Products, up : 1..Odd, rev : 1..MaxRev]

\* parse: TAG_RE matches the tag
Parses(t) == t.up # Odd

VARIABLES main,    \* the commits pushed to main, each the pins of every product
          tags,    \* the commit each tag names on the forge, 0 when there is none
          pc,      \* where the job of each push is
          due,     \* the releases it has decided to cut and not pushed yet
          desk,    \* the commit checked out in the clone a rebuild is made from
          deskDue, \* the releases being rebuilt there
          deskTags,\* the tags of that clone which the forge does not have
          rebuilt, \* history: the tags pushed from it
          faults, reruns \* history: what has gone wrong, what was run again

jobs == <<pc, due>>
hand == <<desk, deskDue, deskTags, rebuilt>>
vars == <<main, tags, jobs, hand, faults, reruns>>

Init == /\ main \in {<<pins>> : pins \in [Products -> {[up |-> 1, app |-> 1]}]}
        /\ tags = [t \in Release |-> 0]
        /\ pc = [k \in Commits |-> IF k = 1 THEN "queued" ELSE "none"]
        /\ due = [k \in Commits |-> {}]
        /\ desk = 0
        /\ deskDue = {} /\ deskTags = {} /\ rebuilt = {}
        /\ faults = 0 /\ reruns = 0

-----------------------------------------------------------------------------
(* Build numbers.                                                          *)

\* gitops.fetch_tags and gitops.tags in a clone with nothing of its own
Fetched == {t \in Release : tags[t] # 0}

\* builds_of, which sees no tag that does not parse
BuildsOf(seen, p, u) == {t \in seen : Parses(t) /\ t.product = p /\ t.up = u}

\* next_release: revision 1, or one past the highest revision
NextRelease(seen, p, u) ==
    LET same == BuildsOf(seen, p, u)
    IN {t \in Release : /\ t.product = p /\ t.up = u
                        /\ IF same = {} THEN t.rev = 1
                           ELSE /\ \E s \in same : t.rev = s.rev + 1
                                /\ \A s \in same : s.rev < t.rev}

\* Mutant of IsTop: the first build found, not the highest.
IsLowest(t, same) == t \in same /\ \A s \in same : t.rev <= s.rev

\* the build of one version that `decide` compares the pins with
IsTop(t, same) == t \in same /\ \A s \in same : s.rev <= t.rev

\* pins_changed_since: the product has a pin file, and as file_at reads it in the
\* commit of this build it is not the checkout's
PinsChanged(p, k, t) == p \in Tracked /\ main[tags[t]][p] # main[k][p]

\* decide: due when the pinned version has no build, which one that does not
\* parse never has, or when the pins changed since its highest build was cut
IsDue(p, k, seen) ==
    LET u == main[k][p].up
        same == BuildsOf(seen, p, u)
    IN /\ u # 0
       /\ same = {} \/ \E t \in same : IsTop(t, same) /\ PinsChanged(p, k, t)

Decide(p, k, seen) ==
    IF IsDue(p, k, seen) THEN NextRelease(seen, p, main[k][p].up) ELSE {}

\* Bound: Release has a number for the build that is due.
NumberLeft(p, k, seen) == NextRelease(seen, p, main[k][p].up) # {}

\* decide_rebuild: only what has been released before
DecideRebuild(p, k, seen) ==
    LET u == main[k][p].up
    IN IF u = 0 \/ BuildsOf(seen, p, u) = {} THEN {} ELSE NextRelease(seen, p, u)

-----------------------------------------------------------------------------
(* The jobs of tag.yml: cut(PRODUCTS, push=True).                          *)

\* Pins change on main: the update lane's bump, or an edit by hand, which may
\* also go back or leave a version nothing parses.
Push(p, pin) ==
    /\ Len(main) < MaxPushes
    /\ pin # main[Len(main)][p]
    /\ p \in Tracked \/ (pin.app = main[Len(main)][p].app /\ pin.up # Odd)
    /\ main' = Append(main, [main[Len(main)] EXCEPT ![p] = pin])
    /\ pc' = [pc EXCEPT ![Len(main) + 1] = "queued"]
    /\ UNCHANGED <<tags, due, hand, faults, reruns>>

\* The forge starts jobs in the order of their pushes, Runners at a time.
Unfinished(k) == {j \in Commits : j # k /\ (pc[j] = "push" \/ (j < k /\ pc[j] = "queued"))}

\* Mutant of SeenByJob: the tags were not fetched, as the shell form did.
SeenNothing == {}

\* what a job's clone has after fetch_tags: it has no tags of its own
SeenByJob == Fetched

\* trust_workdir, push_target, fetch_tags and every decision: nothing leaves
\* the clone before the first push.
CutDecide(k) ==
    /\ pc[k] = "queued" /\ Cardinality(Unfinished(k)) < Runners
    /\ \A p \in Products : IsDue(p, k, SeenByJob) => NumberLeft(p, k, SeenByJob)
    /\ due' = [due EXCEPT ![k] = UNION {Decide(p, k, SeenByJob) : p \in Products}]
    /\ pc' = [pc EXCEPT ![k] = IF due'[k] = {} THEN "done" ELSE "push"]
    /\ UNCHANGED <<main, tags, hand, faults, reruns>>

\* the release the loop over `due` comes to next
NextOf(rels) == {t \in rels : \A s \in rels : Rank[t.product] <= Rank[s.product]}

\* Mutant of Checkout: what main is by now.
MainByNow(k) == Len(main)

\* the commit create_tag annotates: the job's checkout
Checkout(k) == k

\* Mutant of Pushed: the push is forced.
PushedForced(t, k) == [tags EXCEPT ![t] = k]

\* push without force: the forge keeps a tag it has
Pushed(t, k) == IF tags[t] = 0 THEN [tags EXCEPT ![t] = k] ELSE tags

\* Mutant of Raises: what the remote said of the ref is not read.
RaisesNever(t) == FALSE

\* push_update_reference hears that the forge refused, and push raises
Raises(t) == tags[t] # 0

\* create_tag and push.  A refusal, by the clone that has the tag or by the
\* forge, ends the job, and with it every product that was still to come.
CutPush(k) ==
    /\ pc[k] = "push"
    /\ \E t \in NextOf(due[k]) :
          /\ tags' = Pushed(t, Checkout(k))
          /\ due' = [due EXCEPT ![k] = IF Raises(t) THEN {} ELSE @ \ {t}]
          /\ pc' = [pc EXCEPT ![k] = IF Raises(t) THEN "failed"
                                     ELSE IF due'[k] = {} THEN "done" ELSE "push"]
    /\ UNCHANGED <<main, hand, faults, reruns>>

\* The fetch fails, or a push does: with a push the forge may have taken the
\* tag before the answer was lost.
CutFails(k) ==
    /\ pc[k] \in {"queued", "push"} /\ Cardinality(Unfinished(k)) < Runners
    /\ faults < MaxFaults
    /\ faults' = faults + 1
    /\ pc' = [pc EXCEPT ![k] = "failed"]
    /\ due' = [due EXCEPT ![k] = {}]
    /\ \/ UNCHANGED tags
       \/ \E t \in NextOf(due[k]) : tags' = Pushed(t, Checkout(k))
    /\ UNCHANGED <<main, hand, reruns>>

\* A failed job is run again, on the commit it had: that of the last push as
\* often as it takes.
Rerun(k) ==
    /\ pc[k] = "failed" /\ (k = Len(main) \/ reruns < MaxReruns)
    /\ pc' = [pc EXCEPT ![k] = "queued"]
    /\ reruns' = IF k = Len(main) THEN reruns ELSE reruns + 1
    /\ UNCHANGED <<main, tags, due, hand, faults>>

-----------------------------------------------------------------------------
(* cut([product], push=True, rebuild=True) in somebody's own clone, which   *)
(* keeps the tags it made: fetch_tags prunes nothing.                      *)

DeskRebuild(p, k) ==
    /\ desk = 0 /\ k <= Len(main)
    /\ Cardinality(rebuilt) + Cardinality(deskTags) < MaxRebuilds
    /\ DecideRebuild(p, k, Fetched \cup deskTags) # {}
    /\ deskDue' = DecideRebuild(p, k, Fetched \cup deskTags)
    /\ desk' = k
    /\ UNCHANGED <<main, tags, jobs, deskTags, rebuilt, faults, reruns>>

\* The tag is in the clone from create_tag on.  A push that is refused or fails
\* leaves it there; one whose answer is lost (~ok) may have been taken.
DeskPush(ok) ==
    /\ desk # 0
    /\ ok \/ faults < MaxFaults
    /\ faults' = IF ok THEN faults ELSE faults + 1
    /\ \E t \in NextOf(deskDue) :
          \/ /\ ~Raises(t)
             /\ tags' = Pushed(t, desk)
             /\ rebuilt' = rebuilt \cup {t}
             /\ UNCHANGED deskTags
          \/ /\ ok => Raises(t)
             /\ deskTags' = IF tags[t] = 0 THEN deskTags \cup {t} ELSE deskTags
             /\ UNCHANGED <<tags, rebuilt>>
    /\ desk' = 0 /\ deskDue' = {}
    /\ UNCHANGED <<main, jobs, reruns>>

-----------------------------------------------------------------------------

Job(k) == CutDecide(k) \/ CutPush(k)

Next == \/ \E p \in Products, pin \in Pin : Push(p, pin)
        \/ \E k \in Commits : Job(k) \/ CutFails(k) \/ Rerun(k)
        \/ \E p \in Products, k \in Commits : DeskRebuild(p, k)
        \/ \E ok \in BOOLEAN : DeskPush(ok)

Spec == Init /\ [][Next]_vars

\* The forge runs every job it has queued, and a job goes on while it can.
FairSpec == Spec /\ \A k \in Commits : WF_vars(Job(k))

\* Somebody looks after main: when the job of its last push is red and stays
\* red, it is run again.
RedIsRunAgain == \A k \in Commits : WF_vars(k = Len(main) /\ Rerun(k))

-----------------------------------------------------------------------------
(* What holds.                                                             *)

\* Every variable has its type; a job that is not pushing owes nothing.
TypeOK ==
    /\ main \in Seq([Products -> Pin]) /\ Len(main) \in Commits
    /\ tags \in [Release -> 0..MaxPushes]
    /\ pc \in [Commits -> {"none", "queued", "push", "done", "failed"}]
    /\ due \in [Commits -> SUBSET Release]
    /\ desk \in 0..MaxPushes
    /\ deskDue \in SUBSET Release /\ deskTags \in SUBSET Release
    /\ rebuilt \in SUBSET Release
    /\ faults \in 0..MaxFaults /\ reruns \in 0..MaxReruns

\* No release can be of these: no version, and one that does not parse.
Unversioned == {0, Odd}

\* The pins of commit k are released: a version that is one has a build, and a
\* tracked product's has one of exactly those pins.
PinsReleased(k) ==
    \A p \in Products :
        LET pin == main[k][p]
        IN pin.up \notin Unversioned =>
             \E t \in BuildsOf(Fetched, p, pin.up) :
                 p \in Tracked => main[tags[t]][p] = pin

\* A green job means that what its push pinned is released, whatever failed
\* before, ran at the same time or was rebuilt by hand meanwhile
\* (cut_release.py:93-102, gitops.py:158-173).
DoneMeansReleased == \A k \in Commits : pc[k] = "done" => PinsReleased(k)

\* No build is cut a second time from the pins its predecessor had, except by
\* hand: not after a lost answer, a job run again or a race ("idempotent",
\* cut_release.py:3, tag.yml:1-3).
NoBuildTwice ==
    \A t, s \in Fetched \ rebuilt :
        /\ t.product = s.product /\ t.up = s.up
        /\ s.rev = t.rev + 1
        => /\ t.product \in Tracked
           /\ main[tags[t]][t.product] # main[tags[s]][s.product]

\* A release cut here names the version its own commit pins, whatever main is by
\* the time it is pushed, so the plan of the workflow it starts never refuses it
\* for its pin (release_plan.py:33-39).  A tag that does not parse is refused
\* before that (release_plan.py:25-31), and is cut all the same: see IsDue.
CutsCanPublish ==
    \A t \in Fetched : Parses(t) => main[tags[t]][t.product].up = t.up

\* A published tag never moves to another commit: pushes are not forced, and
\* the forge refuses the rest (gitops.py:158-164).
TagsNeverMove == [][\A t \in Release : tags[t] # 0 => tags'[t] = tags[t]]_vars

\* What main pins in the end is released in the end, if a red job is run again:
\* whatever failed, was rebuilt by hand or was raced for by another job, and
\* though a version that does not parse keeps the job red for ever (tag.yml:1-3).
PinnedIsReleased == RedIsRunAgain => <>[]PinsReleased(Len(main))
=============================================================================
