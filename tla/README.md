# TLA+ models of unifi-containers

This directory holds TLA+ modules for the parts of unifi-containers whose
correctness depends on order: what happens when requests overlap, when a
process is killed between two steps, when a signal lands in the wrong line, when
a container starts on what the last one left, and when CI jobs that share a
forge and a registry run beside each other, fail and are run again. TLC checks
each module on a small instance, TLAPS proves the main results for every value
of the constants. Paths below are relative to the repository root; `runtime/` is
short for `src/unifi_runtime/`, `containers/` for `src/unifi_containers/`.

## The system

| component | state it keeps | operations | what makes it correct |
|---|---|---|---|
| readiness endpoint, `runtime/readyz.py` | lock, cached verdict, time of the last probe | answer GET /readyz, run the probe | one probe at a time, not too often, nobody waits for another's probe, readiness is not taken back |
| healthcheck, `runtime/healthcheck.py` | two marker files | prove login, v2 and fleet in stages; latch | healthy is earned in this boot, logins are not wasted, nothing wedges the gate |
| HTTP client, `runtime/http.py` | the cookie jar file | load, request, save | the session reaches the next request |
| controller clients, `runtime/unifi/*.py` | none | one request each | (modelled inside their callers) |
| Network entrypoint, `runtime/entrypoint/network.py` | child, process group, budget, run files, `system.properties` | boot, hooks, supervise, shut down in rungs | ends inside Docker's grace, mongod gets its time, nothing restarts the controller, the real exit status |
| UniFi OS entrypoint, `runtime/entrypoint/uos.py` | directories and links, the volume, the UUID file, systemd units and their environment files | move state to the volume, persist the UUID, alias eth0, enable units, hooks, exec systemd | what ran on the volume wins, nothing is lost, every boot gets through, units match the environment |
| owner seed, `runtime/seed/uos_owner.py` | the owner and keys in the console, the key file | wait, create the owner, check, mint and publish a key | a published key works, keys are not duplicated, the unit ends |
| demo mode and settings, `runtime/{sysprops,env}.py`, `runtime/entrypoint/demo.py` | `system.properties` on the volume | parse, merge, rewrite | the application and the operator keep the last word on every key |
| properties parser, `runtime/_vendor/javaproperties` | none | parse into elements that remember their source, set, dump | (modelled inside `SysProps`) |
| release lane, `containers/{cut_release,release,release_plan,slide_tags,gitops}.py`, `tag.yml`, `*-release.yml` | git tags, staging package, registry names | decide, number, tag, push; plan, build, stage, stitch, slide | no build twice, no tag moves, a name is one build and is not passed back, green means published |
| update lane, `containers/{update,forge,pins}.py`, `containers/updaters/*`, `update.yml` | pins on main, bump branches, pull requests | watch upstream, bump, open, schedule the merge, report a stall | no downgrade, catches up, a freeze is reported |
| network wizard seed, `runtime/seed/network_wizard.py` | the controller's setup | a sequence of requests at image build | not modelled |
| build-time checks, seed maker, extraction, downloads, CLI, test helpers | none of their own | run docker, unpack, parse arguments | not modelled: wrappers and pure I/O |

How they interact. Docker runs the healthcheck as a fresh process every
interval and kills it at its timeout. The endpoint runs **the same probe in
another process**, when it is polled. Both share three files in `/tmp` (the
marker, the login marker, the cookie jar) and no lock. PID 1 of the Network
image clears them at boot, writes the settings, runs the hooks, starts the
endpoint in a thread and then supervises the controller; in the UniFi OS image
the endpoint and the owner seed are systemd units that see only what the
entrypoint wrote for them into `/run`. The seed publishes the API key that the
healthcheck of the seeded image tests.

In CI the update lane merges new pins to main; every push to main starts a job
that cuts the release tags the pins make due; a mirror copies the tags, and
every tag starts a run that builds and publishes. The lanes share nothing but
the forge and the registry: what one hands the next is a commit on main
(`UpdateLane` to `CutRelease`) and a tag on a commit (`CutRelease` to
`PublishRelease`). `CutsCanPublish` is the contract of the second: every tag
whose version parses names the version its own commit pins, which is the first
thing `PublishRelease` tests.

Hard behaviours, each listed at its line in PROJECT.json: two probers
interleaving over files; a lock-free read that races the probe; a kill between
the login and its marker; a session that dies; a signal that raises between two
bytecodes; rungs that share a budget; a stop between minting and publishing, in
the middle of a copy, or with a settings file open; a lost answer to a request
that was acted on; jobs and people that number builds from the same tags; runs
that finish out of order, half staged, or again; a branch forced under a pull
request that is about to merge; a freeze that stays green.

## Modules

| module | models | proofs | runs |
|---|---|---|---|
| `ReadyzGate` | `Gate` and `do_GET` | `ReadinessProofs` | `ReadyzGate` |
| `HealthGate` | `marker_gate`, `staged`, the probes and the jar | `ReadinessProofs` | `HealthGateOne`, `HealthGateShared`, `HealthGateUnit` |
| `ReadinessLatch` | abstract: what readiness promises within a boot | | implemented by `HealthGate` (`ImplementsLatch`), proved |
| `Supervisor` | `Supervisor.run`, `stop`, the signal handlers | `SupervisorProofs` | `Supervisor` |
| `SeedOwner` | `uos_owner.run` | `SeedOwnerProofs` | `SeedOwner` |
| `UosVolume` | `apply_symlinks`, `_copy_no_clobber`, `_mirror_ownership`, `ensure_uuid` | `UosVolumeProofs` | `UosVolume` |
| `SysProps` | operators: the properties parser and `sysprops.merge` | `ImageBootProofs` | inside `ImageBoot` |
| `ImageBoot` | both entrypoints from the container's start to the controller's: settings, hooks, units, environment files, eth0 | `ImageBootProofs` | `ImageBoot`, `ImageBootGarbled` |
| `CutRelease` | `cut_release.py`, the numbering in `release.py`, `gitops` fetch, tag and push, `tag.yml` | `CutReleaseProofs` | `CutRelease` |
| `PublishRelease` | `release_plan.py`, `slide_tags.py`, `unifi-os-release.yml` | `PublishReleaseProofs` | `PublishRelease` |
| `UpdateLane` | `update.py`, both updaters, `forge.py`, `update.yml` | `UpdateLaneProofs` | `UpdateLane` |

The `MC*` modules only name the model values. Next to some definitions there is
a *mutant*, the same operation with a plausible mistake in it: a dropped guard,
an off-by-one, a missing reset. No specification uses one. For every property of
a passing run there is a mutant, listed in PROJECT.json, under which TLC finds
that property violated, so each property is known to depend on the code.

### ReadyzGate

One thread per request. `at` is the line of `ready()` a thread is at; the
non-blocking acquire has two outcomes (`Acquire`, `AcquireFails`), and the read
of `_verdict` by the loser (`ReadCached`) is a step of its own because it is
made without the lock. The clock advances at any time, so a probe may take long.
A probe returns either verdict, raises, or does not return. `Latched` says
whether it is a `marker_gate`, which tests the marker first (`TestMarker`) and
then runs whatever becomes of the marker meanwhile: the healthcheck process may
write it in mid-probe (`HealthcheckProves`), and the probe still says no or
raises. `proven` is that marker. The 404 for another path touches nothing and is
left out.

### HealthGate

Each prober walks through `marker_gate(staged(...))`: the marker test, the login
marker test, the key probe of the seeded image, then for each request *load the
jar, wait for the answer, truncate the jar, write the jar*, then the decision of
the stage. `_save_jar` truncates and writes, and another prober can read in
between. A session in the jar is `good`, `dead` or absent; cookies of no
consequence are not modelled. The controller's side (auth up, v2 settled,
devices appearing, the limiter) is external and moves on its own. `Kill` is
Docker's timeout, `RequestLost` is `NO_VERDICT` with or without the login having
been taken, `SessionsDie` makes every session dead. `Restart` empties the three
files in the same step: in the Network image `clear_readiness_state` is the
first thing PID 1 does and Docker's first healthcheck comes an interval later,
in the UniFi OS image `/tmp` is a tmpfs. `NeedsKey`, `Expects` and `RightCreds`
are per prober, for the two may see different environments.

`ReadinessLatch` is the promise: within one boot no prober says healthy before
the console is usable, and none takes it back. `HealthGate` implements it with
`Usable` for `usable`. `HealthyHolds` is the second half said of the verdicts
themselves: after a healthy one there is no unhealthy one before a restart.

### Supervisor

PID 1 as a program counter over `run()` and `stop()`; `Fork`, `SetChild` and
`SetPgid` are apart because a signal's exception can land between them. The
controller (`jvm`) is up, a zombie or reaped; mongod (`db`) belongs to the group,
outlives it, and is killed with the namespace when PID 1 goes. `Deliver` is a
stop signal, by where it lands: dropped by the kernel before handlers exist,
caught inside the `try`, ignored on the ladder, fatal in between. Installing and
ignoring three handlers is one step each. `RequestGracefulStop` is its two run
files, either of which may fail without a word: `looping` that cannot be removed
stays, and the launcher then starts what `server.stop` stopped (`relaunched`).
Seconds pass (`Tick`) only while PID 1
is blocked. `DbStarts` assumes mongod is not there in the second the JVM is
started in, which is what makes a mongod without SIGTERM attributable.

### SeedOwner

One oneshot run per boot over a volume that remembers. Every loop of the code is
a step with a counter (`Retry`); the sleeps take no time. The console answers,
refuses for now, or the answer is lost after it acted (`SetupFails`, `Mint`).
`ReadKey` may meet a file it cannot read, which `_read_key` takes for none.
`Restart` stops the process between any two steps. The rest is history: which
keys were seen to authenticate (`proven`), how many runs ended between minting
and publishing (`leaks`), how often a key could not be read (`misreads`) and
whether that was in this run (`blind`).

### UosVolume

One path of `SYMLINK_MAP`; the loop treats each by itself and no path contains
another. The original is on the container's layer, so it survives a restart and
comes back with a new container (`Recreate`); the target is on the volume. An
entry on the volume is absent, `partial` (a copy cut short), `root` (copied, not
yet given to its service), `owned`, or `lived` (the service has written to it).
A directory is one entry: `copytree` cut short is as partial as a file.
`busy` is a mount under the original, which `rmtree` cannot remove. `Stop` may
come between any two steps.

### SysProps and ImageBoot

`SysProps` is a file as a sequence of *physical* lines (`Lines`: comment, blank
or entry; ends with a backslash or not; has a line ending or not) and the
functions `parse`, `__setitem__`, `dumps` and `merge` over it. `EndOf` is the
line at which what a line starts is over (`Stops`), `Element` what those lines
read as: they belong to the first of them with text on it (`WrittenIn`), and each
adds its text to the value (`Adds`). Elements remember their source, as in the
parser, so that what a key reads as, which of its duplicates wins and what a new
last line is glued to are computed and not assumed: `Closed` ends (`Ended`) the
line a new key comes after, `Dumps` writes each element out again (`Written`).
Escapes are not modelled but for the one the parser refuses.

`ImageBoot` is what both entrypoints do before the controller starts.
`write_system_properties` and `demo.apply` are three steps each (read; `open`
with `"w"`, which empties the file; write), because a stop in between and a
parse that raises are what can go wrong there. `run_hooks` of the Network image
takes the names `run-parts` would take and stops at the first that fails;
`run_init_hooks` of UniFi OS lets `run-parts` run them all and then, when one
failed, everything in the directory (`pass` 2). The `demo` hook is the sim
variant's; `site` is a derived image's and `backup` an editor's copy of it,
which only the second pass takes. `EnsureEth0`, `WriteEnvFiles` and
`EnableUnits` are the three functions of those names; systemctl may fail for any
unit (`unswitched`) and nobody looks. `Quote` is `_quote`, over values given
character by character. `Unquote` is the reader on the other side, external: a
shell's, as `_quote`'s docstring says of systemd's and as its test has it
(`tests/runtime/test_uos_entrypoint.py:348`, where shlex stands in). `Restart`
keeps the container's layer and loses tmpfs and the network namespace;
`Recreate` starts from the image with another environment on the same volume.
`said` is history: what each key was last given, by the operator (`Edit`) or the
controller (`AppStores`). A stop while the file is open takes its content with
it, and `said` with it: see "Where the code and its words disagree".

### CutRelease

`main` is the sequence of commits pushed, each the pins of every product; each
push has its job of `tag.yml`. `CutDecide` is everything up to the first push
(`fetch_tags`, `decide` for each product): it only reads the forge and writes
the job's own clone. `CutPush` is one tag: `create_tag` on the job's checkout
and `push` without force; `Raises` is what the report of the remote says of it.
`CutFails` is a failed fetch or push, with or without the forge having taken the
tag. `DeskRebuild` and `DeskPush` are somebody's `cut-release --rebuild`
from a clone (`desk`) that may be old and keeps the tags it made (`deskTags`). A
pin is the upstream version and the rest of the pin file, which `decide`
compares with the file in the commit of the highest build. `Odd` is a version
that `TAG_RE` does not parse: `pinned_version` gives it as it stands, so it is
cut, but no build of it is ever found. A Network version always parses, being
cut out of the package's URL; 0 is none. Commit messages and signatures are left
out.

### PublishRelease

A run per tag, with a leg per architecture. `PlanLeg` is `release-plan` on that
leg's runner, against the tags its clone has (`saw`); `PushImage` pushes the next
of its variants to the staging package, which all runs of the product share;
`FinishLeg` leaves what follows from its plan as the job's outputs, of which the
last leg's win (`outs`). The manifest job needs all legs and is skipped when the
outputs say so (`Onward`). `Create` and `Inspect` are the two halves of `stitch`:
the versioned name gets what is staged by then, and the digest the rest of the
job uses is read back from under that name. `Slide` is one `imagetools create` of
`slide-tags`. However the job ends, the staging package goes, whoever's images
are in it, if the token may delete it (`Discard`). `LegFails` and `ManifestFails`
come between any two steps; a failed leg cancels the others. `Rerun` runs a run
again, all of it, the jobs that failed, or any more. A tag made by hand may name
a version its commit does not pin: `plan` raises.

The workflow has no concurrency group, so runs overlap as they like. `crossed` is
history: whether another run has written to the registry since this one began
with all its jobs. Two of the three properties are about runs that were not
crossed, by any number of earlier and unfinished ones; the third is about all.

### UpdateLane

Each lane is a job of `update.yml` on its own checkout. `Bump` puts the worktree
on main, asks upstream and commits; `PushBranch` forces the branch;
`OpenPull` opens the pull request or finds last night's, schedules its merge and
decides whether to end red. A head records what its branch was cut from (`base`)
and what it pins (`own`), so that the forge's rebase (`Rebases`, `AutoMerge`)
applies what the branch changed; the two rows of the README's table of versions
are neighbours, so bumps of both conflict. `cred` is the credential: a muted one
pushes without starting checks, the freeze `check_not_stalled` was written for.
Upstream publishes, people edit pins and close pull requests, and any call may
fail. A package of the application is numbered with its version as half of it,
for `app_version_moved` compares versions and `bump` writes the package.

## Runs

Every run ends in about two minutes or less.

| run | what it asks | bounds, and why they are enough |
|---|---|---|
| `ReadyzGate` | five properties of the gate | three callers: one probes, one loses the lock, one arrives after a 200 went out, and the healthcheck beside them; interval 2, clock to 3, so two probes and every moment in and out of the interval |
| `HealthGateOne` | logins are accounted for; a healthy verdict holds until a restart | Docker alone with three faults and a restart, so that each kind of fault can hit each stage; a limiter of three |
| `HealthGateShared` | healthy is earned, the gate implements the latch, a dead session heals, nothing wedges the gate | Docker for ever, one poll of the endpoint, two devices (a first one that must not be enough), a fault and a restart; `MaxLogins` is 0 because only `LoginsAccounted` reads that history |
| `HealthGateUnit` | a violation: see below | both probers, different environments, no faults |
| `Supervisor` | the ladder and its end | the code's own 8/3/3/1 seconds and Docker's 10; `docker stop` and one more signal at any step; two idle seconds before |
| `SeedOwner` | keys, success, and the end of the unit | four boots, so that a key can be published, missed twice and read again; a revoked key, two attempts per loop, four keys |
| `UosVolume` | volume, UUID and boot | two entries (one copied or failed while the other waits), two stops inside a boot, one swallowed error, one new container |
| `ImageBoot` | settings, units, hooks | four images; four environments, with values that have blanks, backslashes and quotes inside and at the ends; four hand-made files (duplicates, a continuation or a blank line cut by the end of the file, an escape that is none); a stop, two failures (a hook in each pass, or systemctl for any units), two edits (before and after a boot) |
| `ImageBootGarbled` | a violation: see below | one edit, nothing else goes wrong |
| `CutRelease` | five properties of the tags | two products; two versions and one that does not parse; three pushes, so a pin can change and change back; two jobs at a time; a fault, a re-run of an older job and any number of the last one; a rebuild at any moment |
| `PublishRelease` | three properties of the names | two architectures, two variants; two of three releases, two of one version and one of a higher, in either order of arrival, so each can overtake the other; two runs at a time; three events, so that two runs and a re-run of either, a run that fails and is run again, or a wrong tag beside a run are all there; more of each is left to the theorems, which cover any number |
| `UpdateLane` | three properties of the pins | both lanes, two versions of each product and a repackaged application, one thing that goes wrong for each history (a conflict needs none) |

Deadlock is checked in `ReadyzGate`, the `HealthGate` runs, `UosVolume`,
`ImageBoot` and `UpdateLane`. A container that has ended stays ended, a finished
seed unit does nothing more, and a lane with no tag left to cut or publish
stops, so `Supervisor`, `SeedOwner`, `CutRelease` and `PublishRelease` do not
check it.

Fairness, all of it weak. `ReadyzGate`: threads are scheduled; that probes end
is assumed only in `LockComesBack`, and justified by the timeout on each of a
probe's requests. `HealthGate`: Docker repeats the healthcheck, a started run
goes on, the controller finishes booting, the limiter's Retry-After ends.
`Supervisor`: PID 1 is scheduled, time passes, Docker keeps its word; nothing
is assumed of the controller or mongod. `SeedOwner`: the unit is started and
runs; nothing is assumed of the console. `UosVolume`: the entrypoint runs
whenever the container is down. `CutRelease`: the forge starts queued jobs and
goes on with running ones. Overlapping jobs may turn each other red and a lost
answer may, so nothing in the repository makes main's pins released in the end:
`PinnedIsReleased` has as its premise that somebody runs the red job of main's
last push again (`RedIsRunAgain`), which is what a red job is for.
`PublishRelease` states no liveness: that names catch up cannot be said of runs
that overlap (see below). `UpdateLane`: the cron fires, jobs go on, the forge
ends checks and makes the merges it promised; how a check ends is open.

In `HealthGateShared` the endpoint is polled a bounded number of times. With two
probers that never stop, weak fairness admits an alignment in which each
overwrites the jar between the other's login and its v2 request for ever; only
an adversarial scheduler keeps that up, and PROJECT.json lists it as a hazard.

## Where the code and its words disagree

Two are runs that end in a counterexample.

* `HealthGateUnit`: in the UniFi OS seeded image `/readyz` is not "the same
  verdict" (`README.md:230`). `READYZ_KEYS` hands the unit its probe and port
  only, so it skips the API key and writes the marker that Docker trusts.
* `ImageBootGarbled`: a second boot does not leave what "the app is entitled to
  rewrite" (`tests/runtime/test_uos_demo_mode.py:34`). `demo.apply` empties
  `system.properties` before it merges (`runtime/entrypoint/demo.py:36`). A file
  the parser refuses raises with the file already empty, the hook fails,
  `run-parts`' second pass runs it again on the empty file, and the container
  boots with every setting in it lost. On the Network image the entrypoint parses
  the file first and dies with it intact, so `ImageBoot` has such files there.

The rest have no run of their own. The models have these behaviours; the
properties are stated so as not to claim otherwise.

In the containers:

* The login does not run "exactly once" (`runtime/healthcheck.py:114`): its
  marker is tested before the login and written after it, by two processes.
  `LoginsAccounted` holds for one prober.
* An unwritable `/tmp` does fail the healthcheck, for ever
  (`runtime/healthcheck.py:61`, `runtime/http.py:88`): the session only exists in
  the jar. The passing runs have `TmpWritable`.
* The group is not signalled (`runtime/entrypoint/network.py:301`) when the stop
  signal comes between the fork and the assignment of `pgid`; a second signal
  between the end of the `try` and the end of `_ignore_stop_signals` ends PID 1
  with a traceback, although `_Stop` is "caught only in `run`" (`:372`).
* The volume's copy that wins (`runtime/entrypoint/uos.py:113`) may be one a stop
  cut short, and the original is then removed.
* A key just minted whose check has no verdict is dropped like a rejected one and
  the next boot mints another, although "only a rejection justifies minting a
  replacement key" (`runtime/seed/uos_owner.py:19`); `KeysAccounted` counts it.
* Nor is a rejection all that does: `_read_key` (`:166`) takes a file that is
  there and cannot be read for no key, so the seed mints a second one and puts it
  over the first, which the console still accepts. `MintsOnlyWithout` excepts
  such a run, `KeysAccounted` counts it.
* `launcher.looping` does not go first "so nothing restarts it"
  (`runtime/entrypoint/network.py:323`) if it cannot be removed: the error is
  swallowed, `server.stop` is written and the launcher starts the controller
  again in the middle of the shutdown. `NothingRestartsIt` excepts that alone.
* "The symlink on disk is the thing to check" (`runtime/entrypoint/uos.py:290`),
  says the line above the call whose status is dropped, and nothing checks it: a
  unit that systemctl did not switch stays as the image or an earlier boot left
  it. `UnitsMatchTheEnvironment` excepts those units.
* That systemd reads a quoted value as a shell does is `_quote`'s own word
  (`:229`) and its test's, which has shlex in systemd's place. `Unquote` is that
  reader; systemd's is not in the repository.
* A stop between `open("w")` and `write`, in `demo.apply` or
  `write_system_properties`, loses the settings without a word.

In the release lane:

* "Both matrix legs resolve these to the same strings, so which leg wins the write
  does not matter" (`unifi-os-release.yml:39-40`) only if no tag arrives between
  their plans. Otherwise one leg pushes its images and the other none, and if the
  one that did wins, the job stitches its images with what the other architecture
  has staged from some other run, or fails.
* Runs of two tags share the staging package and the versioned names, and nothing
  keeps them apart. A run can stitch what another staged in the meantime, give an
  unqualified name the image another run has just put under its versioned name
  (the digest is read back from there), and discard images another is about to
  stitch. Then a run ends green and names are not what the table of `README.md:44-48`
  promises.
* `is_highest_build` is not all it takes to keep a run "from pointing a tag back"
  (`containers/release.py:100-101`): a run that planned before a newer tag came
  still slides when it gets there, after the newer run if need be. And running
  only the failed jobs again reuses the first attempt's outputs. What the plan
  does ensure, `NothingSeenIsPassedBack`, is that no run takes a name from a
  release it knew of.
* A tag made by hand for a version no commit pins is never published and keeps
  every lower release from being the highest; the unqualified names stand still
  until the tag goes.
* "A tag that does not match is not a release, and callers are expected to say so
  rather than guess" (`containers/release.py:23-24`), but `cut` makes such tags:
  `pinned_version` returns `UOS_VERSION` as it stands (`containers/pins.py:54-55`),
  a version that is none has no build, and its tag is cut, pushed, and refused by
  every plan (`containers/release_plan.py:25-31`). As no build is ever found, the next push
  asks for the same tag again, on another commit, and its job is red until the
  pin is mended. UniFi OS comes last in `sorted(PRODUCTS)`, so nothing is behind
  it in that job.
* "Cuts nothing when nothing is due" (`tag.yml:1-3`) needs jobs that run one
  after the other, and `tag.yml` has no concurrency group: of two overlapping jobs
  that are after one number, one is refused and red, and a job on older pins can
  cut its build after the newer one and the newest build be of older pins. So can
  a failed older job that is run again. A tag left behind in the clone of a failed
  rebuild makes the next number skip one.

In the update lane:

* `bump` writes the application's package whenever it writes anything, also when
  `app_version_moved` said no, so a release of UniFi OS Server can take an
  application pinned ahead back (`containers/updaters/uos.py:150-158`).
  `PinsNeverGoBack` excepts it.
* A freeze does not always surface "on the next nightly run"
  (`containers/update.py:86`): last night's pull request is minutes to either
  side of 24 hours old, so it may take one more.
* The lanes are not "consecutive steps in one workspace" (`:126`): `update.yml`
  runs a job for each.
* The pull request of a bump that a newer version superseded stays open and is
  never reported: `check_not_stalled` looks at tonight's branch only.
* The two lanes' bumps touch neighbouring rows of the README and conflict when
  both land in one night; the next night's forced branch resolves it.

## Proofs

Every proof assumes the named assumptions on the constants of its module. A few
theorems need more, say so in their statement, and are false without it; each
such condition is named below with what fails.

* **ReadyzGate** (`GateAssumption`). `OneProbeAtATime`: whoever is at `decide`,
  `probing` or `release` holds the lock, which is what makes it inductive.
  `ProbesAreBudgeted`: the last probe was booked at least (probes - 1) intervals
  after the start; `OneMoreInterval` is the arithmetic. `ReadinessIsLatched`:
  once a 200 went out the marker and the stored verdict are true, and so is
  every answer that a request owed a 200 can still be given; a probe that tested
  the marker before it was there is still running, its caller holds the lock
  (`HolderHolds`), and no 200 has gone out.
* **HealthGate** (`HealthAssumption`). A verdict rests on what requests of this
  and of earlier runs have seen, and the three files carry it from one to the
  next. `EarnInv(n)` says what each of them and each stage of a run stand for:
  the marker for all of it (`Seen`), the login marker and a live session for a
  console that answers logins, n being the fewest devices any prober waits for.
  Under `Informed` (each prober knows of a seeded key and of the whole fleet) it
  gives `HealthyOnlyWhenEarned`. Without, that is false (`HealthGateUnit`), and
  `HealthyMeansAnswers` is what is left, `EarnInv(0)`: a healthy verdict still
  means a console of this boot that answers logins and v2. `HealthyStays` needs
  `TmpWritable`, since it is the marker that answers after the first healthy
  verdict (`MarkInv`). `LoginsAreAccounted` needs a single prober besides: its
  session is proven, or about to be, or paid for by a fault (`LoginInv`); two
  probers may both log in (above). `GateImplementsLatch` is the refinement of
  `ReadinessLatch`, under `Informed` and `TmpWritable`: a run that ends maps to
  `Prove` or `Refuse`, the step that completes the console to `BecomesUsable`,
  the container's restart to the latch's, and every other step to a stutter.
* **Supervisor** (`LadderAssumption`: the graceful and database waits fit the
  budget, and with the reaping time stay under Docker's grace; the code's numbers
  satisfy it). `RungsAreBounded` bounds the clock at each rung by the start of
  the ladder; with it `LadderFitsDockerGrace`. `EveryRungWaits` is the lower
  bound, for `SigkillIsTheLastRung` and `DatabaseGetsItsWait`. `ChildIsKnown`
  ties `pgid` to `child`, for `ExitStatusIsTheChilds`.
  `NothingRestartsTheController` is about the run files alone: until the attempt
  to remove `launcher.looping` nothing is written and nothing restarted
  (`RestartInv`).
* **SeedOwner** (`SeedAssumption`). `SeedKnows` says what the process may rely
  on at each step: from `write_tmp` on its key is proven, at `mint` the file
  holds no key that is accepted unless the run could not read it (`blind`), from
  `read_key` on there is an owner. From it
  `PublishedKeysWorked`, `SeedSuccessIsReal`, `MintsOnlyWithoutAKey`.
  `KeysAreAccounted` counts the keys that nobody revoked, no run holds and no
  reader finds: one for each run that ended between minting and publishing and
  one for each misread file, at most, for publishing only overwrites a key that is
  revoked or was not read (`AccountInv`).
* **UosVolume** (`VolumeAssumption`). `RunningCopyWins`: the entry under copy is
  never one a service owns (`CopyInv`). `OriginalsAreKept`: what `rmtree` meets
  has a copy, if nothing was swallowed (`VanishInv`). `CleanBootsSettle`: a boot
  that does not migrate meets a link, and the link is only made on a settled
  volume (`CleanInv`). `UuidIsForLife`: both writers find the file without a UUID.
* **ImageBoot** (`BootAssumption`). `UnitsAreThisContainers`: each of `eth0`,
  the environment files and the links is right from the step that makes it until
  the container is down, so the invariant says which are right at each `pc`; what
  the files read back as is `QuoteSurvives`, by induction over the characters of
  a value: after each of them the reader is between quotes and has got that much.
  `ControllerFollowsItsHooks`: in a pass with no failure so far, every hook due
  has succeeded or is still queued; a second pass only ends well if none failed.
  `EveryWordStands` is the longest proof, for it is about files of any length.
  - *Reading.* `Elements` is a recursive function, and the library's induction
    takes an operator that no installed prover can instantiate. So the induction
    is over a set of numbers (`UpTo`; its least counterexample is `WFMin`'s), and
    what the recursion computes is characterised instead of unfolded: a parse
    cuts the lines where `EndOf` says (`IsParse`), there is such a cut
    (`ParseExists`) and it is what `Elements` computes (`ParseOnly`).
    `FlattenSeq` is treated in the same way (`FlatOfPieces`).
  - *Writing.* `DumpsParse`: what was read and is written out unchanged is the
    same lines. With a key appended the last element is closed and every other
    one stays (`WritesOn`), and each reads as before, but for blank lines that go
    on at the end of the file, which the new key takes in (`ReadsOn`).
    `MergeReads`: a merge that only writes absent keys leaves what every other
    key reads as, and adds those. `StoredReads` is the same of a file the
    controller stores.
  - *The boot.* `Held` is the file, or what the process that has it open read
    before it emptied it. `WordInv`: `Held` reads as what was last said of every
    key, it parses where a later step relies on that, and it has each default
    from the step on that writes it.

  The theorem assumes that no unparsable file reaches the demo hook (`"uos"` is
  not in `Garbles`), because the property is false otherwise:
  `ImageBootGarbled`. `TextAssumption` is that the texts named in the module are
  in STRING; to the provers a literal is just a constant.
* **CutRelease** (`CutAssumption`). `EveryCutCanPublish`: what a job or a desk
  holds as due names a version that its own checkout pins, and main only grows;
  versions that do not parse are cut in the same way and say nothing.
  `PublishedTagsStay` is one fact about `push` without force.
  `GreenMeansReleased`: a job at work has, or still owes, each build its pins ask
  for (`ReleaseInv`). `NeverBuiltTwice`: what is tagged, unless by hand, and what
  a job still holds as due is `Sound`, the first of its version or one whose
  predecessor is on the forge and was cut from other pins (`TwiceInv`). Both hold
  for any number of `Runners`: what a job saw before it pushed stays true, for no
  tag moves and a number that was taken meanwhile is not pushed over. That a
  version's builds have a highest one at all (`SomeBuildIsTop`) is `WFMin` over
  the numbers left to the bound.
* **PublishRelease** (`PublishAssumption`). The three theorems hold for any
  number of overlapping runs. `IInv` is what each run can count on by itself: the
  tags it and its legs planned with are there still (`SawWhatWas`); a leg that
  publishes is done when all its images are pushed, and the manifest job starts
  when all legs are and starts at its first step (`InOrder`); and, until another
  run writes to the registry, what its legs pushed is staged or nothing is
  (`StagedIsOwn`), and the names it has moved and the digests it read back are its
  own (`MovedIsOwn`). One lemma does for every other run at each step
  (`OthersKeep`): it is as it was, or it is crossed. `RunsStitchTheirOwn` is the
  step the job takes from there. For `GreenRunsHavePublished`, a plan against
  fewer tags finds a build no lower (`FewerTags`), so a build that is the highest
  now was so in every plan of its run, which then moved every name.
  `RunsPassNothingSeenBack` needs only that the manifest job runs by an output
  that says to publish.
* **UpdateLane** (`UpdateAssumption`). `MergesGoForward`: in every job's
  commit (`WorkForward`) and every head (`HeadsForward`) no pin is older than in
  what the branch was cut from, but for the application of a UniFi OS bump, and a
  rebase only applies a change to a pin that is still at its base or already at
  its value.

The type invariant of every module is proved (the first theorem of each proof
module, `HealthTypes` for `HealthGate`) and stands in no run.

Only model-checked: every liveness property, for TLAPS as used here has no rule
for fairness or ENABLED. Every invariant, every action property and the
refinement that a passing run checks are proved.

## Plan

1. The two jobs `network-release.yml` has besides (`seed` and `seeded`), as legs
   of their own between the matrix and the manifest job of `PublishRelease`.
2. The forge and the registry as one composition of the three lanes, if the
   product of their states can be kept small; a theorem that `CutsCanPublish` of
   `CutRelease` is what `PublishRelease` assumes of a tag.

The modules are kept free of RECURSIVE operators so that they can be proved
about.

## Not modelled

* `seed/network_wizard.py`: one sequence of requests at image build; its failure
  fails the build, nothing runs beside it and nothing is kept for a second run.
* `make_seed.py`, `extract_uos.py`, `docker.py`, `download.py`, `simkeys.py`:
  wrappers around docker, archives and downloads, each run once by hand or by CI.
* `selfcheck.py`, `vendorcheck.py` and the lanes' `verify` commands: single
  passes over files or downloads that keep no state.
* `testing.py`: a fixture library for other projects' tests. `cli.py`: argument
  parsing, but for the list of products.
* Of the vendored parser, what `sysprops` does not call: timestamps, XML and the
  `Properties` class. Of the entrypoints, identity stamps, log directories, the
  log tail, JVM options and the vendor's own initialisation.
* Number parsing (`DEMO_NUM_*`), wording of logs, and the base images'
  single-request probes, which keep no state.
* Of `network-release.yml`, the jobs `seed` and `seeded`, which boot the staged
  base, snapshot it and stage a third variant after the matrix. Its matrix, staging
  package and manifest job are those of `unifi-os-release.yml`, from which
  `PublishRelease` is read.
* In `UpdateLane`, a list call that fails once (`containers/forge.py:96-99`, which
  swallows it) and an open time that cannot be read, which `check_not_stalled`
  takes for fresh (`containers/update.py:109-111`): they put a report off by a
  night, and `WedgeIsReported` says that one comes again and again.
