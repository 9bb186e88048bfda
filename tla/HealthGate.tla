----------------------------- MODULE HealthGate -----------------------------
(***************************************************************************)
(* The marker-gated, staged healthcheck of the sim and seeded images       *)
(* (unifi_runtime/healthcheck.py) with the cookie jar it keeps on disk     *)
(* (unifi_runtime/http.py).                                                *)
(*                                                                         *)
(* Several probers run the same code and share three files in /tmp and no  *)
(* lock: Docker runs the healthcheck as a fresh process every interval and *)
(* kills it at its timeout, the /readyz endpoint runs it when it is polled.*)
(* Each HTTP request loads the jar, talks to the controller, truncates the *)
(* jar and writes it back; all of these are separate steps.                *)
(***************************************************************************)
EXTENDS Integers

CONSTANTS Probers,     \* who runs the probe
          Killable,    \* the probers that Docker kills at --timeout
          Pollers,     \* the probers that run only MaxPolls times in a boot
          NeedsKey,    \* [Probers -> BOOLEAN]: UOS_SEED_API_KEY as each sees it
          Expects,     \* [Probers -> Nat]: expected_fleet() as each computes it,
                       \* 0 for the images without a fleet stage
          RightCreds,  \* [Probers -> BOOLEAN]: it logs in with the real password
          KeySeeded,   \* the image seeds an API key
          Fleet,       \* how many demo devices the image seeds
          TmpWritable, \* whether /tmp can be written
          Burst,       \* logins the controller takes before it answers 429
          MaxLogins,   \* bound: the history of accepted logins stops here
          MaxFaults,   \* bound: kills, lost requests, dead sessions per boot
          MaxBoots,    \* bound: restarts of the container
          MaxPolls     \* bound: runs of the Pollers per boot

ASSUME HealthAssumption ==
    /\ Killable \subseteq Probers
    /\ Pollers \subseteq Probers
    /\ NeedsKey \in [Probers -> BOOLEAN]
    /\ Expects \in [Probers -> Nat]
    /\ RightCreds \in [Probers -> BOOLEAN]
    /\ KeySeeded \in BOOLEAN
    /\ TmpWritable \in BOOLEAN
    /\ {Fleet, Burst, MaxLogins, MaxFaults, MaxBoots, MaxPolls} \subseteq Nat

VARIABLES marker,      \* MARKER exists
          loginMarker, \* LOGIN_MARKER exists
          jar,         \* COOKIE_JAR: no session, a live one or a dead one
          pc,          \* where each prober is
          stage,       \* which request of staged() it is at
          mem,         \* the jar in the memory of the request in flight
          reply,       \* what the controller made of that request
          said,        \* what each prober last returned in this boot
          authUp,      \* the controller can log a user in
          v2Up,        \* the v2 surface has settled
          devices,     \* demo devices present
          keyOnDisk,   \* the seed step has published the API key
          attempts,    \* logins the rate limiter holds against us
          logins,      \* history: sessions the controller opened in this boot
          faults,      \* history: faults of this boot
          boots,       \* history: restarts so far
          polls        \* history: runs of the Pollers in this boot

files      == <<marker, loginMarker, jar>>
local      == <<pc, stage, mem, reply, said>>
controller == <<authUp, v2Up, devices, keyOnDisk>>
limiter    == <<attempts, logins>>
history    == <<faults, boots, polls>>
vars       == <<files, local, controller, limiter, history>>

Sessions == {"none", "good", "dead"}
Stages   == {"login", "v2", "fleet"}
Replies  == {"none", "ok", "rejected", "unsettled"}
Steps    == {"idle", "check_login", "key", "load", "wait", "truncate", "write",
             "done", "mark"}

\* Everything a caller of this image may want to use works.
Usable == authUp /\ v2Up /\ devices >= Fleet /\ (KeySeeded => keyOnDisk)

Init == /\ marker = FALSE
        /\ loginMarker = FALSE
        /\ jar = "none"
        /\ pc = [p \in Probers |-> "idle"]
        /\ stage = [p \in Probers |-> "login"]
        /\ mem = [p \in Probers |-> "none"]
        /\ reply = [p \in Probers |-> "none"]
        /\ said = [p \in Probers |-> "unknown"]
        /\ authUp = FALSE
        /\ v2Up = FALSE
        /\ devices = 0
        /\ keyOnDisk = FALSE
        /\ attempts = 0
        /\ logins = 0
        /\ faults = 0
        /\ boots = 0
        /\ polls = 0

-----------------------------------------------------------------------------
(* One run of the probe: marker_gate(staged(...)).                         *)

\* The probe returns `v` and the process, or the poll, is over.  Locals are
\* dropped so that states differ only in what is still read.
Finish(p, v) == /\ pc' = [pc EXCEPT ![p] = "idle"]
                /\ stage' = [stage EXCEPT ![p] = "login"]
                /\ mem' = [mem EXCEPT ![p] = "none"]
                /\ reply' = [reply EXCEPT ![p] = "none"]
                /\ said' = [said EXCEPT ![p] = v]

Goto(p, step) == /\ pc' = [pc EXCEPT ![p] = step]
                 /\ UNCHANGED <<stage, mem, reply, said>>

\* The next request of staged() starts.
Request(p, s) == /\ pc' = [pc EXCEPT ![p] = "load"]
                 /\ stage' = [stage EXCEPT ![p] = s]
                 /\ mem' = [mem EXCEPT ![p] = "none"]
                 /\ reply' = [reply EXCEPT ![p] = "none"]
                 /\ UNCHANGED said

\* marker_gate(probe, MARKER): a file test once readiness is proven.
CheckMarker(p) == /\ pc[p] = "idle"
                  /\ p \in Pollers => polls < MaxPolls
                  /\ polls' = IF p \in Pollers THEN polls + 1 ELSE polls
                  /\ IF marker THEN Finish(p, "healthy") ELSE Goto(p, "check_login")
                  /\ UNCHANGED <<files, controller, limiter, faults, boots>>

\* marker_gate(login_probe, LOGIN_MARKER): an earlier run logged in already.
CheckLogin(p) == /\ pc[p] = "check_login"
                 /\ IF loginMarker THEN Request(p, "v2")
                    ELSE IF NeedsKey[p] THEN Goto(p, "key")
                    ELSE Request(p, "login")
                 /\ UNCHANGED <<files, controller, limiter, history>>

\* seeded_ready: the published key works, before any login is spent.
KeyProbe(p) == /\ pc[p] = "key"
               /\ IF keyOnDisk /\ authUp THEN Request(p, "login")
                  ELSE Finish(p, "unhealthy")
               /\ UNCHANGED <<files, controller, limiter, history>>

\* json_request: _load_jar reads the jar as it is on disk now.
LoadJar(p) == /\ pc[p] = "load"
              /\ mem' = [mem EXCEPT ![p] = jar]
              /\ pc' = [pc EXCEPT ![p] = "wait"]
              /\ UNCHANGED <<stage, reply, said, files, controller, limiter, history>>

\* A login with these credentials would get a session now.
LoginWorks(p) == authUp /\ attempts < Burst /\ RightCreds[p]

\* What a login the controller refuses costs.
Charged == IF authUp /\ attempts < Burst THEN attempts + 1 ELSE attempts

\* The controller opens a session.
OpenSession == /\ attempts' = attempts + 1
               /\ logins' = IF logins < MaxLogins THEN logins + 1 ELSE logins

Answered(p, r) == /\ pc[p] = "wait"
                  /\ reply' = [reply EXCEPT ![p] = r]
                  /\ pc' = [pc EXCEPT ![p] = "truncate"]

\* The controller answers a login: a session, or a refusal (not up, wrong
\* password, 429) that every attempt but the limited one is charged for.
LoginAnswer(p) ==
    /\ stage[p] = "login"
    /\ IF LoginWorks(p)
       THEN /\ Answered(p, "ok")
            /\ mem' = [mem EXCEPT ![p] = "good"]
            /\ OpenSession
       ELSE /\ Answered(p, "rejected")
            /\ attempts' = Charged
            /\ UNCHANGED <<mem, logins>>
    /\ UNCHANGED <<stage, said, files, controller, history>>

\* Mutant of Settled: at least one device.
SettledAnyDevice(p) == IF stage[p] = "v2" THEN v2Up ELSE devices >= 1

\* The page the stage asks for reads as settled.
Settled(p) == IF stage[p] = "v2" THEN v2Up ELSE devices >= Expects[p]

\* The controller answers v2_status or devices: 401 without a live session,
\* otherwise as far as it has settled.
PageAnswer(p) ==
    /\ stage[p] \in {"v2", "fleet"}
    /\ Answered(p, IF mem[p] # "good" THEN "rejected"
                   ELSE IF Settled(p) THEN "ok" ELSE "unsettled")
    /\ UNCHANGED <<stage, mem, said, files, controller, limiter, history>>

\* NO_VERDICT: the request or its answer is lost.  A lost answer to a login
\* leaves a session nobody has the cookie of.
RequestLost(p) ==
    /\ faults < MaxFaults
    /\ faults' = faults + 1
    /\ Answered(p, "unsettled")
    /\ \/ UNCHANGED limiter
       \/ stage[p] = "login" /\ LoginWorks(p) /\ OpenSession
    /\ UNCHANGED <<stage, mem, said, files, controller, boots, polls>>

\* _save_jar, first half: opening the jar for writing empties it.
TruncateJar(p) == /\ pc[p] = "truncate"
                  /\ jar' = IF TmpWritable THEN "none" ELSE jar
                  /\ Goto(p, "write")
                  /\ UNCHANGED <<marker, loginMarker, controller, limiter, history>>

\* Mutant of WriteJar: session cookies are discarded (ignore_discard).
WriteNoSession(p) == /\ pc[p] = "write"
                     /\ jar' = IF TmpWritable THEN "none" ELSE jar
                     /\ Goto(p, "done")
                     /\ UNCHANGED <<marker, loginMarker, controller, limiter, history>>

\* _save_jar, second half: this request's cookies, whatever was saved since.
WriteJar(p) == /\ pc[p] = "write"
               /\ jar' = IF TmpWritable THEN mem[p] ELSE jar
               /\ Goto(p, "done")
               /\ UNCHANGED <<marker, loginMarker, controller, limiter, history>>

\* The login proved itself: its own marker is written.
LoginDone(p) == /\ pc[p] = "done" /\ stage[p] = "login"
                /\ IF reply[p] = "ok"
                   THEN loginMarker' = (loginMarker \/ TmpWritable) /\ Request(p, "v2")
                   ELSE Finish(p, "unhealthy") /\ UNCHANGED loginMarker
                /\ UNCHANGED <<marker, jar, controller, limiter, history>>

\* Mutants of KeepsLogin: a dead session is kept, and an error page ends one.
KeepsDead(p)   == loginMarker
KeepsIfOk(p)   == loginMarker /\ reply[p] = "ok"

\* Only a 401/403 from the v2 stage drops the login marker.
KeepsLogin(p) == loginMarker /\ reply[p] # "rejected"

\* staged() on the v2 status: 401/403 first, as the session's end.
V2Done(p) == /\ pc[p] = "done" /\ stage[p] = "v2"
             /\ loginMarker' = KeepsLogin(p)
             /\ IF reply[p] # "ok" THEN Finish(p, "unhealthy")
                ELSE IF Expects[p] = 0 THEN Goto(p, "mark")
                ELSE Request(p, "fleet")
             /\ UNCHANGED <<marker, jar, controller, limiter, history>>

\* _fleet_ready: an error body reads as no devices.
FleetDone(p) == /\ pc[p] = "done" /\ stage[p] = "fleet"
                /\ IF reply[p] = "ok" THEN Goto(p, "mark") ELSE Finish(p, "unhealthy")
                /\ UNCHANGED <<files, controller, limiter, history>>

\* Mutant of Mark: readiness is not latched.
MarkNothing(p) == /\ pc[p] = "mark"
                  /\ Finish(p, "healthy")
                  /\ UNCHANGED <<files, controller, limiter, history>>

\* marker_gate writes MARKER and returns True; it does not mind if it cannot.
Mark(p) == /\ pc[p] = "mark"
           /\ marker' = (marker \/ TmpWritable)
           /\ Finish(p, "healthy")
           /\ UNCHANGED <<loginMarker, jar, controller, limiter, history>>

\* Docker's --timeout kills the healthcheck between any two of its steps.
Kill(p) == /\ p \in Killable
           /\ pc[p] # "idle"
           /\ faults < MaxFaults
           /\ faults' = faults + 1
           /\ Finish(p, "unhealthy")
           /\ UNCHANGED <<files, controller, limiter, boots, polls>>

-----------------------------------------------------------------------------
(* The controller, and the container around it.                            *)

AuthComesUp == /\ ~authUp
               /\ authUp' = TRUE
               /\ UNCHANGED <<files, local, v2Up, devices, keyOnDisk, limiter, history>>

V2Settles == /\ authUp /\ ~v2Up
             /\ v2Up' = TRUE
             /\ UNCHANGED <<files, local, authUp, devices, keyOnDisk, limiter, history>>

DeviceAppears == /\ authUp /\ devices < Fleet
                 /\ devices' = devices + 1
                 /\ UNCHANGED <<files, local, authUp, v2Up, keyOnDisk, limiter, history>>

KeyIsPublished == /\ KeySeeded /\ authUp /\ ~keyOnDisk
                  /\ keyOnDisk' = TRUE
                  /\ UNCHANGED <<files, local, authUp, v2Up, devices, limiter, history>>

\* The limiter's Retry-After runs out.
LimiterForgives == /\ attempts > 0
                   /\ attempts' = 0
                   /\ UNCHANGED <<files, local, controller, logins, history>>

Dead(s) == IF s = "good" THEN "dead" ELSE s

\* The controller forgets the sessions it opened.
SessionsDie == /\ faults < MaxFaults
               /\ faults' = faults + 1
               /\ jar' = Dead(jar)
               /\ mem' = [p \in Probers |-> Dead(mem[p])]
               /\ UNCHANGED <<marker, loginMarker, pc, stage, reply, said,
                              controller, limiter, boots, polls>>

\* Mutant of ClearReadiness: MARKER is not in BOOT_STATE.
ClearLogin == loginMarker' = FALSE /\ jar' = "none" /\ UNCHANGED marker

\* clear_readiness_state removes BOOT_STATE.
ClearReadiness == marker' = FALSE /\ loginMarker' = FALSE /\ jar' = "none"

\* docker restart.  Every process is gone, the controller starts over, and
\* clear_readiness_state removes BOOT_STATE before anything probes.  The key
\* is on the /unifi volume and stays.
Restart == /\ boots < MaxBoots
           /\ boots' = boots + 1
           /\ ClearReadiness
           /\ pc' = [p \in Probers |-> "idle"]
           /\ stage' = [p \in Probers |-> "login"]
           /\ mem' = [p \in Probers |-> "none"]
           /\ reply' = [p \in Probers |-> "none"]
           /\ said' = [p \in Probers |-> "unknown"]
           /\ authUp' = FALSE
           /\ v2Up' = FALSE
           /\ devices' = 0
           /\ logins' = 0
           /\ faults' = 0
           /\ polls' = 0
           /\ UNCHANGED <<keyOnDisk, attempts>>

\* What a run that has started does by itself.
Runs(p) == \/ CheckLogin(p)
           \/ KeyProbe(p)
           \/ LoadJar(p)
           \/ LoginAnswer(p)
           \/ PageAnswer(p)
           \/ TruncateJar(p)
           \/ WriteJar(p)
           \/ LoginDone(p)
           \/ V2Done(p)
           \/ FleetDone(p)
           \/ Mark(p)

Settles == AuthComesUp \/ V2Settles \/ DeviceAppears \/ KeyIsPublished

Next == \/ \E p \in Probers : CheckMarker(p) \/ Runs(p) \/ RequestLost(p) \/ Kill(p)
        \/ Settles
        \/ LimiterForgives
        \/ SessionsDie
        \/ Restart

Spec == Init /\ [][Next]_vars

\* Docker repeats the healthcheck for ever, a run that has started goes on, the
\* controller finishes booting and the limiter's Retry-After ends.
FairSpec == /\ Spec
            /\ \A p \in Probers : WF_vars(Runs(p))
            /\ \A p \in Probers \ Pollers : WF_vars(CheckMarker(p))
            /\ WF_vars(Settles)
            /\ WF_vars(LimiterForgives)

-----------------------------------------------------------------------------
(* Properties.                                                             *)

TypeOK == /\ {marker, loginMarker, authUp, v2Up, keyOnDisk} \subseteq BOOLEAN
          /\ jar \in Sessions
          /\ pc \in [Probers -> Steps]
          /\ stage \in [Probers -> Stages]
          /\ mem \in [Probers -> Sessions]
          /\ reply \in [Probers -> Replies]
          /\ said \in [Probers -> {"unknown", "healthy", "unhealthy"}]
          /\ devices \in 0..Fleet
          /\ attempts \in 0..Burst
          /\ logins \in 0..MaxLogins
          /\ faults \in 0..MaxFaults
          /\ boots \in 0..MaxBoots
          /\ polls \in 0..MaxPolls

(* "Wait for healthy" is the whole contract: no prober says healthy, and no *)
(* marker that lets the next one say so exists, before this boot of the     *)
(* console answers logins and v2 and has its whole fleet and its key.       *)
HealthyIsEarned == marker \/ (\E p \in Probers : said[p] = "healthy") => Usable

(* "Extending readiness must cost zero extra logins": however long the v2   *)
(* and fleet stages take and whatever the rate limiter says, a boot opens   *)
(* one session, and one more for each process that was killed, request that *)
(* was lost or session that died.                                           *)
LoginsAccounted == logins <= 1 + faults

(* A prober that has said healthy says nothing else until the container is  *)
(* restarted, whatever becomes of its session, the limiter or its requests: *)
(* the marker it left answers for it.                                       *)
HealthyHolds ==
    [][Restart \/ \A p \in Probers : said[p] = "healthy" => said'[p] = "healthy"]_vars

(* A login marker whose session is gone does not wedge the gate: the 401 it *)
(* leads to drops it, or a later login puts a live session behind it, or    *)
(* readiness is proven all the same.                                        *)
DeadSessionHeals ==
    loginMarker /\ jar # "good" ~> ~loginMarker \/ jar = "good" \/ marker

(* Whatever happened on the way, and whoever else probed for a while, the   *)
(* container ends up healthy for good.                                      *)
EventuallyHealthy == <>[](\A p \in Probers \ Pollers : said[p] = "healthy")

\* The promise of ReadinessLatch, kept by files, stages and sessions.
Latch == INSTANCE ReadinessLatch WITH usable <- Usable, verdict <- said

(* The gate implements the latch: every step of every prober, of the        *)
(* controller and of the container is a step of ReadinessLatch or none.     *)
ImplementsLatch == Latch!Spec
=============================================================================
