-------------------------- MODULE ReadinessProofs --------------------------
(***************************************************************************)
(* Proofs about the two halves of readiness, which share no name so that   *)
(* they can be extended together: ReadyzGate, the gate in front of the     *)
(* probe, and HealthGate, the probe behind it.                             *)
(***************************************************************************)
EXTENDS HealthGate, ReadyzGate, TLAPS

-----------------------------------------------------------------------------
(* ReadyzGate: any callers, any interval and any bound on the clock.       *)

\* Only the lock's holder is between acquire and release.
HolderInv == \A t \in Callers :
                 at[t] \in {"decide", "marker", "probing", "release"} => lock = t

\* Every probe but the last is paid for by an interval before `last`.
BudgetInv == /\ last # Never => last <= now
             /\ probes > 0 => last # Never /\ (probes - 1) * Interval <= last

\* A stored, an answered and a received 200 all rest on the marker, and a probe
\* that runs, having found no marker, has no earlier verdict to take back.
LatchInv == Latched =>
    /\ verdict => proven
    /\ told => verdict
    /\ \A t \in Callers :
           /\ at[t] = "probing" => ~verdict
           /\ answer[t] = "ready" => verdict
           /\ owed[t] => told
           /\ owed[t] /\ at[t] \in {"release", "send"} => answer[t] # "not_ready"

(* The variables keep their types: the typing invariant of the gate.        *)
THEOREM TypeCorrect == ReadyzSpec => []ReadyzTypeOK
<1>1. ReadyzInit => ReadyzTypeOK
  <2> SUFFICES ASSUME ReadyzInit PROVE ReadyzTypeOK
    OBVIOUS
  <2>1. /\ lock \in Callers \cup {NoOne}
        /\ last \in Nat \cup {Never}
        /\ now \in Nat
        /\ probes \in Nat
        /\ at \in [Callers -> {"idle", "acquire", "cached", "decide",
                               "marker", "probing", "release", "send"}]
        /\ answer \in [Callers -> Answers]
    BY DEF ReadyzInit, Answers
  <2>2. /\ verdict \in BOOLEAN
        /\ proven \in BOOLEAN
        /\ told \in BOOLEAN
        /\ owed \in [Callers -> BOOLEAN]
    BY DEF ReadyzInit
  <2>3. QED BY <2>1, <2>2 DEF ReadyzTypeOK
<1>2. ReadyzTypeOK /\ [ReadyzNext]_readyzVars => ReadyzTypeOK'
  <2> SUFFICES ASSUME ReadyzTypeOK, [ReadyzNext]_readyzVars PROVE ReadyzTypeOK'
    OBVIOUS
  <2> USE GateAssumption DEF ReadyzTypeOK, Answers, gateVars, gateHistory
  <2>1. ASSUME NEW t \in Callers, Arrive(t) PROVE ReadyzTypeOK'
    BY <2>1 DEF Arrive
  <2>2. ASSUME NEW t \in Callers, Serves(t) PROVE ReadyzTypeOK'
    <3>1. CASE Acquire(t)      BY <3>1 DEF Acquire
    <3>2. CASE AcquireFails(t) BY <3>2 DEF AcquireFails
    <3>3. CASE ReadCached(t)   BY <3>3 DEF ReadCached, AsAnswer
    <3>4. CASE TooSoon(t)      BY <3>4 DEF TooSoon, Due, AsAnswer
    <3>5. CASE StartProbe(t)   BY <3>5 DEF StartProbe, Due
    <3>6. CASE TestMarker(t)   BY <3>6 DEF TestMarker
    <3>7. CASE Release(t)      BY <3>7 DEF Release
    <3>8. CASE Send(t)         BY <3>8 DEF Send
    <3>9. QED BY <2>2, <3>1, <3>2, <3>3, <3>4, <3>5, <3>6, <3>7, <3>8 DEF Serves
  <2>3. ASSUME NEW t \in Callers, ProbeEnds(t) PROVE ReadyzTypeOK'
    <3>1. ASSUME NEW ready \in BOOLEAN, ProbeReturns(t, ready) PROVE ReadyzTypeOK'
      BY <3>1 DEF ProbeReturns, AsAnswer
    <3>2. CASE ProbeRaises(t)  BY <3>2 DEF ProbeRaises
    <3>3. QED BY <2>3, <3>1, <3>2 DEF ProbeEnds
  <2>4. CASE HealthcheckProves  BY <2>4 DEF HealthcheckProves
  <2>5. CASE Tick               BY <2>5 DEF Tick
  <2>6. CASE UNCHANGED readyzVars     BY <2>6 DEF readyzVars
  <2>7. QED BY <2>1, <2>2, <2>3, <2>4, <2>5, <2>6 DEF ReadyzNext
<1>3. QED BY <1>1, <1>2, PTL DEF ReadyzSpec

\* The holder is the one between acquire and release, at any time.
LEMMA HolderHolds == ReadyzSpec => []HolderInv
<1>1. ReadyzInit => HolderInv
  BY DEF ReadyzInit, HolderInv
<1>2. ReadyzTypeOK /\ HolderInv /\ [ReadyzNext]_readyzVars => HolderInv'
  <2> SUFFICES ASSUME ReadyzTypeOK, HolderInv, [ReadyzNext]_readyzVars PROVE HolderInv'
    OBVIOUS
  <2> USE GateAssumption DEF ReadyzTypeOK, HolderInv, gateVars, gateHistory
  <2>1. ASSUME NEW t \in Callers, Arrive(t) PROVE HolderInv'
    BY <2>1 DEF Arrive
  <2>2. ASSUME NEW t \in Callers, Serves(t) PROVE HolderInv'
    <3>1. CASE Acquire(t)      BY <3>1 DEF Acquire
    <3>2. CASE AcquireFails(t) BY <3>2 DEF AcquireFails
    <3>3. CASE ReadCached(t)   BY <3>3 DEF ReadCached
    <3>4. CASE TooSoon(t)      BY <3>4 DEF TooSoon, Due
    <3>5. CASE StartProbe(t)   BY <3>5 DEF StartProbe, Due
    <3>6. CASE TestMarker(t)   BY <3>6 DEF TestMarker
    <3>7. CASE Release(t)      BY <3>7 DEF Release
    <3>8. CASE Send(t)         BY <3>8 DEF Send
    <3>9. QED BY <2>2, <3>1, <3>2, <3>3, <3>4, <3>5, <3>6, <3>7, <3>8 DEF Serves
  <2>3. ASSUME NEW t \in Callers, ProbeEnds(t) PROVE HolderInv'
    BY <2>3 DEF ProbeEnds, ProbeReturns, ProbeRaises
  <2>4. CASE HealthcheckProves  BY <2>4 DEF HealthcheckProves
  <2>5. CASE Tick               BY <2>5 DEF Tick
  <2>6. CASE UNCHANGED readyzVars     BY <2>6 DEF readyzVars
  <2>7. QED BY <2>1, <2>2, <2>3, <2>4, <2>5, <2>6 DEF ReadyzNext
<1>3. QED BY <1>1, <1>2, TypeCorrect, PTL DEF ReadyzSpec

(* Between acquire and release a thread holds the lock, so at most one of   *)
(* them probes: Gate.ready never runs two probes at once.                   *)
THEOREM OneProbeAtATime == ReadyzSpec => []OneProbe
<1>1. HolderInv => OneProbe
  BY DEF HolderInv, OneProbe
<1>2. QED BY <1>1, HolderHolds, PTL

LEMMA OneMoreInterval ==
  ASSUME NEW n \in Nat, NEW d \in Nat, NEW a \in Nat, NEW b \in Nat,
         (n - 1) * d <= a, b - a >= d
  PROVE  n * d <= b
BY SMT

(* A new probe is only started an interval after the clock value the last   *)
(* one was booked at, so n probes cost (n - 1) intervals: the rate limiter  *)
(* in front of the login never sees more, however many callers poll.        *)
THEOREM ProbesAreBudgeted == ReadyzSpec => []ProbeBudget
<1>1. ReadyzInit => BudgetInv
  BY DEF ReadyzInit, BudgetInv
<1>2. ReadyzTypeOK /\ BudgetInv /\ [ReadyzNext]_readyzVars => BudgetInv'
  <2> SUFFICES ASSUME ReadyzTypeOK, BudgetInv, [ReadyzNext]_readyzVars PROVE BudgetInv'
    OBVIOUS
  <2> USE GateAssumption DEF ReadyzTypeOK, BudgetInv, gateVars, gateHistory, Never
  <2>1. ASSUME NEW t \in Callers, StartProbe(t) PROVE BudgetInv'
    <3>1. probes' = probes + 1 /\ last' = now /\ now' = now
      BY <2>1 DEF StartProbe, Due
    <3>2. CASE probes = 0
      BY <3>1, <3>2
    <3>3. CASE probes > 0
      <4>1. last \in Nat /\ (probes - 1) * Interval <= last /\ now - last >= Interval
        BY <2>1, <3>3 DEF StartProbe, Due
      <4>2. probes * Interval <= now
        BY <4>1, OneMoreInterval
      <4>3. QED BY <3>1, <4>2
    <3>4. QED BY <3>2, <3>3
  <2>2. CASE Tick
    BY <2>2 DEF Tick
  <2>3. ASSUME NEW t \in Callers, Arrive(t) \/ ProbeEnds(t) \/ Serves(t), ~StartProbe(t)
        PROVE  UNCHANGED <<last, now, probes>>
    BY <2>3 DEF Arrive, ProbeEnds, ProbeReturns, ProbeRaises, Serves, Acquire,
                AcquireFails, ReadCached, TooSoon, Due, TestMarker, Release, Send
  <2>4. CASE HealthcheckProves
    BY <2>4 DEF HealthcheckProves
  <2>5. CASE UNCHANGED readyzVars
    BY <2>5 DEF readyzVars
  <2>6. UNCHANGED <<last, now, probes>> => BudgetInv'
    OBVIOUS
  <2>7. QED BY <2>1, <2>2, <2>3, <2>4, <2>5, <2>6 DEF ReadyzNext
<1>3. ReadyzTypeOK /\ BudgetInv => ProbeBudget
  <2> SUFFICES ASSUME ReadyzTypeOK, BudgetInv, probes > 0 PROVE (probes - 1) * Interval <= now
    BY DEF ProbeBudget
  <2>1. last \in Nat /\ last <= now /\ (probes - 1) * Interval <= last
    BY DEF ReadyzTypeOK, BudgetInv
  <2>2. (probes - 1) * Interval \in Int /\ now \in Nat
    BY GateAssumption DEF ReadyzTypeOK
  <2>3. QED BY <2>1, <2>2
<1>4. QED BY <1>1, <1>2, <1>3, TypeCorrect, PTL DEF ReadyzSpec

(* With a marker-gated probe a 200 is for good: the marker keeps later      *)
(* probes from running, a probe that ran on past the marker has no verdict  *)
(* to take back, and the verdict is every later answer.                     *)
THEOREM ReadinessIsLatched == ReadyzSpec => []NoRegress
<1>1. ReadyzInit => LatchInv
  BY DEF ReadyzInit, LatchInv
<1>2. ReadyzTypeOK /\ HolderInv /\ LatchInv /\ [ReadyzNext]_readyzVars => LatchInv'
  <2> SUFFICES ASSUME ReadyzTypeOK, HolderInv, LatchInv, [ReadyzNext]_readyzVars, Latched
               PROVE LatchInv'
    BY GateAssumption DEF ReadyzNext, readyzVars, LatchInv
  <2> USE DEF ReadyzTypeOK, Answers, HolderInv, LatchInv, gateVars, gateHistory
  <2>1. ASSUME NEW t \in Callers, Arrive(t) PROVE LatchInv'
    BY <2>1 DEF Arrive
  <2>2. ASSUME NEW t \in Callers, Serves(t) PROVE LatchInv'
    <3>1. CASE Acquire(t)      BY <3>1 DEF Acquire
    <3>2. CASE AcquireFails(t) BY <3>2 DEF AcquireFails
    <3>3. CASE ReadCached(t)   BY <3>3 DEF ReadCached, AsAnswer
    <3>4. CASE TooSoon(t)      BY <3>4 DEF TooSoon, Due, AsAnswer
    <3>5. CASE StartProbe(t)   BY <3>5 DEF StartProbe, Due
    <3>6. CASE TestMarker(t)   BY <3>6 DEF TestMarker
    <3>7. CASE Release(t)      BY <3>7 DEF Release
    <3>8. CASE Send(t)         BY <3>8 DEF Send
    <3>9. QED BY <2>2, <3>1, <3>2, <3>3, <3>4, <3>5, <3>6, <3>7, <3>8 DEF Serves
  <2>3. ASSUME NEW t \in Callers, ProbeEnds(t) PROVE LatchInv'
    <3>1. ASSUME NEW ready \in BOOLEAN, ProbeReturns(t, ready) PROVE LatchInv'
      BY <3>1 DEF ProbeReturns, AsAnswer
    <3>2. CASE ProbeRaises(t)  BY <3>2 DEF ProbeRaises
    <3>3. QED BY <2>3, <3>1, <3>2 DEF ProbeEnds
  <2>4. CASE HealthcheckProves  BY <2>4 DEF HealthcheckProves
  <2>5. CASE Tick               BY <2>5 DEF Tick
  <2>6. CASE UNCHANGED readyzVars     BY <2>6 DEF readyzVars
  <2>7. QED BY <2>1, <2>2, <2>3, <2>4, <2>5, <2>6 DEF ReadyzNext
<1>3. LatchInv => NoRegress
  BY DEF LatchInv, NoRegress
<1>4. QED BY <1>1, <1>2, <1>3, TypeCorrect, HolderHolds, PTL DEF ReadyzSpec

-----------------------------------------------------------------------------
(* HealthGate: any probers, whatever each of them sees of the container,   *)
(* any fleet, rate limit and bounds.                                       *)

(* The variables of the gate keep their types, and its histories the bounds *)
(* they are given.                                                          *)
THEOREM HealthTypes == Spec => []TypeOK
<1> USE HealthAssumption
<1>1. Init => TypeOK
  <2> SUFFICES ASSUME Init PROVE TypeOK
    OBVIOUS
  <2>1. /\ marker \in BOOLEAN /\ loginMarker \in BOOLEAN /\ authUp \in BOOLEAN
        /\ v2Up \in BOOLEAN /\ keyOnDisk \in BOOLEAN
    BY DEF Init
  <2>2. QED BY <2>1 DEF Init, TypeOK, Sessions, Stages, Replies, Steps
<1>2. TypeOK /\ [Next]_vars => TypeOK'
  <2> SUFFICES ASSUME TypeOK, [Next]_vars PROVE TypeOK'
    OBVIOUS
  <2> USE DEF TypeOK, Sessions, Stages, Replies, Steps, Goto, Request, Finish, Answered,
              files, local, controller, limiter, history
  <2>1. ASSUME NEW p \in Probers, CheckMarker(p) PROVE TypeOK'
    BY <2>1 DEF CheckMarker
  <2>2. ASSUME NEW p \in Probers, Runs(p) PROVE TypeOK'
    <3>1. CASE CheckLogin(p)  BY <3>1 DEF CheckLogin
    <3>2. CASE KeyProbe(p)    BY <3>2 DEF KeyProbe
    <3>3. CASE LoadJar(p)     BY <3>3 DEF LoadJar
    <3>4. CASE LoginAnswer(p) BY <3>4 DEF LoginAnswer, LoginWorks, OpenSession, Charged
    <3>5. CASE PageAnswer(p)  BY <3>5 DEF PageAnswer
    <3>6. CASE TruncateJar(p) BY <3>6 DEF TruncateJar
    <3>7. CASE WriteJar(p)    BY <3>7 DEF WriteJar
    <3>8. CASE LoginDone(p)   BY <3>8 DEF LoginDone
    <3>9. CASE V2Done(p)      BY <3>9 DEF V2Done, KeepsLogin
    <3>10. CASE FleetDone(p)  BY <3>10 DEF FleetDone
    <3>11. CASE Mark(p)       BY <3>11 DEF Mark
    <3>12. QED BY <2>2, <3>1, <3>2, <3>3, <3>4, <3>5, <3>6, <3>7, <3>8, <3>9, <3>10, <3>11 DEF Runs
  <2>3. ASSUME NEW p \in Probers, RequestLost(p) PROVE TypeOK'
    BY <2>3 DEF RequestLost, LoginWorks, OpenSession
  <2>4. ASSUME NEW p \in Probers, Kill(p) PROVE TypeOK'
    BY <2>4 DEF Kill
  <2>5. CASE AuthComesUp        BY <2>5 DEF AuthComesUp
  <2>6. CASE V2Settles          BY <2>6 DEF V2Settles
  <2>7. CASE DeviceAppears      BY <2>7 DEF DeviceAppears
  <2>8. CASE KeyIsPublished     BY <2>8 DEF KeyIsPublished
  <2>9. CASE LimiterForgives    BY <2>9 DEF LimiterForgives
  <2>10. CASE SessionsDie       BY <2>10 DEF SessionsDie, Dead
  <2>11. CASE Restart
    <3>1. /\ marker' \in BOOLEAN /\ loginMarker' \in BOOLEAN /\ authUp' \in BOOLEAN
          /\ v2Up' \in BOOLEAN /\ keyOnDisk' \in BOOLEAN
      BY <2>11 DEF Restart, ClearReadiness
    <3>2. /\ pc' \in [Probers -> Steps]
          /\ stage' \in [Probers -> Stages]
          /\ mem' \in [Probers -> Sessions]
          /\ reply' \in [Probers -> Replies]
          /\ said' \in [Probers -> {"unknown", "healthy", "unhealthy"}]
          /\ jar' \in Sessions
      BY <2>11 DEF Restart, ClearReadiness
    <3>3. /\ devices' \in 0..Fleet /\ attempts' \in 0..Burst /\ logins' \in 0..MaxLogins
          /\ faults' \in 0..MaxFaults /\ boots' \in 0..MaxBoots /\ polls' \in 0..MaxPolls
      BY <2>11 DEF Restart
    <3>4. QED BY <3>1, <3>2, <3>3
  <2>12. CASE UNCHANGED vars    BY <2>12 DEF vars
  <2>13. QED
    BY <2>1, <2>2, <2>3, <2>4, <2>5, <2>6, <2>7, <2>8, <2>9, <2>10, <2>11, <2>12
    DEF Next, Settles
<1>3. QED BY <1>1, <1>2, PTL DEF Spec

-----------------------------------------------------------------------------
(* What a healthy verdict stands for.                                       *)

\* What has been seen to work when a prober passes the key check, ...
KeySeen == (\A p \in Probers : NeedsKey[p]) => keyOnDisk

\* ... and when it has gone through its stages, with n devices as the fewest that
\* any prober waits for.
Seen(n) == authUp /\ v2Up /\ devices >= n /\ KeySeen

EarnedBy(p, n) ==
    /\ pc[p] \in {"load", "wait", "truncate", "write", "done", "mark"} => KeySeen
    /\ mem[p] = "good" \/ reply[p] = "ok" \/ stage[p] # "login" => authUp
    /\ stage[p] = "v2" /\ reply[p] = "ok" => v2Up
    /\ stage[p] = "fleet" => v2Up
    /\ stage[p] = "fleet" /\ reply[p] = "ok" => devices >= n
    /\ pc[p] = "mark" => Seen(n)
    /\ said[p] = "healthy" => Seen(n)

\* Each file stands for what the run that wrote it has seen, whichever run that
\* was and whatever the one that reads it asks for.
EarnInv(n) == /\ marker => Seen(n)
              /\ loginMarker => authUp /\ KeySeen
              /\ jar = "good" => authUp
              /\ \A p \in Probers : EarnedBy(p, n)

\* The prober behind every healthy verdict left its marker, and a prober at work
\* has not said healthy in this boot.
LatchedBy(p) == /\ said[p] = "healthy" => marker
                /\ pc[p] # "idle" => said[p] # "healthy"

MarkInv == \A p \in Probers : LatchedBy(p)

\* The session of the one prober: the request's own until it is written back.
Session(p) == IF pc[p] \in {"wait", "truncate", "write"} THEN mem[p] ELSE jar

\* A login that has been proven, or is about to be.
Held(p) == /\ Session(p) = "good"
           /\ loginMarker \/ (stage[p] = "login" /\ reply[p] = "ok")

AccountedBy(p) ==
    /\ pc[p] = "wait" => mem[p] = jar
    /\ pc[p] \in {"idle", "check_login", "key", "load", "wait"} => reply[p] = "none"
    /\ pc[p] \in {"idle", "check_login", "key"} => stage[p] = "login"
    /\ stage[p] = "login" /\ pc[p] \notin {"idle", "check_login"} => ~loginMarker
    /\ pc[p] = "mark" => stage[p] # "login"
    /\ stage[p] # "login" /\ pc[p] # "mark" /\ reply[p] = "rejected" => Session(p) # "good"
    /\ logins <= faults + (IF Held(p) THEN 1 ELSE 0)

LoginInv == \A p \in Probers : AccountedBy(p)

LEMMA EarnStarts == ASSUME NEW n \in Nat PROVE Init => EarnInv(n)
BY DEF Init, EarnInv, EarnedBy

LEMMA EarnKept ==
    ASSUME NEW n \in Nat, \A p \in Probers : Expects[p] >= n,
           TypeOK, EarnInv(n), [Next]_vars
    PROVE  EarnInv(n)'
<1> USE HealthAssumption
<1> USE DEF TypeOK, Sessions, Stages, Replies, Steps, Goto, Request, Finish, Answered,
            files, local, controller, limiter, history, EarnInv, EarnedBy, Seen, KeySeen
<1>1. ASSUME NEW p \in Probers, CheckMarker(p) PROVE EarnInv(n)'
  BY <1>1 DEF CheckMarker
<1>2. ASSUME NEW p \in Probers, Runs(p) PROVE EarnInv(n)'
  <2>1. CASE CheckLogin(p)  BY <2>1 DEF CheckLogin
  <2>2. CASE KeyProbe(p)    BY <2>2 DEF KeyProbe
  <2>3. CASE LoadJar(p)     BY <2>3 DEF LoadJar
  <2>4. CASE LoginAnswer(p) BY <2>4 DEF LoginAnswer, LoginWorks, OpenSession
  <2>5. CASE PageAnswer(p)  BY <2>5 DEF PageAnswer, Settled
  <2>6. CASE TruncateJar(p) BY <2>6 DEF TruncateJar
  <2>7. CASE WriteJar(p)    BY <2>7 DEF WriteJar
  <2>8. CASE LoginDone(p)   BY <2>8 DEF LoginDone
  <2>9. CASE V2Done(p)      BY <2>9 DEF V2Done, KeepsLogin
  <2>10. CASE FleetDone(p)  BY <2>10 DEF FleetDone
  <2>11. CASE Mark(p)       BY <2>11 DEF Mark
  <2>12. QED BY <1>2, <2>1, <2>2, <2>3, <2>4, <2>5, <2>6, <2>7, <2>8, <2>9, <2>10, <2>11 DEF Runs
<1>3. ASSUME NEW p \in Probers, RequestLost(p) PROVE EarnInv(n)'
  BY <1>3 DEF RequestLost, LoginWorks, OpenSession
<1>4. ASSUME NEW p \in Probers, Kill(p) PROVE EarnInv(n)'
  BY <1>4 DEF Kill
<1>5. CASE AuthComesUp      BY <1>5 DEF AuthComesUp
<1>6. CASE V2Settles        BY <1>6 DEF V2Settles
<1>7. CASE DeviceAppears    BY <1>7 DEF DeviceAppears
<1>8. CASE KeyIsPublished   BY <1>8 DEF KeyIsPublished
<1>9. CASE LimiterForgives  BY <1>9 DEF LimiterForgives
<1>10. CASE SessionsDie     BY <1>10 DEF SessionsDie, Dead
<1>11. CASE Restart         BY <1>11 DEF Restart, ClearReadiness
<1>12. CASE UNCHANGED vars  BY <1>12 DEF vars
<1>13. QED
  BY <1>1, <1>2, <1>3, <1>4, <1>5, <1>6, <1>7, <1>8, <1>9, <1>10, <1>11, <1>12
  DEF Next, Settles

LEMMA MarkedWhenSaid == ASSUME TmpWritable PROVE Spec => []MarkInv
<1> USE HealthAssumption
<1>1. Init => MarkInv
  BY DEF Init, MarkInv, LatchedBy
<1>2. TypeOK /\ MarkInv /\ [Next]_vars => MarkInv'
  <2> SUFFICES ASSUME TypeOK, MarkInv, [Next]_vars PROVE MarkInv'
    OBVIOUS
  <2> USE DEF TypeOK, Goto, Request, Finish, Answered,
              files, local, controller, limiter, history, MarkInv, LatchedBy
  <2>1. ASSUME NEW p \in Probers, CheckMarker(p) PROVE MarkInv'
    BY <2>1 DEF CheckMarker
  <2>2. ASSUME NEW p \in Probers, Runs(p) PROVE MarkInv'
    <3>1. CASE CheckLogin(p)  BY <3>1 DEF CheckLogin
    <3>2. CASE KeyProbe(p)    BY <3>2 DEF KeyProbe
    <3>3. CASE LoadJar(p)     BY <3>3 DEF LoadJar
    <3>4. CASE LoginAnswer(p) BY <3>4 DEF LoginAnswer, LoginWorks, OpenSession
    <3>5. CASE PageAnswer(p)  BY <3>5 DEF PageAnswer, Settled
    <3>6. CASE TruncateJar(p) BY <3>6 DEF TruncateJar
    <3>7. CASE WriteJar(p)    BY <3>7 DEF WriteJar
    <3>8. CASE LoginDone(p)   BY <3>8 DEF LoginDone
    <3>9. CASE V2Done(p)      BY <3>9 DEF V2Done, KeepsLogin
    <3>10. CASE FleetDone(p)  BY <3>10 DEF FleetDone
    <3>11. CASE Mark(p)       BY <3>11 DEF Mark
    <3>12. QED BY <2>2, <3>1, <3>2, <3>3, <3>4, <3>5, <3>6, <3>7, <3>8, <3>9, <3>10, <3>11 DEF Runs
  <2>3. ASSUME NEW p \in Probers, RequestLost(p) PROVE MarkInv'
    BY <2>3 DEF RequestLost, LoginWorks, OpenSession
  <2>4. ASSUME NEW p \in Probers, Kill(p) PROVE MarkInv'
    BY <2>4 DEF Kill
  <2>5. CASE AuthComesUp      BY <2>5 DEF AuthComesUp
  <2>6. CASE V2Settles        BY <2>6 DEF V2Settles
  <2>7. CASE DeviceAppears    BY <2>7 DEF DeviceAppears
  <2>8. CASE KeyIsPublished   BY <2>8 DEF KeyIsPublished
  <2>9. CASE LimiterForgives  BY <2>9 DEF LimiterForgives
  <2>10. CASE SessionsDie     BY <2>10 DEF SessionsDie, Dead
  <2>11. CASE Restart         BY <2>11 DEF Restart, ClearReadiness
  <2>12. CASE UNCHANGED vars  BY <2>12 DEF vars
  <2>13. QED
    BY <2>1, <2>2, <2>3, <2>4, <2>5, <2>6, <2>7, <2>8, <2>9, <2>10, <2>11, <2>12
    DEF Next, Settles
<1>3. QED BY <1>1, <1>2, HealthTypes, PTL DEF Spec

LEMMA LoginsHeld ==
    ASSUME NEW CONSTANT only, Probers = {only}, TmpWritable
    PROVE  Spec => []LoginInv
<1> USE HealthAssumption
<1>1. Init => LoginInv
  BY DEF Init, LoginInv, AccountedBy, Held, Session
<1>2. TypeOK /\ LoginInv /\ [Next]_vars => LoginInv'
  <2> SUFFICES ASSUME TypeOK, LoginInv, [Next]_vars PROVE LoginInv'
    OBVIOUS
  <2> USE DEF TypeOK, Sessions, Stages, Replies, Steps, Goto, Request, Finish, Answered,
              files, local, controller, limiter, history, LoginInv, AccountedBy, Held, Session
  <2>1. ASSUME NEW p \in Probers, CheckMarker(p) PROVE LoginInv'
    BY <2>1 DEF CheckMarker
  <2>2. ASSUME NEW p \in Probers, Runs(p) PROVE LoginInv'
    <3>1. CASE CheckLogin(p)  BY <3>1 DEF CheckLogin
    <3>2. CASE KeyProbe(p)
      <4>1. pc[p] = "key" /\ ~loginMarker /\ ~Held(p) /\ Probers = {p}
        BY <3>2 DEF KeyProbe
      <4>2. CASE keyOnDisk /\ authUp
        BY <3>2, <4>1, <4>2 DEF KeyProbe
      <4>3. CASE ~(keyOnDisk /\ authUp)
        BY <3>2, <4>1, <4>3 DEF KeyProbe
      <4>4. QED BY <4>2, <4>3
    <3>3. CASE LoadJar(p)     BY <3>3 DEF LoadJar
    <3>4. CASE LoginAnswer(p) BY <3>4 DEF LoginAnswer, LoginWorks, OpenSession
    <3>5. CASE PageAnswer(p)  BY <3>5 DEF PageAnswer, Settled
    <3>6. CASE TruncateJar(p) BY <3>6 DEF TruncateJar
    <3>7. CASE WriteJar(p)    BY <3>7 DEF WriteJar
    <3>8. CASE LoginDone(p)
      <4>1. /\ pc[p] = "done" /\ stage[p] = "login" /\ Probers = {p} /\ ~loginMarker
            /\ UNCHANGED <<jar, logins, faults>>
        BY <3>8 DEF LoginDone
      <4>2. CASE reply[p] = "ok"
        <5>0. loginMarker' = (loginMarker \/ TmpWritable)
          BY <3>8, <4>1, <4>2 DEF LoginDone
        <5>1. /\ pc'[p] = "load" /\ stage'[p] = "v2" /\ reply'[p] = "none" /\ mem'[p] = "none"
              /\ loginMarker'
          <6>1. loginMarker'
            BY <5>0, Zenon
          <6>2. pc'[p] = "load" /\ stage'[p] = "v2" /\ reply'[p] = "none" /\ mem'[p] = "none"
            BY <3>8, <4>1, <4>2 DEF LoginDone
          <6>3. QED BY <6>1, <6>2
        <5>2. Held(p)' = Held(p)
          BY <4>1, <4>2, <5>1
        <5>3. QED BY <4>1, <4>2, <5>1, <5>2
      <4>3. CASE reply[p] # "ok"
        BY <3>8, <4>1, <4>3 DEF LoginDone
      <4>4. QED BY <4>2, <4>3
    <3>9. CASE V2Done(p)
      <4>1. /\ pc[p] = "done" /\ stage[p] = "v2" /\ Probers = {p}
            /\ UNCHANGED <<jar, logins, faults>>
        BY <3>9 DEF V2Done
      <4>2. CASE reply[p] = "rejected"
        BY <3>9, <4>1, <4>2 DEF V2Done, KeepsLogin
      <4>3. CASE reply[p] \notin {"rejected", "ok"}
        BY <3>9, <4>1, <4>3 DEF V2Done, KeepsLogin
      <4>4. CASE reply[p] = "ok" /\ Expects[p] = 0
        BY <3>9, <4>1, <4>4 DEF V2Done, KeepsLogin
      <4>5. CASE reply[p] = "ok" /\ Expects[p] # 0
        BY <3>9, <4>1, <4>5 DEF V2Done, KeepsLogin
      <4>6. QED BY <4>2, <4>3, <4>4, <4>5
    <3>10. CASE FleetDone(p)  BY <3>10 DEF FleetDone
    <3>11. CASE Mark(p)       BY <3>11 DEF Mark
    <3>12. QED BY <2>2, <3>1, <3>2, <3>3, <3>4, <3>5, <3>6, <3>7, <3>8, <3>9, <3>10, <3>11 DEF Runs
  <2>3. ASSUME NEW p \in Probers, RequestLost(p) PROVE LoginInv'
    BY <2>3 DEF RequestLost, LoginWorks, OpenSession
  <2>4. ASSUME NEW p \in Probers, Kill(p) PROVE LoginInv'
    BY <2>4 DEF Kill
  <2>5. CASE AuthComesUp      BY <2>5 DEF AuthComesUp
  <2>6. CASE V2Settles        BY <2>6 DEF V2Settles
  <2>7. CASE DeviceAppears    BY <2>7 DEF DeviceAppears
  <2>8. CASE KeyIsPublished   BY <2>8 DEF KeyIsPublished
  <2>9. CASE LimiterForgives  BY <2>9 DEF LimiterForgives
  <2>10. CASE SessionsDie     BY <2>10 DEF SessionsDie, Dead
  <2>11. CASE Restart         BY <2>11 DEF Restart, ClearReadiness
  <2>12. CASE UNCHANGED vars  BY <2>12 DEF vars
  <2>13. QED
    BY <2>1, <2>2, <2>3, <2>4, <2>5, <2>6, <2>7, <2>8, <2>9, <2>10, <2>11, <2>12
    DEF Next, Settles
<1>3. QED BY <1>1, <1>2, HealthTypes, PTL DEF Spec

\* Every prober sees the container as it is: it asks for the key if one is seeded
\* and for the whole fleet.
Informed == \A p \in Probers : (KeySeeded => NeedsKey[p]) /\ Expects[p] >= Fleet

\* What informed probers have all seen is all there is to see.
LEMMA InformedSeen == ASSUME Informed, TypeOK, Seen(Fleet) PROVE Usable
<1>1. KeySeeded => keyOnDisk
  BY DEF Informed, Seen, KeySeen
<1>2. QED BY <1>1 DEF Seen, Usable

\* So with informed probers the marker, and a verdict about to be given, stand
\* for a usable console.
LEMMA InformedEarn ==
    ASSUME Informed, TypeOK, EarnInv(Fleet)
    PROVE  /\ marker => Usable
           /\ \A p \in Probers : pc[p] = "mark" \/ said[p] = "healthy" => Usable
BY InformedSeen DEF EarnInv, EarnedBy

LEMMA InformedFromTheStart == ASSUME Informed PROVE Spec => []EarnInv(Fleet)
<1>1. Fleet \in Nat /\ \A p \in Probers : Expects[p] >= Fleet
  BY HealthAssumption DEF Informed
<1>2. Init => EarnInv(Fleet)
  BY <1>1, EarnStarts
<1>3. TypeOK /\ EarnInv(Fleet) /\ [Next]_vars => EarnInv(Fleet)'
  BY <1>1, EarnKept
<1>4. QED BY <1>2, <1>3, HealthTypes, PTL DEF Spec

(* Where every prober sees the environment of the container, none says      *)
(* healthy, and none leaves a marker, before this boot of the console can   *)
(* be used: not by a marker of an earlier run, nor by one of another boot.  *)
THEOREM HealthyOnlyWhenEarned == ASSUME Informed PROVE Spec => []HealthyIsEarned
<1>1. TypeOK /\ EarnInv(Fleet) => HealthyIsEarned
  BY InformedEarn DEF HealthyIsEarned
<1>2. QED BY <1>1, HealthTypes, InformedFromTheStart, PTL

\* A verdict or a marker needs a console that answers.
Answering == marker \/ (\E p \in Probers : said[p] = "healthy") => authUp /\ v2Up

(* Whatever the probers see of the environment, no verdict and no marker is *)
(* older than the console of this boot: it answers logins and v2.           *)
THEOREM HealthyMeansAnswers == Spec => []Answering
<1>1. 0 \in Nat /\ \A p \in Probers : Expects[p] >= 0
  BY HealthAssumption
<1>2. Init => EarnInv(0)
  BY EarnStarts
<1>3. TypeOK /\ EarnInv(0) /\ [Next]_vars => EarnInv(0)'
  BY <1>1, EarnKept
<1>4. EarnInv(0) => Answering
  BY DEF EarnInv, EarnedBy, Seen, Answering
<1>5. QED BY <1>2, <1>3, <1>4, HealthTypes, PTL DEF Spec

(* A prober that has said healthy says nothing else until the container is  *)
(* restarted, whoever probes next to it and however the requests fare: the  *)
(* marker it left answers for it.  It needs no more than a writable /tmp.   *)
THEOREM HealthyStays == ASSUME TmpWritable PROVE Spec => HealthyHolds
<1> DEFINE Holds == \A p \in Probers : said[p] = "healthy" => said'[p] = "healthy"
<1>1. TypeOK /\ MarkInv /\ [Next]_vars => [Restart \/ Holds]_vars
  <2> SUFFICES ASSUME TypeOK, MarkInv, Next, ~Restart PROVE Holds
    OBVIOUS
  <2>1. CASE UNCHANGED said
    BY <2>1
  <2>2. ASSUME NEW p \in Probers, NEW v \in {"healthy", "unhealthy"}, Finish(p, v),
               v = "healthy" \/ said[p] # "healthy"
        PROVE  Holds
    BY <2>2 DEF Finish, TypeOK
  <2>3. ASSUME NEW p \in Probers, CheckMarker(p) PROVE Holds
    <3>1. CASE marker   BY <2>2, <2>3, <3>1 DEF CheckMarker
    <3>2. CASE ~marker  BY <2>1, <2>3, <3>2 DEF CheckMarker, Goto
    <3>3. QED BY <3>1, <3>2
  <2>4. ASSUME NEW p \in Probers, pc[p] # "idle",
               UNCHANGED said \/ Finish(p, "healthy") \/ Finish(p, "unhealthy")
        PROVE  Holds
    BY <2>1, <2>2, <2>4 DEF MarkInv, LatchedBy
  <2>5. ASSUME NEW p \in Probers, Runs(p) PROVE Holds
    <3> USE DEF Request, Goto, Answered
    <3>1. CASE CheckLogin(p)   BY <2>1, <3>1 DEF CheckLogin
    <3>2. CASE KeyProbe(p)     BY <2>4, <3>2 DEF KeyProbe
    <3>3. CASE LoadJar(p)      BY <2>1, <3>3 DEF LoadJar
    <3>4. CASE LoginAnswer(p)  BY <2>1, <3>4 DEF LoginAnswer
    <3>5. CASE PageAnswer(p)   BY <2>1, <3>5 DEF PageAnswer
    <3>6. CASE TruncateJar(p)  BY <2>1, <3>6 DEF TruncateJar
    <3>7. CASE WriteJar(p)     BY <2>1, <3>7 DEF WriteJar
    <3>8. CASE LoginDone(p)    BY <2>4, <3>8 DEF LoginDone
    <3>9. CASE V2Done(p)       BY <2>4, <3>9 DEF V2Done
    <3>10. CASE FleetDone(p)   BY <2>4, <3>10 DEF FleetDone
    <3>11. CASE Mark(p)        BY <2>4, <3>11 DEF Mark
    <3>12. QED
      BY <2>5, <3>1, <3>2, <3>3, <3>4, <3>5, <3>6, <3>7, <3>8, <3>9, <3>10, <3>11 DEF Runs
  <2>6. ASSUME NEW p \in Probers, RequestLost(p) PROVE Holds
    BY <2>1, <2>6 DEF RequestLost
  <2>7. ASSUME NEW p \in Probers, Kill(p) PROVE Holds
    BY <2>4, <2>7 DEF Kill
  <2>8. CASE Settles \/ LimiterForgives \/ SessionsDie
    BY <2>1, <2>8 DEF Settles, AuthComesUp, V2Settles, DeviceAppears, KeyIsPublished,
                      LimiterForgives, SessionsDie, local
  <2>9. QED BY <2>3, <2>5, <2>6, <2>7, <2>8 DEF Next
<1>2. QED BY <1>1, HealthTypes, MarkedWhenSaid, PTL DEF Spec, HealthyHolds

(* One prober that can write /tmp opens one session in a boot and one more  *)
(* for each fault, however often it polls and whatever the limiter says.    *)
THEOREM LoginsAreAccounted ==
    ASSUME NEW CONSTANT only, Probers = {only}, TmpWritable
    PROVE  Spec => []LoginsAccounted
<1>1. TypeOK /\ LoginInv => LoginsAccounted
  BY HealthAssumption DEF TypeOK, LoginInv, AccountedBy, LoginsAccounted
<1>2. QED BY <1>1, HealthTypes, LoginsHeld, PTL

\* Most steps of the gate are none of the latch: nothing was proven or said.
LEMMA LatchStutters ==
    ASSUME UNCHANGED <<marker, said, controller>>
    PROVE  UNCHANGED Latch!vars
BY DEF controller, Usable, Latch!vars

\* A run that ends without proof is a refusal: it had not said healthy.
LEMMA LatchRefuses ==
    ASSUME MarkInv, NEW p \in Probers, pc[p] # "idle", UNCHANGED <<marker, controller>>,
           Finish(p, "unhealthy")
    PROVE  Latch!Next
<1>1. said[p] # "healthy"
  BY DEF MarkInv, LatchedBy
<1>2. said' = [said EXCEPT ![p] = "unhealthy"]
  BY DEF Finish
<1>3. Usable' = Usable
  BY DEF Usable, controller
<1>4. Latch!Refuse(p)
  BY <1>1, <1>2, <1>3 DEF Latch!Refuse
<1>5. QED BY <1>4 DEF Latch!Next

\* A run that ends with proof proves the latch.
LEMMA LatchProves ==
    ASSUME NEW p \in Probers, Usable, marker' = TRUE, UNCHANGED controller,
           Finish(p, "healthy")
    PROVE  Latch!Next
<1>1. said' = [said EXCEPT ![p] = "healthy"]
  BY DEF Finish
<1>2. Usable' = Usable
  BY DEF Usable, controller
<1>3. Latch!Prove(p)
  BY <1>1, <1>2 DEF Latch!Prove
<1>4. QED BY <1>3 DEF Latch!Next

\* A step towards a usable console is the one that completes it, or none.
LEMMA LatchSettles ==
    ASSUME UNCHANGED <<marker, said>>, ~Usable
    PROVE  [Latch!Next]_(Latch!vars)
<1>1. CASE Usable'
  <2>1. Latch!BecomesUsable
    BY <1>1 DEF Latch!BecomesUsable
  <2>2. QED BY <2>1 DEF Latch!Next
<1>2. CASE ~Usable'
  BY <1>2 DEF Latch!vars, Usable
<1>3. QED BY <1>1, <1>2

(* The refinement, step by step: with informed probers and a writable /tmp  *)
(* the files, stages and sessions of the healthcheck do what ReadinessLatch *)
(* promises, under any interleaving, kill, lost request and restart.        *)
THEOREM GateImplementsLatch ==
    ASSUME Informed, TmpWritable PROVE Spec => ImplementsLatch
<1> USE HealthAssumption
<1>1. Init => Latch!Init
  BY DEF Init, Latch!Init, Latch!Silence, Usable
<1>2. TypeOK /\ EarnInv(Fleet) /\ MarkInv /\ [Next]_vars => [Latch!Next]_(Latch!vars)
  <2> SUFFICES ASSUME TypeOK, EarnInv(Fleet), MarkInv, [Next]_vars
               PROVE  [Latch!Next]_(Latch!vars)
    OBVIOUS
  <2> USE DEF files, local, controller, limiter, history
  <2>1. ASSUME NEW p \in Probers, CheckMarker(p) PROVE [Latch!Next]_(Latch!vars)
    <3>1. CASE marker
      <4>1. Usable /\ marker' = TRUE
        BY <2>1, <3>1, InformedEarn DEF CheckMarker
      <4>2. QED BY <2>1, <3>1, <4>1, LatchProves DEF CheckMarker
    <3>2. CASE ~marker
      BY <2>1, <3>2, LatchStutters DEF CheckMarker, Goto
    <3>3. QED BY <3>1, <3>2
  <2>2. ASSUME NEW p \in Probers, Runs(p) PROVE [Latch!Next]_(Latch!vars)
    <3> DEFINE Quiet == UNCHANGED <<marker, said, controller>>
               Ended == /\ pc[p] # "idle"
                        /\ UNCHANGED <<marker, controller>>
                        /\ Finish(p, "unhealthy")
    <3>1. CASE Mark(p)
      <4>1. Usable
        BY <3>1, InformedEarn DEF Mark
      <4>2. marker' = (marker \/ TmpWritable)
        BY <3>1 DEF Mark
      <4>3. marker' = TRUE
        BY <4>2, Zenon
      <4>4. QED BY <3>1, <4>1, <4>3, LatchProves DEF Mark
    <3>2. ASSUME ~Mark(p) PROVE Quiet \/ Ended
      <4> USE DEF Request, Goto, Answered
      <4>1. CASE CheckLogin(p)   BY <4>1 DEF CheckLogin
      <4>2. CASE KeyProbe(p)     BY <4>2 DEF KeyProbe
      <4>3. CASE LoadJar(p)      BY <4>3 DEF LoadJar
      <4>4. CASE LoginAnswer(p)  BY <4>4 DEF LoginAnswer
      <4>5. CASE PageAnswer(p)   BY <4>5 DEF PageAnswer
      <4>6. CASE TruncateJar(p)  BY <4>6 DEF TruncateJar
      <4>7. CASE WriteJar(p)     BY <4>7 DEF WriteJar
      <4>8. CASE LoginDone(p)    BY <4>8 DEF LoginDone
      <4>9. CASE V2Done(p)       BY <4>9 DEF V2Done
      <4>10. CASE FleetDone(p)   BY <4>10 DEF FleetDone
      <4>11. QED
        BY <2>2, <3>2, <4>1, <4>2, <4>3, <4>4, <4>5, <4>6, <4>7, <4>8, <4>9, <4>10 DEF Runs
    <3>3. Quiet => UNCHANGED Latch!vars
      BY LatchStutters
    <3>4. Ended => Latch!Next
      BY LatchRefuses
    <3>5. QED BY <3>1, <3>2, <3>3, <3>4
  <2>3. ASSUME NEW p \in Probers, RequestLost(p) PROVE [Latch!Next]_(Latch!vars)
    BY <2>3, LatchStutters DEF RequestLost
  <2>4. ASSUME NEW p \in Probers, Kill(p) PROVE [Latch!Next]_(Latch!vars)
    BY <2>4, LatchRefuses DEF Kill
  <2>5. CASE AuthComesUp
    <3>1. UNCHANGED <<marker, said>> /\ ~Usable
      BY <2>5 DEF AuthComesUp, Usable
    <3>2. QED BY <3>1, LatchSettles
  <2>6. CASE V2Settles
    <3>1. UNCHANGED <<marker, said>> /\ ~Usable
      BY <2>6 DEF V2Settles, Usable
    <3>2. QED BY <3>1, LatchSettles
  <2>7. CASE DeviceAppears
    <3>1. UNCHANGED <<marker, said>> /\ ~Usable
      BY <2>7 DEF DeviceAppears, Usable, TypeOK
    <3>2. QED BY <3>1, LatchSettles
  <2>8. CASE KeyIsPublished
    <3>1. UNCHANGED <<marker, said>> /\ ~Usable
      BY <2>8 DEF KeyIsPublished, Usable
    <3>2. QED BY <3>1, LatchSettles
  <2>9. CASE LimiterForgives
    BY <2>9, LatchStutters DEF LimiterForgives
  <2>10. CASE SessionsDie
    BY <2>10, LatchStutters DEF SessionsDie
  <2>11. CASE Restart
    <3>1. Usable' = FALSE
      BY <2>11 DEF Restart, Usable
    <3>2. marker' = FALSE /\ said' = [p \in Probers |-> "unknown"]
      BY <2>11 DEF Restart, ClearReadiness
    <3>3. Latch!Restart
      BY <3>1, <3>2 DEF Latch!Restart, Latch!Init, Latch!Silence
    <3>4. QED BY <3>3 DEF Latch!Next
  <2>12. CASE UNCHANGED vars
    BY <2>12, LatchStutters DEF vars
  <2>13. QED
    BY <2>1, <2>2, <2>3, <2>4, <2>5, <2>6, <2>7, <2>8, <2>9, <2>10, <2>11, <2>12
    DEF Next, Settles
<1>3. QED
  BY <1>1, <1>2, HealthTypes, InformedFromTheStart, MarkedWhenSaid, PTL
  DEF Spec, ImplementsLatch, Latch!Spec
=============================================================================
