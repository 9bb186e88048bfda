----------------------------- MODULE ReadyzGate -----------------------------
(***************************************************************************)
(* The `Gate` behind GET /readyz (unifi_runtime/readyz.py) and the handler *)
(* threads that ask it.                                                    *)
(*                                                                         *)
(* ThreadingHTTPServer runs every request on a thread of its own.  The     *)
(* gate lets one of them run the probe, no more often than Interval, and   *)
(* answers everyone else from the verdict it last stored.  A thread that   *)
(* loses the race for the lock reads the verdict WITHOUT the lock, so that *)
(* read is a step of its own: the probe in flight may end before it.       *)
(***************************************************************************)
EXTENDS Integers

CONSTANTS Callers,   \* the handler threads that may be alive together
          NoOne,     \* who holds a free lock
          Interval,  \* MIN_INTERVAL, in ticks of the monotonic clock
          MaxClock,  \* bound: the clock stops here
          Latched    \* TRUE: the probe is a marker_gate; FALSE: a live probe

ASSUME GateAssumption == /\ NoOne \notin Callers
                         /\ Interval \in Nat
                         /\ MaxClock \in Nat
                         /\ Latched \in BOOLEAN

\* `_last is None`
Never == -1

VARIABLES lock,     \* Gate._lock: the thread that holds it, or NoOne
          verdict,  \* Gate._verdict
          last,     \* Gate._last
          now,      \* what Gate._clock() returns
          proven,   \* whether the marker of a marker_gate is on disk
          at,       \* where each handler thread is in ready() and do_GET
          answer,   \* what ready() gave each thread
          probes,   \* history: how many probes were started
          told,     \* history: some caller has received a 200
          owed      \* history: the value of `told` when each request arrived

gateVars    == <<lock, verdict, last>>
gateHistory == <<probes, told, owed>>
readyzVars  == <<lock, verdict, last, now, proven, at, answer, probes, told, owed>>

Answers == {"none", "ready", "not_ready", "probe_error"}

AsAnswer(ready) == IF ready THEN "ready" ELSE "not_ready"

\* Mutant of Due: off by one.
DueEarly == last = Never \/ now - last >= Interval - 1

\* ready() may run the probe: it never did, or an interval ago.
Due == last = Never \/ now - last >= Interval

ReadyzInit == /\ lock = NoOne
              /\ verdict = FALSE
              /\ last = Never
              /\ now = 0
              /\ proven = FALSE
              /\ at = [t \in Callers |-> "idle"]
              /\ answer = [t \in Callers |-> "none"]
              /\ probes = 0
              /\ told = FALSE
              /\ owed = [t \in Callers |-> FALSE]

-----------------------------------------------------------------------------
(* One request, line by line of ready().                                   *)

\* A request for PATH reaches do_GET and calls gate.ready().
Arrive(t) == /\ at[t] = "idle"
             /\ at' = [at EXCEPT ![t] = "acquire"]
             /\ answer' = [answer EXCEPT ![t] = "none"]
             /\ owed' = [owed EXCEPT ![t] = told]
             /\ UNCHANGED <<gateVars, now, proven, probes, told>>

\* Mutant of Acquire: the lock is not asked for.
AcquireAnyway(t) == /\ at[t] = "acquire"
                    /\ lock' = t
                    /\ at' = [at EXCEPT ![t] = "decide"]
                    /\ UNCHANGED <<verdict, last, now, proven, answer, gateHistory>>

\* acquire(blocking=False) succeeds.
Acquire(t) == /\ at[t] = "acquire"
              /\ lock = NoOne
              /\ lock' = t
              /\ at' = [at EXCEPT ![t] = "decide"]
              /\ UNCHANGED <<verdict, last, now, proven, answer, gateHistory>>

\* Mutant of AcquireFails: acquire() blocks.
AcquireBlocks(t) == FALSE

\* acquire(blocking=False) fails: a probe is in flight, or about to be.
AcquireFails(t) == /\ at[t] = "acquire"
                   /\ lock # NoOne
                   /\ at' = [at EXCEPT ![t] = "cached"]
                   /\ UNCHANGED <<gateVars, now, proven, answer, gateHistory>>

\* The loser of the race returns self._verdict, holding nothing.
ReadCached(t) == /\ at[t] = "cached"
                 /\ answer' = [answer EXCEPT ![t] = AsAnswer(verdict)]
                 /\ at' = [at EXCEPT ![t] = "send"]
                 /\ UNCHANGED <<gateVars, now, proven, gateHistory>>

\* The holder reads the clock and finds the last probe too recent.
TooSoon(t) == /\ at[t] = "decide"
              /\ ~Due
              /\ answer' = [answer EXCEPT ![t] = AsAnswer(verdict)]
              /\ at' = [at EXCEPT ![t] = "release"]
              /\ UNCHANGED <<gateVars, now, proven, gateHistory>>

\* The holder reads the clock, stores it and calls the probe.
StartProbe(t) == /\ at[t] = "decide"
                 /\ Due
                 /\ last' = now
                 /\ probes' = probes + 1
                 /\ at' = [at EXCEPT ![t] = "marker"]
                 /\ UNCHANGED <<lock, verdict, now, proven, answer, told, owed>>

\* marker_gate looks for its marker before it runs the probe, and never again:
\* with a marker the answer is True at once.  A live probe has no marker.
TestMarker(t) ==
    /\ at[t] = "marker"
    /\ \/ /\ Latched /\ proven
          /\ verdict' = TRUE
          /\ answer' = [answer EXCEPT ![t] = "ready"]
          /\ at' = [at EXCEPT ![t] = "release"]
       \/ /\ ~(Latched /\ proven)
          /\ at' = [at EXCEPT ![t] = "probing"]
          /\ UNCHANGED <<verdict, answer>>
    /\ UNCHANGED <<lock, last, now, proven, gateHistory>>

\* Mutant of ProbeReturns: the verdict is answered and not stored.
ReturnsUnstored(t, ready) ==
    /\ at[t] = "probing"
    /\ proven' = (proven \/ (Latched /\ ready))
    /\ answer' = [answer EXCEPT ![t] = AsAnswer(ready)]
    /\ at' = [at EXCEPT ![t] = "release"]
    /\ UNCHANGED <<gateVars, now, gateHistory>>

\* The probe returns, whatever became of the marker while it ran.  A marker_gate
\* whose probe succeeds leaves its marker (with a writable /tmp).
ProbeReturns(t, ready) ==
    /\ at[t] = "probing"
    /\ proven' = (proven \/ (Latched /\ ready))
    /\ verdict' = ready
    /\ answer' = [answer EXCEPT ![t] = AsAnswer(ready)]
    /\ at' = [at EXCEPT ![t] = "release"]
    /\ UNCHANGED <<lock, last, now, gateHistory>>

\* Mutant of ProbeRaises: the release is not in a `finally`.
RaisesHolding(t) == /\ at[t] = "probing"
                    /\ answer' = [answer EXCEPT ![t] = "probe_error"]
                    /\ at' = [at EXCEPT ![t] = "send"]
                    /\ UNCHANGED <<gateVars, now, proven, gateHistory>>

\* The probe raises: the stored verdict stays, the `finally` still runs, and
\* do_GET answers 500.
ProbeRaises(t) == /\ at[t] = "probing"
                  /\ answer' = [answer EXCEPT ![t] = "probe_error"]
                  /\ at' = [at EXCEPT ![t] = "release"]
                  /\ UNCHANGED <<gateVars, now, proven, gateHistory>>

\* `finally: self._lock.release()`
Release(t) == /\ at[t] = "release"
              /\ lock' = NoOne
              /\ at' = [at EXCEPT ![t] = "send"]
              /\ UNCHANGED <<verdict, last, now, proven, answer, gateHistory>>

\* do_GET writes the response.
Send(t) == /\ at[t] = "send"
           /\ at' = [at EXCEPT ![t] = "idle"]
           /\ told' = (told \/ answer[t] = "ready")
           /\ UNCHANGED <<gateVars, now, proven, answer, probes, owed>>

-----------------------------------------------------------------------------
(* What happens around the gate.                                           *)

\* The container's own healthcheck process proves readiness first: the marker
\* is a file, shared with every other prober.
HealthcheckProves == /\ Latched
                     /\ ~proven
                     /\ proven' = TRUE
                     /\ UNCHANGED <<gateVars, now, at, answer, gateHistory>>

\* time.monotonic() moves on.
Tick == /\ now < MaxClock
        /\ now' = now + 1
        /\ UNCHANGED <<gateVars, proven, at, answer, gateHistory>>

ProbeEnds(t) == \/ \E ready \in BOOLEAN : ProbeReturns(t, ready)
                \/ ProbeRaises(t)

\* What a thread that was asked a question does by itself.
Serves(t) == \/ Acquire(t)
             \/ AcquireFails(t)
             \/ ReadCached(t)
             \/ TooSoon(t)
             \/ StartProbe(t)
             \/ TestMarker(t)
             \/ Release(t)
             \/ Send(t)

ReadyzNext == \/ \E t \in Callers : Arrive(t) \/ Serves(t) \/ ProbeEnds(t)
              \/ HealthcheckProves
              \/ Tick

ReadyzSpec == ReadyzInit /\ [][ReadyzNext]_readyzVars

\* Threads are scheduled; nothing is assumed of the probe.
FairThreads == ReadyzSpec /\ \A t \in Callers : WF_readyzVars(Serves(t))

\* A probe ends: it is a bounded number of requests, each with a timeout.
ProbesEnd == \A t \in Callers : WF_readyzVars(ProbeEnds(t))

-----------------------------------------------------------------------------
(* Properties.                                                             *)

ReadyzTypeOK == /\ lock \in Callers \cup {NoOne}
                /\ verdict \in BOOLEAN
                /\ last \in Nat \cup {Never}
                /\ now \in Nat
                /\ proven \in BOOLEAN
                /\ at \in [Callers -> {"idle", "acquire", "cached", "decide",
                                       "marker", "probing", "release", "send"}]
                /\ answer \in [Callers -> Answers]
                /\ probes \in Nat
                /\ told \in BOOLEAN
                /\ owed \in [Callers -> BOOLEAN]

(* "Runs `probe` one at a time": overlapping requests are never overlapping *)
(* probes, which is what keeps N callers from being N logins.               *)
OneProbe == \A s, t \in Callers :
                at[s] = "probing" /\ at[t] = "probing" => s = t

(* "No more often than `interval`": whatever the number of callers and      *)
(* however they poll, n probes need (n - 1) intervals of clock, whether the *)
(* earlier ones returned, raised or are still running.                      *)
ProbeBudget == probes > 0 => (probes - 1) * Interval <= now

(* With a marker-gated probe readiness never goes back: once any caller has *)
(* received a 200, no request that arrives later is answered 503, not even  *)
(* one that reads the verdict without the lock.                             *)
NoRegress == Latched => \A t \in Callers :
                 at[t] = "send" /\ owed[t] => answer[t] # "not_ready"

(* A request that does not run the probe itself is answered although the    *)
(* probe of another one may never return: losing the lock never blocks.     *)
OnlyTheProberWaits == \A t \in Callers :
                          at[t] # "idle" ~> at[t] \in {"idle", "probing"}

(* Where probes end the lock always comes back, after a probe that raised   *)
(* too; an endpoint that lost it would answer its last verdict for the      *)
(* container's life.                                                        *)
LockComesBack == ProbesEnd => (lock # NoOne ~> lock = NoOne)
=============================================================================
