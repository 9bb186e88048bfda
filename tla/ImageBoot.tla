------------------------------ MODULE ImageBoot ------------------------------
(***************************************************************************)
(* What the two entrypoints do between the container's start and the       *)
(* controller's: the controller's settings file, the systemd units and     *)
(* their environment files, and the init hooks of derived images           *)
(* (unifi_runtime/entrypoint: network.py, uos.py, demo.py).                *)
(*                                                                         *)
(* The container may stop at any step.  Restarted, it keeps its own layer  *)
(* and loses what is on tmpfs; recreated, it starts from the image, with   *)
(* another environment, on the same volume.                                *)
(***************************************************************************)
EXTENDS SysProps, FiniteSets

CONSTANTS Images,      \* [base, sim, built]: the entrypoint, whether it has the
                       \* demo-mode hook, the units its Dockerfile enables
          Containers,  \* [on, given]: the unit flags that are on, and what is
                       \* given for the settings of each unit
          HandFiles,   \* what an operator may leave in system.properties
          Garbles,     \* the entrypoints on whose volume that may be garbled
          MaxStops,    \* bound: stops in the middle of a boot
          MaxFails,    \* bound: hooks, ip commands and rounds of systemctl that fail
          MaxEdits     \* bound: the operator's and the controller's changes

Units    == {"direct", "seed", "readyz"}   \* UNIT_FLAGS
WithFile == {"seed", "readyz"}             \* the units that have an EnvironmentFile
\* The sim variant's hook, a derived image's and an editor's backup of that, in
\* name order.
Order    == [demo |-> 1, site |-> 2, backup |-> 3]
Hooks    == DOMAIN Order
Keys     == {"port", "is_simulation", "mine"}
Texts    == Seq(STRING)     \* a value, character by character where quoting is undone
Default  == <<"default">>

ASSUME BootAssumption ==
    /\ \A i \in Images :
          i.base \in {"network", "uos"} /\ i.sim \in BOOLEAN /\ i.built \subseteq Units
    /\ \A c \in Containers : c.on \subseteq Units /\ c.given \in [WithFile -> Texts]
    /\ HandFiles \subseteq Seq(Lines)
    /\ Garbles \subseteq {"network", "uos"}
    /\ MaxStops \in Nat /\ MaxFails \in Nat /\ MaxEdits \in Nat

\* What the provers are not told of a literal.
ASSUME TextAssumption ==
    {"port", "8443", "is_simulation", "true", "mine", "changed",
     "default", "'", "\\"} \subseteq STRING

VARIABLES image, env,
          pc,        \* where the entrypoint is; "off": the container is down
          queue,     \* the hooks this pass has still to run, in name order
          pass,      \* which run-parts pass it is
          failed,    \* the last pass had a hook that failed
          text,      \* system.properties, on the volume
          read,      \* what write_system_properties or the hook has read of it
          enabled,   \* the units with a .wants symlink, in the container's layer
          envfile,   \* the value in the EnvironmentFiles, on tmpfs, as it is written
          eth0,      \* the alias of tap0, in the container's network namespace
          done,      \* history: the hooks that have succeeded in this boot
          ran,       \* history: the hooks this boot has started
          said,      \* history: what each key was given, by whom it was given last
          unswitched, \* history: the units whose systemctl failed in this boot
          stops, fails, edits \* history: bounded by the constants

who     == <<image, env>>
hooks   == <<queue, pass, failed, done, ran>>
file    == <<text, read, said>>
units   == <<enabled, envfile, eth0, unswitched>>
history == <<stops, fails, edits>>
vars    == <<who, pc, hooks, file, units, history>>

NotSaid == <<>>
NoLine  == <<>>   \* no file, or none for this setting: a value that is written is quoted

Of(k, ls) == IF Has(ls, k) THEN Value(ls, k) ELSE NotSaid
Told(ls)  == [k \in Keys |-> Of(k, ls)]

Init == /\ image \in Images /\ env \in Containers
        /\ pc = "off"
        /\ queue = {} /\ pass = 0 /\ failed = FALSE /\ done = {} /\ ran = {}
        /\ text = <<>> /\ read = <<>> /\ said = [k \in Keys |-> NotSaid]
        /\ enabled = image.built
        /\ envfile = [u \in WithFile |-> NoLine]
        /\ eth0 = "none" /\ unswitched = {}
        /\ stops = 0 /\ fails = 0 /\ edits = 0

Goto(from, to) == pc = from /\ pc' = to

Fail == fails < MaxFails /\ fails' = fails + 1

-----------------------------------------------------------------------------
(* The settings file.                                                      *)

Ports    == <<<<"port", "8443">>>>           \* SYSPROPS_DEFAULTS
DemoKeys == <<<<"is_simulation", "true">>>>  \* demo_settings

\* Both read the file; one that is not there reads as empty.
Read == read' = text

\* write_system_properties, on the network image, after the vendor's own step:
\* what does not parse raises here, before the file is opened.
ReadProperties ==
    /\ pc = "props"
    /\ Read
    /\ pc' = IF Raises(text) THEN "dead"
             ELSE IF Merge(text, Ports, TRUE) = text THEN "plan_hooks" ELSE "props_open"
    /\ UNCHANGED <<who, hooks, text, said, units, history>>

\* open(path, "w") empties it ...
OpenProperties == /\ Goto("props_open", "props_write")
                  /\ text' = <<>>
                  /\ UNCHANGED <<who, hooks, read, said, units, history>>

\* ... and the write fills it.
WriteProperties == /\ Goto("props_write", "plan_hooks")
                   /\ text' = Merge(read, Ports, TRUE)
                   /\ UNCHANGED <<who, hooks, read, said, units, history>>

-----------------------------------------------------------------------------
(* The init hooks.  network.run_hooks takes the names run-parts would take *)
(* and stops at the first failure; uos.run_init_hooks lets run-parts run   *)
(* them all and, when one failed, all the files there are.                 *)

Installed(h) == h # "demo" \/ image.sim
Named     == Hooks \ {"backup"}
Due(S)    == {h \in S : Installed(h)}
Turn(h)   == h \in queue /\ \A g \in queue : Order[h] <= Order[g]

PlanHooks == /\ Goto("plan_hooks", "hooks")
             /\ queue' = Due(Named)
             /\ pass' = 1 /\ failed' = FALSE
             /\ UNCHANGED <<who, done, ran, file, units, history>>

\* The status of a hook, and where that leaves the boot.
HookEnds(h, ok) ==
    /\ done' = IF ok THEN done \cup {h} ELSE done \ {h}
    /\ ran' = ran \cup {h}
    /\ queue' = queue \ {h}
    /\ failed' = (failed \/ ~ok)
    /\ pc' = IF ~ok /\ image.base = "network" THEN "dead" ELSE "hooks"
    /\ UNCHANGED pass

\* A derived image's own hook, which may fail.
RunHook(h) == /\ pc = "hooks" /\ Turn(h) /\ h # "demo"
              /\ \/ HookEnds(h, TRUE) /\ UNCHANGED fails
                 \/ HookEnds(h, FALSE) /\ Fail
              /\ UNCHANGED <<who, file, units, stops, edits>>

\* demo.apply reads the file ...
DemoReads == /\ pc = "hooks" /\ Turn("demo")
             /\ pc' = "demo_open"
             /\ Read
             /\ UNCHANGED <<who, hooks, text, said, units, history>>

\* ... opens it, which empties it ...
DemoOpens == /\ Goto("demo_open", "demo_write")
             /\ text' = <<>>
             /\ UNCHANGED <<who, hooks, read, said, units, history>>

\* ... and merges; what does not parse raises with the file open.
DemoWrites == /\ pc = "demo_write"
              /\ IF Raises(read)
                 THEN HookEnds("demo", FALSE) /\ UNCHANGED text
                 ELSE HookEnds("demo", TRUE) /\ text' = Merge(read, DemoKeys, TRUE)
              /\ UNCHANGED <<who, read, said, units, history>>

\* Mutant of SecondPassStops: its status is not looked at.
NeverStops == FALSE

\* rc != 0: "a failing hook aborts the boot deliberately"
SecondPassStops == failed

HooksEnd ==
    /\ pc = "hooks" /\ queue = {}
    /\ IF pass = 1 /\ failed
       THEN /\ pass' = 2 /\ failed' = FALSE
            /\ queue' = Due(Hooks)
            /\ UNCHANGED pc
       ELSE /\ pc' = IF pass = 2 /\ SecondPassStops THEN "dead" ELSE "app"
            /\ UNCHANGED <<queue, pass, failed>>
    /\ UNCHANGED <<who, done, ran, file, units, history>>

-----------------------------------------------------------------------------
(* UniFi OS: eth0, the units and what they are told.                       *)

\* ensure_eth0_alias: an eth0 that is there already, or no tap0 to alias, is as good
\* as "up"; one command that fails ends the boot.
EnsureEth0 == /\ pc = "eth0"
              /\ \/ pc' = "envfiles" /\ eth0' = "up" /\ UNCHANGED fails
                 \/ pc' = "dead" /\ eth0' \in {"none", "down"} /\ Fail
              /\ UNCHANGED <<who, hooks, file, enabled, envfile, unswitched, stops, edits>>

\* env.setting: an empty value counts as none.
Setting(v) == IF v = <<>> THEN Default ELSE v

\* "A value containing one is closed out and re-opened, the way a shell does it."
InQuotes(c) == IF c = "'" THEN <<"'", "\\", "'", "'">> ELSE <<c>>

\* Mutant of Quote: a quote in the value ends it.
QuoteAround(v) == <<"'">> \o v \o <<"'">>

Quote(v) == <<"'">> \o FlattenSeq([i \in DOMAIN v |-> InQuotes(v[i])]) \o <<"'">>

\* seed_owner_env resolves what is not given, readyz_env leaves it out.
FileOf(u) == IF u = "readyz" /\ env.given[u] = <<>> THEN NoLine
             ELSE Quote(Setting(env.given[u]))

\* write_seed_owner_env and write_readyz_env, each if its unit's flag is on
WriteEnvFiles == /\ Goto("envfiles", "units")
                 /\ envfile' = [u \in WithFile |-> IF u \in env.on THEN FileOf(u) ELSE envfile[u]]
                 /\ UNCHANGED <<who, hooks, file, enabled, eth0, unswitched, history>>

\* enable_units: systemctl makes each unit match its flag.  Its status is not looked
\* at, and a link that it did not change stays as it was.
EnableUnits == /\ Goto("units", "plan_hooks")
               /\ \/ unswitched' = {} /\ UNCHANGED fails
                  \/ unswitched' \in SUBSET Units \ {{}} /\ Fail
               /\ enabled' = (enabled \cap unswitched') \cup (env.on \ unswitched')
               /\ UNCHANGED <<who, hooks, file, envfile, eth0, stops, edits>>

-----------------------------------------------------------------------------
(* systemd's reader of an EnvironmentFile, as _quote and its test take it  *)
(* to be: a shell's, which a quote, a backslash and a blank mean something *)
(* to.                                                                     *)

\* One character, in a state: "bare", "quoted", "escape" after a backslash, or
\* "next" once a blank has ended the value.
ReadChar(s, c) ==
    LET takes == [mode |-> IF s.mode = "quoted" THEN "quoted" ELSE "bare",
                  got |-> Append(s.got, c)]
        is(m) == [mode |-> m, got |-> s.got]
    IN CASE s.mode = "bare" /\ c = "'"   -> is("quoted")
         [] s.mode = "bare" /\ c = "\\"  -> is("escape")
         [] s.mode = "bare" /\ c = " "   -> is("next")
         [] s.mode = "quoted" /\ c = "'" -> is("bare")
         [] s.mode = "next"              -> s
         [] OTHER                        -> takes

Reading(t) ==
    LET after[i \in 0..Len(t)] == IF i = 0 THEN [mode |-> "bare", got |-> <<>>]
                                  ELSE ReadChar(after[i-1], t[i])
    IN after

Unquote(t) == Reading(t)[Len(t)].got

\* A unit that finds no value has its module's own default.
UnitReads(u) == IF envfile[u] = NoLine THEN Default ELSE Unquote(envfile[u])

-----------------------------------------------------------------------------
(* The container, the controller and the operator.                         *)

First == IF image.base = "network" THEN "props" ELSE "eth0"

Boot == /\ Goto("off", First)
        /\ done' = {} /\ ran' = {}
        /\ UNCHANGED <<who, queue, pass, failed, file, units, history>>

\* What is on tmpfs and in the network namespace goes.  A stop while the file
\* is open takes its content with it, as the code stands.
Down == /\ pc' = "off"
        /\ envfile' = [u \in WithFile |-> NoLine]
        /\ eth0' = "none" /\ unswitched' = {}
        /\ said' = IF pc \in {"props_write", "demo_write"} THEN Told(<<>>) ELSE said
        /\ queue' = {} /\ pass' = 0 /\ failed' = FALSE /\ read' = <<>>
        /\ UNCHANGED <<text, done, ran>>

Restart == /\ pc # "off"
           /\ IF pc \in {"app", "dead"} THEN UNCHANGED stops
              ELSE stops < MaxStops /\ stops' = stops + 1
           /\ Down
           /\ UNCHANGED <<who, enabled, fails, edits>>

\* docker rm, and docker run with another environment on the same volume
Recreate(c) == /\ pc \in {"app", "dead"}
               /\ Down
               /\ env' = c
               /\ enabled' = image.built
               /\ UNCHANGED <<image, history>>

Change == edits < MaxEdits /\ edits' = edits + 1

\* The controller sets a key and stores the file: one plain line for each key.
AppStores(k) ==
    /\ pc = "app" /\ Change /\ ~Raises(text)
    /\ LET now  == [Told(text) EXCEPT ![k] = <<"changed">>]
           line(q) == IF now[q] = NotSaid THEN <<>>
                      ELSE <<Line("entry", q, now[q], FALSE, TRUE)>>
       IN text' = line("port") \o line("is_simulation") \o line("mine")
    /\ said' = Told(text')
    /\ UNCHANGED <<who, pc, hooks, read, units, stops, fails>>

\* With the container down, somebody edits the file on the volume.
Edit(ls) == /\ pc = "off" /\ Change
            /\ Raises(ls) => image.base \in Garbles
            /\ text' = ls
            /\ said' = Told(ls)
            /\ UNCHANGED <<who, pc, hooks, read, units, stops, fails>>

Network == ReadProperties \/ OpenProperties \/ WriteProperties
UniFiOs == EnsureEth0 \/ WriteEnvFiles \/ EnableUnits
RunHooks == \/ PlanHooks \/ HooksEnd
            \/ \E h \in Hooks : RunHook(h)
            \/ DemoReads \/ DemoOpens \/ DemoWrites

Next == \/ Network \/ UniFiOs \/ RunHooks
        \/ Boot \/ Restart \/ \E c \in Containers : Recreate(c)
        \/ \E k \in Keys : AppStores(k)
        \/ \E ls \in HandFiles : Edit(ls)

Spec == Init /\ [][Next]_vars

-----------------------------------------------------------------------------
(* What holds.                                                             *)

TypeOK ==
    /\ image \in Images /\ env \in Containers
    /\ pc \in {"off", "props", "props_open", "props_write", "eth0", "envfiles", "units",
               "plan_hooks", "hooks", "demo_open", "demo_write", "app", "dead"}
    /\ pass \in 0..2 /\ failed \in BOOLEAN
    /\ queue \subseteq Hooks /\ done \subseteq Hooks /\ ran \subseteq Hooks
    /\ enabled \subseteq Units /\ unswitched \subseteq Units
    /\ envfile \in [WithFile -> Texts]
    /\ eth0 \in {"none", "down", "up"}
    /\ stops \in 0..MaxStops /\ fails \in 0..MaxFails /\ edits \in 0..MaxEdits

\* "Written only when absent, so the application and a seeded volume both keep the
\* last word": whatever the file looks like and however often the boot was cut
\* short elsewhere, a key still reads as whoever set it last left it, and the
\* controller starts with every default it needs (network.py:53, demo.py:29).
LastWordStands ==
    /\ pc \notin {"props_write", "demo_write"} =>
          \A k \in Keys : said[k] # NotSaid => Of(k, text) = said[k]
    /\ pc = "app" => /\ image.base = "network" => Has(text, "port")
                     /\ image.sim => Has(text, "is_simulation")

\* When systemd takes over, every unit whose systemctl did not fail runs if and only
\* if this container's flag says so, whatever the image or an earlier boot enabled;
\* and one that is asked for and runs reads, character for character, what the
\* healthcheck reads from the container's environment (uos.py:226, 273).
UnitsMatchTheEnvironment ==
    pc = "app" /\ image.base = "uos" =>
        /\ \A u \in Units \ unswitched : u \in enabled <=> u \in env.on
        /\ \A u \in enabled \cap env.on \cap WithFile : UnitReads(u) = Setting(env.given[u])
        /\ eth0 = "up"

\* The controller starts only after every hook of the image has succeeded in this
\* boot, and a leftover of an editor never runs on the network image
\* (network.py:223, uos.py:350).
HooksComeFirst ==
    /\ pc = "app" => Due(Named) \subseteq done
    /\ image.base = "network" => "backup" \notin ran
=============================================================================
