------------------------------ MODULE SeedOwner ------------------------------
(***************************************************************************)
(* The headless owner seed of the unifi-os-server:seeded image             *)
(* (unifi_runtime/seed/uos_owner.py): a oneshot unit that runs once in a   *)
(* boot, completes the first-run setup and publishes an API key at a path  *)
(* on the volume.                                                          *)
(*                                                                         *)
(* The console keeps the owner and every key it minted on the same volume, *)
(* so a boot that dies between two steps leaves what it did for the next.  *)
(* Every request may be answered, refused for now (it is still starting,   *)
(* or limits logins) or lost, before or after the console acted on it.     *)
(***************************************************************************)
EXTENDS Integers, FiniteSets

CONSTANTS Keys,          \* the values the console may mint
          NoKey,         \* an absent key file
          SeedApiKey,    \* UOS_SEED_API_KEY
          ApiAttempts,   \* API_WAIT_ATTEMPTS
          SetupAttempts, \* SETUP_ATTEMPTS
          CheckAttempts, \* KEY_CHECK_ATTEMPTS
          OwnerAttempts, \* OWNER_WAIT_ATTEMPTS
          MaxBoots,      \* bound: restarts of the container
          MaxRevoked,    \* bound: keys an operator revokes
          MaxMisreads    \* bound: key files that are there and cannot be read

ASSUME SeedAssumption ==
    /\ NoKey \notin Keys
    /\ SeedApiKey \in BOOLEAN
    /\ ApiAttempts \in Nat \ {0} /\ SetupAttempts \in Nat \ {0}
    /\ CheckAttempts \in Nat \ {0} /\ OwnerAttempts \in Nat \ {0}
    /\ MaxBoots \in Nat /\ MaxRevoked \in Nat /\ MaxMisreads \in Nat

VARIABLES pc,      \* where the seed process is, "off" before its unit starts
          tries,   \* the attempts the loop it is in has used
          key,     \* the key it holds: read from the file, or just minted
          up,      \* the console answers
          owner,   \* the console has an owner: setup is complete
          ulpSees, \* ULP reports that owner's id
          minted,  \* every key the console minted
          revoked, \* those an operator revoked
          keyFile, \* what is at UOS_API_KEY_FILE
          tmpFile, \* what is at the path publish_key writes first
          boots,   \* history: restarts so far
          proven,  \* history: keys seen to authenticate
          leaks,   \* history: runs that ended between minting and publishing
          misreads,\* history: key files that were there and could not be read
          blind    \* history: this run's reading was one of those

seed    == <<pc, tries, key>>
console == <<up, owner, ulpSees, minted, revoked>>
volume  == <<keyFile, tmpFile>>
misread == <<misreads, blind>>
history == <<boots, proven, leaks, misread>>
vars    == <<seed, console, volume, history>>

Valid == minted \ revoked

Init == /\ pc = "off"
        /\ tries = 0
        /\ key = NoKey
        /\ up = FALSE
        /\ owner = FALSE
        /\ ulpSees = FALSE
        /\ minted = {}
        /\ revoked = {}
        /\ keyFile = NoKey
        /\ tmpFile = NoKey
        /\ boots = 0
        /\ proven = {}
        /\ leaks = 0
        /\ misreads = 0
        /\ blind = FALSE

-----------------------------------------------------------------------------
(* run(): wait for the API, ensure the owner, ensure the key.              *)

\* The step at `from` ends and the one at `to` begins, its loop at attempt 0.
Goto(from, to) == pc = from /\ pc' = to /\ tries' = 0

\* Mutant of Retry: attempts are never used up.
RetryForever(from, limit, to) == pc = from /\ pc' = from /\ tries' = tries

\* An attempt of the loop at `from` gives nothing: try again, or end up at `to`.
Retry(from, limit, to) == /\ pc = from
                          /\ IF tries + 1 < limit
                             THEN pc' = from /\ tries' = tries + 1
                             ELSE pc' = to /\ tries' = 0

StartUnit == /\ Goto("off", "wait_api")
             /\ UNCHANGED <<key, console, volume, history>>

\* wait_for_api; run() goes on whether or not the API ever answered.
WaitForApi == /\ IF up THEN Goto("wait_api", "login")
                 ELSE Retry("wait_api", ApiAttempts, "login")
              /\ UNCHANGED <<key, console, volume, history>>

\* The owner is there; the key is next, if one is wanted at all.
OwnerEnsured == pc' = (IF SeedApiKey THEN "read_key" ELSE "done") /\ tries' = 0

\* ensure_owner's login: a 200 is proof; a 429 or a 0 is not proof of absence.
LoginProves == /\ pc = "login"
               /\ up /\ owner
               /\ OwnerEnsured
               /\ UNCHANGED <<key, console, volume, history>>

LoginProvesNothing == /\ Goto("login", "ulp")
                      /\ UNCHANGED <<key, console, volume, history>>

\* ULP is the tiebreaker; it may not answer either.
UlpSaysSetup == /\ pc = "ulp"
                /\ up /\ owner
                /\ OwnerEnsured
                /\ UNCHANGED <<key, console, volume, history>>

UlpSaysNothing == /\ Goto("ulp", "setup")
                  /\ UNCHANGED <<key, console, volume, history>>

\* /api/setup creates the owner and answers 200.
SetupCreates == /\ pc = "setup"
                /\ up /\ ~owner
                /\ owner' = TRUE
                /\ pc' = "setup_login"
                /\ UNCHANGED <<tries, key, up, ulpSees, minted, revoked, volume, history>>

\* The login after a 200 succeeds; or it is refused, and setup is tried again.
SetupLoginOk == /\ pc = "setup_login"
                /\ OwnerEnsured
                /\ UNCHANGED <<key, console, volume, history>>

SetupLoginRefused == /\ pc = "setup_login"
                     /\ IF tries + 1 < SetupAttempts
                        THEN pc' = "setup" /\ tries' = tries + 1
                        ELSE pc' = "failed" /\ tries' = 0
                     /\ UNCHANGED <<key, console, volume, history>>

\* "Device is already setup" is a success signal.
SetupAlreadyDone == /\ pc = "setup"
                    /\ up /\ owner
                    /\ OwnerEnsured
                    /\ UNCHANGED <<key, console, volume, history>>

\* No answer, or an error while the Network App comes up.  The console may
\* have created the owner all the same.
SetupFails == /\ Retry("setup", SetupAttempts, "failed")
              /\ owner' \in {owner, owner \/ up}
              /\ UNCHANGED <<key, up, ulpSees, minted, revoked, volume, history>>

-----------------------------------------------------------------------------
(* ensure_api_key.                                                         *)

\* Mutant of ReadKey: every boot mints.
ReadNothing == /\ Goto("read_key", "owner_id")
               /\ UNCHANGED <<key, console, volume, history>>

\* _read_key, to which any OSError is an absent key: a key that is there and
\* cannot be read is about to be replaced, unasked.
ReadKey == \/ /\ Goto("read_key", IF keyFile = NoKey THEN "owner_id" ELSE "check_old")
              /\ key' = keyFile
              /\ UNCHANGED <<console, volume, history>>
           \/ /\ Goto("read_key", "owner_id")
              /\ keyFile # NoKey
              /\ misreads < MaxMisreads
              /\ misreads' = misreads + 1
              /\ blind' = TRUE
              /\ UNCHANGED <<key, console, volume, boots, proven, leaks>>

\* key_check: the console accepts the key.
KeyAccepted == /\ pc \in {"check_old", "check_new"}
               /\ up /\ key \in Valid
               /\ proven' = proven \cup {key}
               /\ pc' = IF pc = "check_old" THEN "done" ELSE "write_tmp"
               /\ tries' = 0
               /\ UNCHANGED <<key, console, volume, boots, leaks, misread>>

\* key_check: a clear 401/403.  An old key is replaced, a new one is useless.
KeyRejected == /\ pc \in {"check_old", "check_new"}
               /\ up /\ key \notin Valid
               /\ pc' = IF pc = "check_old" THEN "owner_id" ELSE "failed"
               /\ tries' = 0
               /\ leaks' = IF pc = "check_new" THEN leaks + 1 ELSE leaks
               /\ UNCHANGED <<key, console, volume, boots, proven, misread>>

\* Mutants of KeyUnanswered: no verdict on the old key reads as a rejection, no
\* verdict on the new one as acceptance.
SilenceRejects == /\ \/ Retry("check_old", CheckAttempts, "owner_id")
                     \/ Retry("check_new", CheckAttempts, "failed")
                  /\ UNCHANGED <<key, console, volume, history>>
SilenceAccepts == /\ \/ Retry("check_old", CheckAttempts, "failed")
                     \/ Retry("check_new", CheckAttempts, "write_tmp")
                  /\ UNCHANGED <<key, console, volume, history>>

\* key_check: neither, which is no verdict after the last attempt.
KeyUnanswered == /\ \/ Retry("check_old", CheckAttempts, "failed")
                    \/ Retry("check_new", CheckAttempts, "failed")
                 /\ leaks' = IF pc = "check_new" /\ pc' = "failed" THEN leaks + 1 ELSE leaks
                 /\ UNCHANGED <<key, console, volume, boots, proven, misread>>

\* wait_for_owner_id
OwnerId == /\ IF up /\ ulpSees THEN Goto("owner_id", "mint")
              ELSE Retry("owner_id", OwnerAttempts, "failed")
           /\ UNCHANGED <<key, console, volume, history>>

\* ULP mints a key; the answer brings it, or is lost with it.
Mint == /\ up
        /\ \E k \in Keys \ minted :
               /\ minted' = minted \cup {k}
               /\ \/ Goto("mint", "check_new") /\ key' = k /\ UNCHANGED leaks
                  \/ Goto("mint", "failed") /\ leaks' = leaks + 1 /\ UNCHANGED key
        /\ UNCHANGED <<up, owner, ulpSees, revoked, volume, boots, proven, misread>>

MintRefused == /\ Goto("mint", "failed")
               /\ UNCHANGED <<key, console, volume, history>>

\* publish_key: the key goes to a file of its own and is then moved in place.
WriteTmp == /\ Goto("write_tmp", "replace")
            /\ tmpFile' = key
            /\ UNCHANGED <<key, console, keyFile, history>>

Replace == /\ Goto("replace", "done")
           /\ keyFile' = tmpFile
           /\ tmpFile' = NoKey
           /\ UNCHANGED <<key, console, history>>

\* Mutant of PublishFails: the OSError is swallowed.
PublishSwallowed == /\ \/ Goto("write_tmp", "done")
                       \/ Goto("replace", "done")
                    /\ tmpFile' = NoKey
                    /\ UNCHANGED <<key, console, keyFile, history>>

\* An OSError on the way: the file it wrote is removed.
PublishFails == /\ \/ Goto("write_tmp", "failed")
                   \/ Goto("replace", "failed")
                /\ tmpFile' = NoKey
                /\ leaks' = leaks + 1
                /\ UNCHANGED <<key, console, keyFile, boots, proven, misread>>

-----------------------------------------------------------------------------
(* The console, its operator and the container.                            *)

ConsoleUp == /\ ~up
             /\ up' = TRUE
             /\ UNCHANGED <<seed, owner, ulpSees, minted, revoked, volume, history>>

\* ULP lags /api/setup.
UlpCatchesUp == /\ owner /\ ~ulpSees
                /\ ulpSees' = TRUE
                /\ UNCHANGED <<seed, up, owner, minted, revoked, volume, history>>

Revoke == /\ Cardinality(revoked) < MaxRevoked
          /\ \E k \in Valid : revoked' = revoked \cup {k}
          /\ UNCHANGED <<seed, up, owner, ulpSees, minted, volume, history>>

\* The container stops between any two steps and starts again.
Restart == /\ boots < MaxBoots
           /\ boots' = boots + 1
           /\ pc' = "off"
           /\ tries' = 0
           /\ key' = NoKey
           /\ up' = FALSE
           /\ leaks' = IF pc \in {"check_new", "write_tmp", "replace"}
                       THEN leaks + 1 ELSE leaks
           /\ blind' = FALSE
           /\ UNCHANGED <<owner, ulpSees, minted, revoked, volume, proven, misreads>>

Seed == \/ StartUnit \/ WaitForApi
        \/ LoginProves \/ LoginProvesNothing
        \/ UlpSaysSetup \/ UlpSaysNothing
        \/ SetupCreates \/ SetupLoginOk \/ SetupLoginRefused
        \/ SetupAlreadyDone \/ SetupFails
        \/ ReadKey \/ KeyAccepted \/ KeyRejected \/ KeyUnanswered
        \/ OwnerId \/ Mint \/ MintRefused
        \/ WriteTmp \/ Replace \/ PublishFails

Next == Seed \/ ConsoleUp \/ UlpCatchesUp \/ Revoke \/ Restart

Spec == Init /\ [][Next]_vars

\* systemd starts the unit and the process runs.  Nothing is assumed of the
\* console: it may never answer.
FairSpec == Spec /\ WF_vars(Seed)

-----------------------------------------------------------------------------
(* Properties.                                                             *)

Steps == {"off", "wait_api", "login", "ulp", "setup", "setup_login", "read_key",
          "check_old", "owner_id", "mint", "check_new", "write_tmp", "replace",
          "done", "failed"}

TypeOK == /\ pc \in Steps
          /\ tries \in Nat
          /\ key \in Keys \cup {NoKey}
          /\ up \in BOOLEAN /\ owner \in BOOLEAN /\ ulpSees \in BOOLEAN
          /\ minted \subseteq Keys
          /\ revoked \subseteq Keys
          /\ keyFile \in Keys \cup {NoKey} /\ tmpFile \in Keys \cup {NoKey}
          /\ boots \in Nat
          /\ proven \subseteq Keys
          /\ leaks \in Nat
          /\ misreads \in Nat /\ blind \in BOOLEAN

(* "A key that mints but does not authenticate is worse than no key": what  *)
(* a harness reads at the path has been seen to authenticate, in every      *)
(* boot, whatever earlier boots left on the volume.                         *)
PublishedKeyWorked == keyFile # NoKey => keyFile \in proven

(* The unit succeeds only with what it promises in place: the console has   *)
(* its owner, and the key at the path is one the console minted.            *)
SuccessIsReal == pc = "done" => /\ owner
                                /\ SeedApiKey => keyFile \in minted

(* "Still starting must not read as a dead key": a key is minted only while *)
(* no key at the path would be accepted, however slow the console is; the   *)
(* one way past that is a key file this very run could not read.            *)
MintsOnlyWithout == [][minted' # minted => keyFile \notin Valid \/ blind]_vars

(* The console holds no more keys than one, one for each that was revoked,  *)
(* one for each run that ended between minting and publishing and one for   *)
(* each time the key at the path could not be read.                         *)
KeysAccounted == Cardinality(minted) <= 1 + Cardinality(revoked) + leaks + misreads

(* Every loop gives up: the unit ends, with a verdict, though the console   *)
(* never answer; nothing boots behind a seed that hangs.                    *)
SeedEnds == pc # "off" ~> pc \in {"done", "failed", "off"}
=============================================================================
