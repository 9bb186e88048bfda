------------------------------ MODULE UosVolume ------------------------------
(***************************************************************************)
(* How the UniFi OS entrypoint (unifi_runtime/entrypoint/uos.py) moves a   *)
(* service directory onto the /unifi volume and gives the console its UUID,*)
(* on every boot, before it execs systemd.                                 *)
(*                                                                         *)
(* apply_symlinks treats each path of SYMLINK_MAP by itself; this is one   *)
(* of them.  The original is on the container's own layer: it survives a   *)
(* restart and comes back from the image when the container is recreated.  *)
(* The target is on the volume and survives both.  The container may stop  *)
(* between any two steps, in the middle of a file too.                     *)
(***************************************************************************)
EXTENDS Integers, FiniteSets

CONSTANTS Entries,    \* what the image has in the original directory
          NoEntry,    \* no copy is under way
          Uuids,      \* the console UUIDs there may be
          NoUuid,     \* UUID_FILE is absent
          EmptyUuid,  \* UUID_FILE is there and empty
          MaxCrashes, \* bound: stops in the middle of a boot
          MaxErrors,  \* bound: OSErrors that the boot swallows
          MaxNew      \* bound: times the container is recreated

ASSUME VolumeAssumption == /\ NoEntry \notin Entries
                           /\ NoUuid \notin Uuids /\ EmptyUuid \notin Uuids
                           /\ NoUuid # EmptyUuid
                           /\ {MaxCrashes, MaxErrors, MaxNew} \subseteq Nat

VARIABLES pc,      \* where the entrypoint is, "off" while the container is down
          orig,    \* the original path: "dir", "link" or "gone"
          busy,    \* part of that directory cannot be removed: a mount
          left,    \* the entries still in the original directory
          target,  \* the directory on the volume: "absent", "root" or "owned"
          vol,     \* each entry on the volume, see Copies
          migrate, \* plan.migrate
          existed, \* the target was there before this boot
          todo,    \* the rest of os.listdir(source)
          entry,   \* the entry that is being copied
          uuid,    \* UUID_FILE
          crashes, \* history: stops in the middle of a boot
          errors,  \* history: OSErrors swallowed
          news     \* history: containers after the first

layer   == <<orig, busy, left>>
volume  == <<target, vol, uuid>>
plan    == <<migrate, existed, todo, entry>>
history == <<crashes, errors, news>>
vars    == <<pc, layer, volume, plan, history>>

\* A copy that was cut short, one that nobody but root may write, one the
\* service owns, and one the service has written to since.
Copies == {"absent", "partial", "root", "owned", "lived"}
Steps  == {"off", "plan", "own", "copy", "copying", "mirror", "remove", "unlink",
           "symlink", "uuid", "uuid_open", "init", "dead"}

Init == /\ pc = "off"
        /\ orig = "dir"
        /\ busy \in BOOLEAN
        /\ left = Entries
        /\ target = "absent"
        /\ vol = [e \in Entries |-> "absent"]
        /\ migrate = FALSE
        /\ existed = FALSE
        /\ todo = {}
        /\ entry = NoEntry
        /\ uuid = NoUuid
        /\ crashes = 0
        /\ errors = 0
        /\ news = 0

Goto(from, to) == pc = from /\ pc' = to

-----------------------------------------------------------------------------
(* apply_symlinks on one plan.                                             *)

\* plan_symlinks looks at the original; a link to a directory is not migrated.
Plan == /\ Goto("off", "plan")
        /\ migrate' = (orig = "dir")
        /\ UNCHANGED <<layer, volume, existed, todo, entry, history>>

MakeTarget == /\ Goto("plan", "own")
              /\ existed' = (target # "absent")
              /\ target' = IF target = "absent" THEN "root" ELSE target
              /\ UNCHANGED <<layer, vol, uuid, migrate, todo, entry, history>>

\* An OSError is swallowed.
Error == errors < MaxErrors /\ errors' = errors + 1

\* A new target gets the original's owner, or _chown_like fails without a
\* word; then os.listdir, if there is anything to migrate.
OwnTarget == /\ Goto("own", IF migrate THEN "copy" ELSE "unlink")
             /\ IF migrate /\ ~existed
                THEN \/ target' = "owned" /\ UNCHANGED errors
                     \/ Error /\ UNCHANGED target
                ELSE UNCHANGED <<target, errors>>
             /\ todo' = IF migrate THEN left ELSE {}
             /\ UNCHANGED <<layer, vol, uuid, migrate, existed, entry, crashes, news>>

\* _copy_no_clobber: what the volume has wins, whatever state it is in.
SkipExisting(e) == /\ pc = "copy"
                   /\ e \in todo
                   /\ vol[e] # "absent"
                   /\ todo' = todo \ {e}
                   /\ UNCHANGED <<pc, layer, volume, migrate, existed, entry, history>>

\* Mutant of CopyStarts: the image's copy wins.
CopyClobbers(e) == /\ Goto("copy", "copying")
                   /\ e \in todo
                   /\ todo' = todo \ {e}
                   /\ entry' = e
                   /\ vol' = [vol EXCEPT ![e] = "partial"]
                   /\ UNCHANGED <<layer, target, uuid, migrate, existed, history>>

\* copytree or copy2 creates the copy ...
CopyStarts(e) == /\ Goto("copy", "copying")
                 /\ e \in todo
                 /\ vol[e] = "absent"
                 /\ todo' = todo \ {e}
                 /\ entry' = e
                 /\ vol' = [vol EXCEPT ![e] = "partial"]
                 /\ UNCHANGED <<layer, target, uuid, migrate, existed, history>>

\* ... and fills it, as root.
CopyEnds == /\ Goto("copying", "mirror")
            /\ vol' = [vol EXCEPT ![entry] = "root"]
            /\ UNCHANGED <<layer, target, uuid, plan, history>>

\* An OSError ends the whole copy: this entry stays as it is, the rest of the
\* list is not copied, and the original is removed all the same.
CopyFails == /\ Goto("copying", "remove")
             /\ Error
             /\ todo' = {}
             /\ entry' = NoEntry
             /\ UNCHANGED <<layer, volume, migrate, existed, crashes, news>>

\* Mutant of MirrorOwnership: shutil's copy keeps root as the owner.
MirrorNothing == /\ Goto("mirror", "copy")
                 /\ entry' = NoEntry
                 /\ UNCHANGED <<layer, volume, migrate, existed, todo, history>>

\* _mirror_ownership, which also fails without a word.
MirrorOwnership == /\ Goto("mirror", "copy")
                   /\ \/ vol' = [vol EXCEPT ![entry] = "owned"] /\ UNCHANGED errors
                      \/ Error /\ UNCHANGED vol
                   /\ entry' = NoEntry
                   /\ UNCHANGED <<layer, target, uuid, migrate, existed, todo, crashes,
                                  news>>

\* Mutant of CopyDone: the first entry is all that is copied.
CopyStopsShort == /\ Goto("copy", "remove")
                  /\ \E e \in Entries : vol[e] # "absent"
                  /\ UNCHANGED <<layer, volume, plan, history>>

\* os.listdir is exhausted.
CopyDone == /\ Goto("copy", "remove")
            /\ todo = {}
            /\ UNCHANGED <<layer, volume, plan, history>>

\* shutil.rmtree, entry by entry, and at last the directory.
RemoveEntry(e) == /\ pc = "remove"
                  /\ e \in left
                  /\ left' = left \ {e}
                  /\ UNCHANGED <<pc, orig, busy, volume, plan, history>>

RemoveDir == /\ Goto("remove", "unlink")
             /\ left = {} /\ ~busy
             /\ orig' = "gone"
             /\ UNCHANGED <<busy, left, volume, plan, history>>

\* ignore_errors: the directory is still there and rmtree returns.
RemoveGivesUp == /\ Goto("remove", "unlink")
                 /\ busy
                 /\ UNCHANGED <<layer, volume, plan, history>>

\* Mutant of Unlink: os.symlink meets last boot's link.
UnlinkNothing == /\ Goto("unlink", IF orig = "gone" THEN "symlink" ELSE "dead")
                 /\ UNCHANGED <<layer, volume, plan, history>>

\* os.remove takes a link away; a directory makes it raise, and the boot fail.
Unlink == /\ Goto("unlink", IF orig = "dir" THEN "dead" ELSE "symlink")
          /\ orig' = IF orig = "link" THEN "gone" ELSE orig
          /\ UNCHANGED <<busy, left, volume, plan, history>>

Symlink == /\ Goto("symlink", "uuid")
           /\ orig' = "link"
           /\ UNCHANGED <<busy, left, volume, plan, history>>

-----------------------------------------------------------------------------
(* ensure_uuid, and the rest of main().                                    *)

\* Mutant of ReadUuid: UOS_UUID, when it is set, wins over the file.
ReadUuidOrEnv == /\ Goto("uuid", "init")
                 /\ uuid # NoUuid
                 /\ uuid' \in Uuids \cup {uuid}
                 /\ UNCHANGED <<layer, target, vol, plan, history>>

\* A file that exists is read, whatever UOS_UUID says by now.
ReadUuid == /\ Goto("uuid", "init")
            /\ uuid # NoUuid
            /\ UNCHANGED <<layer, volume, plan, history>>

\* Opening the file for writing creates it empty ...
OpenUuid == /\ Goto("uuid", "uuid_open")
            /\ uuid = NoUuid
            /\ uuid' = EmptyUuid
            /\ UNCHANGED <<layer, target, vol, plan, history>>

\* ... and UOS_UUID or a new random UUID is written to it; then execv.
WriteUuid == /\ Goto("uuid_open", "init")
             /\ uuid' \in Uuids
             /\ UNCHANGED <<layer, target, vol, plan, history>>

-----------------------------------------------------------------------------
(* The services and the container.                                         *)

\* A service writes to what it owns.
ServiceWrites(e) == /\ pc = "init"
                    /\ vol[e] = "owned"
                    /\ vol' = [vol EXCEPT ![e] = "lived"]
                    /\ UNCHANGED <<pc, layer, target, uuid, plan, history>>

Booting == pc \notin {"off", "init", "dead"}

\* The process is gone and its locals with it.
Down == /\ pc' = "off"
        /\ migrate' = FALSE
        /\ existed' = FALSE
        /\ todo' = {}
        /\ entry' = NoEntry
        /\ crashes' = IF Booting THEN crashes + 1 ELSE crashes
        /\ UNCHANGED <<volume, errors>>

\* The container stops, and may be started again.
Stop == /\ pc # "off"
        /\ Booting => crashes < MaxCrashes
        /\ Down
        /\ UNCHANGED <<layer, news>>

\* The container is removed and a new one gets the volume.
Recreate == /\ news < MaxNew
            /\ Booting => crashes < MaxCrashes
            /\ Down
            /\ news' = news + 1
            /\ orig' = "dir"
            /\ busy' \in BOOLEAN
            /\ left' = Entries

Boot == \/ Plan \/ MakeTarget \/ OwnTarget
        \/ \E e \in Entries : SkipExisting(e) \/ CopyStarts(e) \/ RemoveEntry(e)
        \/ CopyEnds \/ CopyFails \/ MirrorOwnership \/ CopyDone
        \/ RemoveDir \/ RemoveGivesUp \/ Unlink \/ Symlink
        \/ ReadUuid \/ OpenUuid \/ WriteUuid

Next == \/ Boot
        \/ \E e \in Entries : ServiceWrites(e)
        \/ Stop
        \/ Recreate

Spec == Init /\ [][Next]_vars

\* The container is started whenever it is down, and its entrypoint runs.
FairSpec == Spec /\ WF_vars(Boot)

-----------------------------------------------------------------------------
(* Properties.                                                             *)

TypeOK == /\ pc \in Steps
          /\ orig \in {"dir", "link", "gone"}
          /\ busy \in BOOLEAN
          /\ left \subseteq Entries
          /\ target \in {"absent", "root", "owned"}
          /\ vol \in [Entries -> Copies]
          /\ migrate \in BOOLEAN /\ existed \in BOOLEAN
          /\ todo \subseteq Entries
          /\ entry \in Entries \cup {NoEntry}
          /\ uuid \in Uuids \cup {NoUuid, EmptyUuid}
          /\ crashes \in Nat /\ errors \in Nat /\ news \in Nat

(* "The volume's copy has been running, so it wins": what a service wrote   *)
(* is there for good, through crashes, errors and new containers that bring *)
(* the image's own copy back.                                               *)
VolumeWins == [][\A e \in Entries : vol[e] = "lived" => vol'[e] = "lived"]_vars

(* With no stop in the middle of a boot and no error swallowed, systemd     *)
(* starts on a volume that has every entry whole and owned by its service,  *)
(* behind the link, in every container that ever had the volume.            *)
CleanBootsAreWhole == pc = "init" /\ crashes = 0 /\ errors = 0 =>
                          /\ orig = "link"
                          /\ target = "owned"
                          /\ \A e \in Entries : vol[e] \in {"owned", "lived"}

(* The original of an entry is not given up before the volume has something *)
(* in its place, unless an error was swallowed.                             *)
NothingVanishes == errors = 0 =>
                       \A e \in Entries : e \in left \/ vol[e] # "absent"

(* The console's UUID is decided once for the volume: neither a new         *)
(* container nor another UOS_UUID changes it.                               *)
UuidStays == [][(uuid \in Uuids) => (uuid' = uuid)]_vars

(* "A partial copy is survivable; refusing to boot over it is not": however *)
(* often it was stopped half-way and whatever errors it swallowed, the      *)
(* container boots to systemd, unless a mount keeps the original in place.  *)
BootsInTheEnd == pc = "off" /\ ~busy ~> pc = "init" \/ busy
=============================================================================
