--------------------------- MODULE UosVolumeProofs ---------------------------
(***************************************************************************)
(* Proofs about UosVolume, for any set of entries and UUIDs and any number *)
(* of stops, errors and new containers.                                    *)
(***************************************************************************)
EXTENDS UosVolume, TLAPS

\* While an entry is copied, it is one.
EntryInv == pc \in {"copying", "mirror"} => entry \in Entries

TypeInv == TypeOK /\ EntryInv

(* Type correctness, with the entry under copy: it is the index at which    *)
(* CopyEnds and MirrorOwnership write.                                      *)
LEMMA VolumeTypeInv == Spec => []TypeInv
<1>1. Init => TypeInv
  <2> SUFFICES ASSUME Init PROVE TypeInv
    OBVIOUS
  <2>1. busy \in BOOLEAN
    BY DEF Init
  <2>2. CASE busy = TRUE
    BY <2>2, VolumeAssumption DEF Init, TypeInv, TypeOK, EntryInv, Steps, Copies
  <2>3. CASE busy = FALSE
    BY <2>3, VolumeAssumption DEF Init, TypeInv, TypeOK, EntryInv, Steps, Copies
  <2>4. QED BY <2>1, <2>2, <2>3
<1>2. TypeInv /\ [Next]_vars => TypeInv'
  <2> SUFFICES ASSUME TypeInv, [Next]_vars PROVE TypeInv'
    OBVIOUS
  <2> USE VolumeAssumption DEF TypeInv, TypeOK, EntryInv, Steps, Copies, layer, volume,
                               plan, history, Goto
  <2>1. CASE Plan            BY <2>1 DEF Plan
  <2>2. CASE MakeTarget      BY <2>2 DEF MakeTarget
  <2>3. CASE OwnTarget       BY <2>3 DEF OwnTarget, Error
  <2>4. ASSUME NEW e \in Entries, SkipExisting(e) PROVE TypeInv'
    BY <2>4 DEF SkipExisting
  <2>5. ASSUME NEW e \in Entries, CopyStarts(e) PROVE TypeInv'
    BY <2>5 DEF CopyStarts
  <2>6. ASSUME NEW e \in Entries, RemoveEntry(e) PROVE TypeInv'
    BY <2>6 DEF RemoveEntry
  <2>7. CASE CopyEnds        BY <2>7 DEF CopyEnds
  <2>8. CASE CopyFails       BY <2>8 DEF CopyFails, Error
  <2>9. CASE MirrorOwnership BY <2>9 DEF MirrorOwnership, Error
  <2>10. CASE CopyDone       BY <2>10 DEF CopyDone
  <2>11. CASE RemoveDir      BY <2>11 DEF RemoveDir
  <2>12. CASE RemoveGivesUp  BY <2>12 DEF RemoveGivesUp
  <2>13. CASE Unlink         BY <2>13 DEF Unlink
  <2>14. CASE Symlink        BY <2>14 DEF Symlink
  <2>15. CASE ReadUuid       BY <2>15 DEF ReadUuid
  <2>16. CASE OpenUuid       BY <2>16 DEF OpenUuid
  <2>17. CASE WriteUuid      BY <2>17 DEF WriteUuid
  <2>18. ASSUME NEW e \in Entries, ServiceWrites(e) PROVE TypeInv'
    BY <2>18 DEF ServiceWrites
  <2>19. CASE Stop
    <3>1. crashes' \in Nat
      BY <2>19 DEF Stop, Down
    <3>2. pc' = "off" /\ migrate' = FALSE /\ existed' = FALSE /\ todo' = {}
            /\ entry' = NoEntry /\ UNCHANGED <<orig, busy, left, target, vol, uuid, errors, news>>
      BY <2>19 DEF Stop, Down
    <3>3. QED BY <3>1, <3>2
  <2>20. CASE Recreate
    <3>1. crashes' \in Nat /\ news' \in Nat
      BY <2>20 DEF Recreate, Down
    <3>2. pc' = "off" /\ migrate' = FALSE /\ existed' = FALSE /\ todo' = {}
            /\ entry' = NoEntry /\ UNCHANGED <<target, vol, uuid, errors>>
      BY <2>20 DEF Recreate, Down
    <3>3. orig' = "dir" /\ busy' \in BOOLEAN /\ left' = Entries
      BY <2>20 DEF Recreate
    <3>4. QED BY <3>1, <3>2, <3>3
  <2>21. CASE UNCHANGED vars BY <2>21 DEF vars
  <2>22. QED
    BY <2>1, <2>2, <2>3, <2>4, <2>5, <2>6, <2>7, <2>8, <2>9, <2>10, <2>11, <2>12,
       <2>13, <2>14, <2>15, <2>16, <2>17, <2>18, <2>19, <2>20, <2>21 DEF Next, Boot
<1>3. QED BY <1>1, <1>2, PTL DEF Spec

(* Every state is well typed.                                               *)
THEOREM VolumeTypes == Spec => []TypeOK
BY VolumeTypeInv, PTL DEF TypeInv

-----------------------------------------------------------------------------

(* No step of a boot, a stop or a new container touches an entry a service  *)
(* has written to: the copy is only begun where nothing is, and only the    *)
(* entry under copy is written afterwards, so that one must not be it.      *)
CopyInv == /\ pc = "copying" => vol[entry] = "partial"
           /\ pc = "mirror" => vol[entry] = "root"

LEMMA CopyIsFresh == Spec => []CopyInv
<1>1. Init => CopyInv
  BY DEF Init, CopyInv
<1>2. TypeInv /\ CopyInv /\ [Next]_vars => CopyInv'
  <2> SUFFICES ASSUME TypeInv, CopyInv, [Next]_vars PROVE CopyInv'
    OBVIOUS
  <2> USE DEF TypeInv, TypeOK, EntryInv, CopyInv, layer, volume, plan, history, Goto
  <2>1. ASSUME NEW e \in Entries, CopyStarts(e) PROVE CopyInv'
    BY <2>1 DEF CopyStarts
  <2>2. CASE CopyEnds
    BY <2>2 DEF CopyEnds, Copies
  <2>3. CASE UNCHANGED vars
    BY <2>3 DEF vars
  <2>4. CASE Plan \/ MakeTarget \/ OwnTarget \/ CopyFails \/ MirrorOwnership \/ CopyDone
             \/ RemoveDir \/ RemoveGivesUp \/ Unlink \/ Symlink
             \/ ReadUuid \/ OpenUuid \/ WriteUuid
    <3>1. pc' \notin {"copying", "mirror"}
      BY <2>4 DEF Plan, MakeTarget, OwnTarget, CopyFails, MirrorOwnership, CopyDone,
                  RemoveDir, RemoveGivesUp, Unlink, Symlink, ReadUuid, OpenUuid, WriteUuid
    <3>2. QED BY <3>1
  <2>5. ASSUME NEW e \in Entries, SkipExisting(e) \/ RemoveEntry(e) \/ ServiceWrites(e)
        PROVE  CopyInv'
    <3>1. pc' \notin {"copying", "mirror"}
      BY <2>5 DEF SkipExisting, RemoveEntry, ServiceWrites
    <3>2. QED BY <3>1
  <2>6. CASE Stop \/ Recreate
    BY <2>6 DEF Stop, Recreate, Down
  <2>7. QED
    BY <2>1, <2>2, <2>3, <2>4, <2>5, <2>6 DEF Next, Boot
<1>3. QED BY <1>1, <1>2, VolumeTypeInv, PTL DEF Spec

THEOREM RunningCopyWins == Spec => VolumeWins
<1>1. TypeInv /\ CopyInv /\ [Next]_vars =>
          [\A e \in Entries : vol[e] = "lived" => vol'[e] = "lived"]_vars
  <2> SUFFICES ASSUME TypeInv, CopyInv, Next, NEW f \in Entries, vol[f] = "lived"
               PROVE  vol'[f] = "lived"
    OBVIOUS
  <2> USE DEF TypeInv, TypeOK, EntryInv, CopyInv, volume, Goto
  <2>1. ASSUME NEW e \in Entries, CopyStarts(e) PROVE vol'[f] = "lived"
    BY <2>1 DEF CopyStarts
  <2>2. CASE CopyEnds
    BY <2>2 DEF CopyEnds
  <2>3. CASE MirrorOwnership
    BY <2>3 DEF MirrorOwnership
  <2>4. ASSUME NEW e \in Entries, ServiceWrites(e) PROVE vol'[f] = "lived"
    BY <2>4 DEF ServiceWrites
  <2>5. CASE Plan \/ MakeTarget \/ OwnTarget \/ CopyFails \/ CopyDone
             \/ RemoveDir \/ RemoveGivesUp \/ Unlink \/ Symlink
             \/ ReadUuid \/ OpenUuid \/ WriteUuid \/ Stop \/ Recreate
    <3>1. vol' = vol
      BY <2>5 DEF Plan, MakeTarget, OwnTarget, CopyFails, CopyDone, RemoveDir,
                  RemoveGivesUp, Unlink, Symlink, ReadUuid, OpenUuid, WriteUuid, Stop,
                  Recreate, Down
    <3>2. QED BY <3>1
  <2>6. ASSUME NEW e \in Entries, SkipExisting(e) \/ RemoveEntry(e)
        PROVE  vol'[f] = "lived"
    BY <2>6 DEF SkipExisting, RemoveEntry
  <2>7. QED
    BY <2>1, <2>2, <2>3, <2>4, <2>5, <2>6 DEF Next, Boot
<1>2. QED BY <1>1, VolumeTypeInv, CopyIsFresh, PTL DEF Spec, VolumeWins

(* UUID_FILE is written by OpenUuid and WriteUuid only, and both find it    *)
(* without a UUID: OpenUuid because it is absent, WriteUuid because it was  *)
(* opened in this very boot.                                                *)
UuidInv == pc = "uuid_open" => uuid = EmptyUuid

THEOREM UuidIsForLife == Spec => UuidStays
<1>1. Init => UuidInv
  BY DEF Init, UuidInv
<1>2. UuidInv /\ [Next]_vars => UuidInv'
  BY DEF UuidInv, Next, Boot, Plan, MakeTarget, OwnTarget, SkipExisting, CopyStarts,
         CopyEnds, CopyFails, MirrorOwnership, CopyDone, RemoveEntry, RemoveDir,
         RemoveGivesUp, Unlink, Symlink, ReadUuid, OpenUuid, WriteUuid, ServiceWrites,
         Stop, Recreate, Down, vars, layer, volume, Goto
<1>3. UuidInv /\ [Next]_vars => [(uuid \in Uuids) => (uuid' = uuid)]_vars
  BY VolumeAssumption
     DEF UuidInv, Next, Boot, Plan, MakeTarget, OwnTarget, SkipExisting, CopyStarts,
         CopyEnds, CopyFails, MirrorOwnership, CopyDone, RemoveEntry, RemoveDir,
         RemoveGivesUp, Unlink, Symlink, ReadUuid, OpenUuid, WriteUuid, ServiceWrites,
         Stop, Recreate, Down, vars, layer, volume, Goto
<1>4. QED BY <1>1, <1>2, <1>3, PTL DEF Spec, UuidStays

-----------------------------------------------------------------------------

\* Something of the entry is on the volume.
Copied(e) == vol[e] # "absent"

(* An entry is only removed once the copy is over, and without an error the *)
(* copy is over when every entry still in the original is on the volume.    *)
VanishInv == errors = 0 =>
    /\ \A e \in Entries : e \in left \/ Copied(e)
    /\ pc \in {"copy", "copying", "mirror"} =>
           \A e \in Entries : e \in todo \/ Copied(e)
    /\ pc = "remove" => \A e \in Entries : Copied(e)

THEOREM OriginalsAreKept == Spec => []NothingVanishes
<1>1. Init => VanishInv
  BY DEF Init, VanishInv
<1>2. TypeInv /\ VanishInv /\ [Next]_vars => VanishInv'
  <2> SUFFICES ASSUME TypeInv, VanishInv, [Next]_vars, errors' = 0 PROVE VanishInv'
    BY DEF VanishInv
  <2> USE DEF TypeInv, TypeOK, EntryInv, VanishInv, Copied, Copies, layer, volume, plan,
              history, Goto
  <2>1. CASE Plan            BY <2>1 DEF Plan
  <2>2. CASE MakeTarget      BY <2>2 DEF MakeTarget
  <2>3. CASE OwnTarget       BY <2>3 DEF OwnTarget, Error
  <2>4. ASSUME NEW e \in Entries, SkipExisting(e) PROVE VanishInv'
    BY <2>4 DEF SkipExisting
  <2>5. ASSUME NEW e \in Entries, CopyStarts(e) PROVE VanishInv'
    BY <2>5 DEF CopyStarts
  <2>6. ASSUME NEW e \in Entries, RemoveEntry(e) PROVE VanishInv'
    BY <2>6 DEF RemoveEntry
  <2>7. CASE CopyEnds        BY <2>7 DEF CopyEnds
  <2>8. CASE CopyFails       BY <2>8 DEF CopyFails, Error
  <2>9. CASE MirrorOwnership BY <2>9 DEF MirrorOwnership, Error
  <2>10. CASE CopyDone       BY <2>10 DEF CopyDone
  <2>11. CASE RemoveDir \/ RemoveGivesUp \/ Unlink \/ Symlink
              \/ ReadUuid \/ OpenUuid \/ WriteUuid
    BY <2>11 DEF RemoveDir, RemoveGivesUp, Unlink, Symlink, ReadUuid, OpenUuid, WriteUuid
  <2>12. ASSUME NEW e \in Entries, ServiceWrites(e) PROVE VanishInv'
    BY <2>12 DEF ServiceWrites
  <2>13. CASE Stop           BY <2>13 DEF Stop, Down
  <2>14. CASE Recreate       BY <2>14 DEF Recreate, Down
  <2>15. CASE UNCHANGED vars BY <2>15 DEF vars
  <2>16. QED
    BY <2>1, <2>2, <2>3, <2>4, <2>5, <2>6, <2>7, <2>8, <2>9, <2>10, <2>11, <2>12,
       <2>13, <2>14, <2>15 DEF Next, Boot
<1>3. VanishInv => NothingVanishes
  BY DEF VanishInv, NothingVanishes, Copied
<1>4. QED BY <1>1, <1>2, <1>3, VolumeTypeInv, PTL DEF Spec

-----------------------------------------------------------------------------

\* The entry is on the volume, complete and its service's.
Whole(e) == vol[e] \in {"owned", "lived"}

\* Nothing of the entry is on the volume, and it can still be copied from `s`.
Waiting(e, s) == vol[e] = "absent" /\ e \in s

Settled == target = "owned" /\ \A e \in Entries : Whole(e)

(* What each step of an undisturbed history of boots may find.  A boot that *)
(* does not migrate meets a link, and the link was only made on a settled   *)
(* volume; a boot that does finds each entry settled or still to be copied, *)
(* and a target that is absent or has its owner.                            *)
CleanInv == errors = 0 /\ crashes = 0 =>
    /\ pc \in {"off", "plan", "own"} =>
           \A e \in Entries : Whole(e) \/ Waiting(e, left)
    /\ pc \in {"off", "plan"} => target # "root"
    /\ pc = "off" => orig = "dir" \/ Settled
    /\ pc \in {"plan", "own"} => migrate \/ Settled
    /\ pc = "own" => IF existed THEN target = "owned" ELSE migrate
    /\ pc \in {"copy", "copying", "mirror"} =>
           /\ target = "owned"
           /\ \A e \in Entries : \/ Whole(e) \/ Waiting(e, todo)
                                 \/ pc # "copy" /\ e = entry
    /\ pc \in {"remove", "unlink", "symlink", "uuid", "uuid_open", "init", "dead"} =>
           Settled
    /\ pc \in {"uuid", "uuid_open", "init"} => orig = "link"

THEOREM CleanBootsSettle == Spec => []CleanBootsAreWhole
<1>1. Init => CleanInv
  BY DEF Init, CleanInv, Waiting
<1>2. TypeInv /\ CleanInv /\ [Next]_vars => CleanInv'
  <2> SUFFICES ASSUME TypeInv, CleanInv, [Next]_vars, errors' = 0, crashes' = 0
               PROVE  CleanInv'
    BY DEF CleanInv
  <2> USE DEF TypeInv, TypeOK, EntryInv, CleanInv, Whole, Waiting, Settled, Copies, Steps,
              layer, volume, plan, history, Goto
  <2>1. CASE Plan            BY <2>1 DEF Plan
  <2>2. CASE MakeTarget      BY <2>2 DEF MakeTarget
  <2>3. CASE OwnTarget       BY <2>3 DEF OwnTarget, Error
  <2>4. ASSUME NEW e \in Entries, SkipExisting(e) PROVE CleanInv'
    BY <2>4 DEF SkipExisting
  <2>5. ASSUME NEW e \in Entries, CopyStarts(e) PROVE CleanInv'
    BY <2>5 DEF CopyStarts
  <2>6. ASSUME NEW e \in Entries, RemoveEntry(e) PROVE CleanInv'
    BY <2>6 DEF RemoveEntry
  <2>7. CASE CopyEnds        BY <2>7 DEF CopyEnds
  <2>8. CASE CopyFails       BY <2>8 DEF CopyFails, Error
  <2>9. CASE MirrorOwnership BY <2>9 DEF MirrorOwnership, Error
  <2>10. CASE CopyDone       BY <2>10 DEF CopyDone
  <2>11. CASE RemoveDir \/ RemoveGivesUp \/ Unlink \/ Symlink
              \/ ReadUuid \/ OpenUuid \/ WriteUuid
    BY <2>11 DEF RemoveDir, RemoveGivesUp, Unlink, Symlink, ReadUuid, OpenUuid, WriteUuid
  <2>12. ASSUME NEW e \in Entries, ServiceWrites(e) PROVE CleanInv'
    BY <2>12 DEF ServiceWrites
  <2>13. CASE Stop           BY <2>13 DEF Stop, Down, Booting
  <2>14. CASE Recreate       BY <2>14 DEF Recreate, Down, Booting
  <2>15. CASE UNCHANGED vars BY <2>15 DEF vars
  <2>16. QED
    BY <2>1, <2>2, <2>3, <2>4, <2>5, <2>6, <2>7, <2>8, <2>9, <2>10, <2>11, <2>12,
       <2>13, <2>14, <2>15 DEF Next, Boot
<1>3. CleanInv => CleanBootsAreWhole
  BY DEF CleanInv, CleanBootsAreWhole, Settled, Whole
<1>4. QED BY <1>1, <1>2, <1>3, VolumeTypeInv, PTL DEF Spec
=============================================================================
