--------------------------- MODULE SeedOwnerProofs ---------------------------
(***************************************************************************)
(* Proofs about SeedOwner, for any set of keys, any number of attempts in  *)
(* each loop and any number of boots, revoked keys and unreadable files.   *)
(***************************************************************************)
EXTENDS SeedOwner, FiniteSetTheorems, TLAPS

USE SeedAssumption

\* What the seed process knows of the console and the volume at each step.
SeedInv ==
    /\ pc \in {"check_old", "check_new", "write_tmp", "replace"} => key \in minted
    /\ pc = "check_old" => key = keyFile
    /\ pc \in {"write_tmp", "replace"} => key \in proven
    /\ pc = "replace" => tmpFile = key
    /\ pc \in {"owner_id", "mint"} => keyFile \notin Valid \/ blind
    /\ blind => pc \in {"owner_id", "mint", "check_new", "write_tmp", "replace",
                        "done", "failed"}
    /\ pc \in {"setup_login", "read_key", "check_old", "done"} => owner
    /\ pc \in {"owner_id", "mint", "check_new", "write_tmp", "replace"} => owner
    /\ keyFile # NoKey => keyFile \in minted
    /\ PublishedKeyWorked
    /\ SuccessIsReal

\* A key that is being checked is a key.
TypeInv == /\ TypeOK
           /\ pc \in {"check_old", "check_new"} => key \in Keys

(* The variables of the seed keep their types.                              *)
THEOREM SeedTypes == Spec => []TypeOK
<1>1. Init => TypeInv
  <2> SUFFICES ASSUME Init PROVE TypeInv
    OBVIOUS
  <2>1. up \in BOOLEAN /\ owner \in BOOLEAN /\ ulpSees \in BOOLEAN /\ blind \in BOOLEAN
    BY DEF Init
  <2>2. QED BY <2>1 DEF Init, TypeInv, TypeOK, Steps
<1>2. TypeInv /\ [Next]_vars => TypeInv'
  <2> SUFFICES ASSUME TypeInv, [Next]_vars PROVE TypeInv'
    OBVIOUS
  <2> USE DEF TypeInv, TypeOK, Steps, Goto, Retry, Valid, seed, console, volume, misread, history
  <2>1. CASE StartUnit           BY <2>1 DEF StartUnit
  <2>2. CASE WaitForApi          BY <2>2 DEF WaitForApi
  <2>3. CASE LoginProves         BY <2>3 DEF LoginProves, OwnerEnsured
  <2>4. CASE LoginProvesNothing  BY <2>4 DEF LoginProvesNothing
  <2>5. CASE UlpSaysSetup        BY <2>5 DEF UlpSaysSetup, OwnerEnsured
  <2>6. CASE UlpSaysNothing      BY <2>6 DEF UlpSaysNothing
  <2>7. CASE SetupCreates        BY <2>7 DEF SetupCreates
  <2>8. CASE SetupLoginOk        BY <2>8 DEF SetupLoginOk, OwnerEnsured
  <2>9. CASE SetupLoginRefused   BY <2>9 DEF SetupLoginRefused
  <2>10. CASE SetupAlreadyDone   BY <2>10 DEF SetupAlreadyDone, OwnerEnsured
  <2>11. CASE SetupFails
    <3>1. owner' \in BOOLEAN
      BY <2>11 DEF SetupFails
    <3>2. pc' \in Steps /\ tries' \in Nat
      BY <2>11 DEF SetupFails
    <3>3. QED BY <2>11, <3>1, <3>2 DEF SetupFails
  <2>12. CASE ReadKey
    <3>1. blind' \in BOOLEAN
      BY <2>12 DEF ReadKey
    <3>2. misreads' \in Nat
      BY <2>12 DEF ReadKey
    <3>3. QED BY <2>12, <3>1, <3>2 DEF ReadKey
  <2>13. CASE KeyAccepted        BY <2>13 DEF KeyAccepted
  <2>14. CASE KeyRejected        BY <2>14 DEF KeyRejected
  <2>15. CASE KeyUnanswered      BY <2>15 DEF KeyUnanswered
  <2>16. CASE OwnerId            BY <2>16 DEF OwnerId
  <2>17. CASE Mint               BY <2>17 DEF Mint
  <2>18. CASE MintRefused        BY <2>18 DEF MintRefused
  <2>19. CASE WriteTmp           BY <2>19 DEF WriteTmp
  <2>20. CASE Replace            BY <2>20 DEF Replace
  <2>21. CASE PublishFails       BY <2>21 DEF PublishFails
  <2>22. CASE ConsoleUp          BY <2>22 DEF ConsoleUp
  <2>23. CASE UlpCatchesUp       BY <2>23 DEF UlpCatchesUp
  <2>24. CASE Revoke             BY <2>24 DEF Revoke
  <2>25. CASE Restart
    <3>1. up' \in BOOLEAN /\ blind' \in BOOLEAN
      BY <2>25 DEF Restart
    <3>2. QED BY <2>25, <3>1 DEF Restart
  <2>26. CASE UNCHANGED vars     BY <2>26 DEF vars
  <2>27. QED
    BY <2>1, <2>2, <2>3, <2>4, <2>5, <2>6, <2>7, <2>8, <2>9, <2>10, <2>11, <2>12,
       <2>13, <2>14, <2>15, <2>16, <2>17, <2>18, <2>19, <2>20, <2>21, <2>22, <2>23,
       <2>24, <2>25, <2>26 DEF Next, Seed
<1>3. TypeInv => TypeOK
  BY DEF TypeInv
<1>4. QED BY <1>1, <1>2, <1>3, PTL DEF Spec

LEMMA SeedKnows == Spec => []SeedInv
<1>1. Init => SeedInv
  BY DEF Init, SeedInv, PublishedKeyWorked, SuccessIsReal
<1>2. TypeOK /\ SeedInv /\ [Next]_vars => SeedInv'
  <2> SUFFICES ASSUME TypeOK, SeedInv, [Next]_vars PROVE SeedInv'
    OBVIOUS
  <2> USE DEF TypeOK, Steps, SeedInv, PublishedKeyWorked, SuccessIsReal, Goto, Retry, Valid, seed, console, volume, misread, history
  <2>1. CASE StartUnit           BY <2>1 DEF StartUnit
  <2>2. CASE WaitForApi          BY <2>2 DEF WaitForApi
  <2>3. CASE LoginProves         BY <2>3 DEF LoginProves, OwnerEnsured
  <2>4. CASE LoginProvesNothing  BY <2>4 DEF LoginProvesNothing
  <2>5. CASE UlpSaysSetup        BY <2>5 DEF UlpSaysSetup, OwnerEnsured
  <2>6. CASE UlpSaysNothing      BY <2>6 DEF UlpSaysNothing
  <2>7. CASE SetupCreates        BY <2>7 DEF SetupCreates
  <2>8. CASE SetupLoginOk        BY <2>8 DEF SetupLoginOk, OwnerEnsured
  <2>9. CASE SetupLoginRefused   BY <2>9 DEF SetupLoginRefused
  <2>10. CASE SetupAlreadyDone   BY <2>10 DEF SetupAlreadyDone, OwnerEnsured
  <2>11. CASE SetupFails         BY <2>11 DEF SetupFails
  <2>12. CASE ReadKey            BY <2>12 DEF ReadKey
  <2>13. CASE KeyAccepted        BY <2>13 DEF KeyAccepted
  <2>14. CASE KeyRejected        BY <2>14 DEF KeyRejected
  <2>15. CASE KeyUnanswered      BY <2>15 DEF KeyUnanswered
  <2>16. CASE OwnerId            BY <2>16 DEF OwnerId
  <2>17. CASE Mint               BY <2>17 DEF Mint
  <2>18. CASE MintRefused        BY <2>18 DEF MintRefused
  <2>19. CASE WriteTmp           BY <2>19 DEF WriteTmp
  <2>20. CASE Replace            BY <2>20 DEF Replace
  <2>21. CASE PublishFails       BY <2>21 DEF PublishFails
  <2>22. CASE ConsoleUp          BY <2>22 DEF ConsoleUp
  <2>23. CASE UlpCatchesUp       BY <2>23 DEF UlpCatchesUp
  <2>24. CASE Revoke             BY <2>24 DEF Revoke
  <2>25. CASE Restart            BY <2>25 DEF Restart
  <2>26. CASE UNCHANGED vars     BY <2>26 DEF vars
  <2>27. QED
    BY <2>1, <2>2, <2>3, <2>4, <2>5, <2>6, <2>7, <2>8, <2>9, <2>10, <2>11, <2>12,
       <2>13, <2>14, <2>15, <2>16, <2>17, <2>18, <2>19, <2>20, <2>21, <2>22, <2>23,
       <2>24, <2>25, <2>26 DEF Next, Seed
<1>3. QED BY <1>1, <1>2, SeedTypes, PTL DEF Spec

(* What is at the published path has authenticated at least once: the new   *)
(* key is only written after its check, the file only changes by the move.  *)
THEOREM PublishedKeysWorked == Spec => []PublishedKeyWorked
<1>1. SeedInv => PublishedKeyWorked
  BY DEF SeedInv
<1>2. QED BY <1>1, SeedKnows, PTL

(* A seed that ends well leaves an owner and a key of this console behind,  *)
(* whichever of the four ways to find the owner present it took.            *)
THEOREM SeedSuccessIsReal == Spec => []SuccessIsReal
<1>1. SeedInv => SuccessIsReal
  BY DEF SeedInv
<1>2. QED BY <1>1, SeedKnows, PTL

(* No key is minted while the one at the path would be accepted, in any     *)
(* boot that could read it: such a boot gets to minting only past an empty  *)
(* path or a rejection, and a rejected key does not come back.              *)
THEOREM MintsOnlyWithoutAKey == Spec => MintsOnlyWithout
<1>1. TypeOK /\ SeedInv /\ [Next]_vars => [minted' # minted => keyFile \notin Valid \/ blind]_vars
  <2> SUFFICES ASSUME TypeOK, SeedInv, Next, minted' # minted
               PROVE  keyFile \notin Valid \/ blind
    BY DEF vars
  <2>1. Mint
    BY DEF Next, Seed, StartUnit, WaitForApi, LoginProves, LoginProvesNothing,
           UlpSaysSetup, UlpSaysNothing, SetupCreates, SetupLoginOk, SetupLoginRefused,
           SetupAlreadyDone, SetupFails, ReadKey, KeyAccepted, KeyRejected,
           KeyUnanswered, OwnerId, MintRefused, WriteTmp, Replace, PublishFails,
           ConsoleUp, UlpCatchesUp, Revoke, Restart, console
  <2>2. pc = "mint"
    BY <2>1 DEF Mint, Goto
  <2>3. QED BY <2>2 DEF SeedInv
<1>2. QED BY <1>1, SeedTypes, SeedKnows, PTL DEF Spec, MintsOnlyWithout

-----------------------------------------------------------------------------
(* The keys of the console.                                                *)

\* The key a run holds between its minting and its publication.
InFlight == IF pc \in {"check_new", "write_tmp", "replace"} THEN {key} ELSE {}

\* The key at the path, unless a run that could not read it is replacing it.
AtPath == IF blind /\ pc \in {"owner_id", "mint", "check_new", "write_tmp", "replace"}
          THEN {} ELSE {keyFile}

\* Keys nobody revoked, that no run holds and no reader finds for long.
Astray == minted \ (revoked \cup AtPath \cup InFlight)

\* What the keys that go astray are charged to.
Losses == leaks + misreads

\* A key only goes astray with a run or a reading that is counted; and a run that
\* read the path mints, and later overwrites it, only past a key that is revoked.
AccountInv == /\ IsFiniteSet(minted)
              /\ revoked \subseteq minted
              /\ pc \in {"mint", "check_new", "write_tmp", "replace"} =>
                     keyFile \notin Valid \/ blind
              /\ Cardinality(Astray) <= Losses

\* Adding an element adds at most one.
LEMMA OneMore ==
    ASSUME NEW S, IsFiniteSet(S), NEW x, NEW T, T \subseteq S \cup {x}
    PROVE  IsFiniteSet(T) /\ Cardinality(T) <= Cardinality(S) + 1
<1>1. /\ IsFiniteSet(S \cup {x})
      /\ Cardinality(S \cup {x}) = IF x \in S THEN Cardinality(S) ELSE Cardinality(S) + 1
  BY FS_AddElement
<1>2. Cardinality(S) \in Nat
  BY FS_CardinalityType
<1>3. IsFiniteSet(T) /\ Cardinality(T) <= Cardinality(S \cup {x})
  BY <1>1, FS_Subset
<1>4. Cardinality(T) \in Nat
  BY <1>3, FS_CardinalityType
<1>5. QED BY <1>1, <1>2, <1>3, <1>4

\* A step that loses no key keeps the account; so does one that loses one and
\* is counted.
LEMMA AccountKept ==
    ASSUME IsFiniteSet(minted), Cardinality(Astray) <= Losses, Losses \in Nat,
           \/ Astray' \subseteq Astray /\ Losses' \in {Losses, Losses + 1}
           \/ /\ \E x : Astray' \subseteq Astray \cup {x}
              /\ Losses' = Losses + 1
    PROVE  Cardinality(Astray') <= Losses'
<1>1. IsFiniteSet(Astray)
  BY FS_Subset DEF Astray
<1>2. Cardinality(Astray) \in Nat
  BY <1>1, FS_CardinalityType
<1>3. CASE Astray' \subseteq Astray /\ Losses' \in {Losses, Losses + 1}
  <2>1. IsFiniteSet(Astray') /\ Cardinality(Astray') <= Cardinality(Astray)
    BY <1>1, <1>3, FS_Subset
  <2>2. Cardinality(Astray') \in Nat
    BY <2>1, FS_CardinalityType
  <2>3. QED BY <1>2, <1>3, <2>1, <2>2
<1>4. CASE (\E x : Astray' \subseteq Astray \cup {x}) /\ Losses' = Losses + 1
  <2>1. PICK x : Astray' \subseteq Astray \cup {x}
    BY <1>4
  <2>2. IsFiniteSet(Astray') /\ Cardinality(Astray') <= Cardinality(Astray) + 1
    BY <1>1, <2>1, OneMore
  <2>3. Cardinality(Astray') \in Nat
    BY <2>2, FS_CardinalityType
  <2>4. QED BY <1>2, <1>4, <2>2, <2>3
<1>5. QED BY <1>3, <1>4

LEMMA KeysCounted == Spec => []AccountInv
<1>1. Init => AccountInv
  <2> SUFFICES ASSUME Init PROVE AccountInv
    OBVIOUS
  <2>1. Astray = {} /\ Losses = 0
    BY DEF Init, Astray, Losses
  <2>2. IsFiniteSet({}) /\ Cardinality({}) = 0
    BY FS_EmptySet
  <2>3. QED BY <2>1, <2>2 DEF Init, AccountInv
<1>2. TypeOK /\ SeedInv /\ AccountInv /\ [Next]_vars => AccountInv'
  <2> SUFFICES ASSUME TypeOK, SeedInv, AccountInv, [Next]_vars PROVE AccountInv'
    OBVIOUS
  <2> DEFINE Holding == {"check_new", "write_tmp", "replace"}
               Minting == Holding \cup {"mint", "owner_id"}
  <2>0. Losses \in Nat /\ Cardinality(Astray) <= Losses /\ IsFiniteSet(minted)
    BY DEF TypeOK, AccountInv, Losses
  <2>q. ASSUME UNCHANGED <<minted, revoked, keyFile, leaks, misread>>,
               pc' \in Minting => pc \in Minting \/ (pc' = "owner_id" /\ ~blind),
               pc' \in Holding => pc \in Holding,
               pc \in Holding => pc' \in Holding /\ key' = key
        PROVE  AccountInv'
    <3>1. Astray' \subseteq Astray
      BY <2>q DEF Astray, AtPath, InFlight, misread
    <3>2. Losses' = Losses
      BY <2>q DEF Losses, misread
    <3>3. Cardinality(Astray') <= Losses'
      BY <3>1, <3>2, <2>0, AccountKept
    <3>4. QED BY <2>q, <3>3 DEF AccountInv, SeedInv, Valid, misread
  <2>r. ASSUME UNCHANGED <<minted, revoked, keyFile, misreads>>, pc' \notin Minting,
               leaks' = IF pc \in Holding THEN leaks + 1 ELSE leaks
        PROVE  AccountInv'
    <3>1. Astray' \subseteq Astray \cup {key} /\ (pc \notin Holding => Astray' \subseteq Astray)
      BY <2>r DEF Astray, AtPath, InFlight
    <3>2. Losses' = IF pc \in Holding THEN Losses + 1 ELSE Losses
      BY <2>r DEF Losses, TypeOK
    <3>3. Cardinality(Astray') <= Losses'
      BY <3>1, <3>2, <2>0, AccountKept
    <3>4. QED BY <2>r, <3>3 DEF AccountInv
  <2> USE DEF Goto, Retry, seed, console, volume, misread, history
  <2>1. CASE StartUnit           BY <2>1, <2>q DEF StartUnit
  <2>2. CASE WaitForApi          BY <2>2, <2>q DEF WaitForApi
  <2>3. CASE LoginProves         BY <2>3, <2>q DEF LoginProves, OwnerEnsured
  <2>4. CASE LoginProvesNothing  BY <2>4, <2>q DEF LoginProvesNothing
  <2>5. CASE UlpSaysSetup        BY <2>5, <2>q DEF UlpSaysSetup, OwnerEnsured
  <2>6. CASE UlpSaysNothing      BY <2>6, <2>q DEF UlpSaysNothing
  <2>7. CASE SetupCreates        BY <2>7, <2>q DEF SetupCreates
  <2>8. CASE SetupLoginOk        BY <2>8, <2>q DEF SetupLoginOk, OwnerEnsured
  <2>9. CASE SetupLoginRefused   BY <2>9, <2>q DEF SetupLoginRefused
  <2>10. CASE SetupAlreadyDone   BY <2>10, <2>q DEF SetupAlreadyDone, OwnerEnsured
  <2>11. CASE SetupFails         BY <2>11, <2>q DEF SetupFails
  <2>12. CASE ReadKey
    <3>1. CASE misreads' = misreads + 1
      <4>1. /\ pc = "read_key" /\ pc' = "owner_id" /\ blind'
            /\ UNCHANGED <<minted, revoked, keyFile, leaks>>
        BY <2>12, <3>1 DEF ReadKey
      <4>2. Astray' \subseteq Astray \cup {keyFile}
        BY <4>1 DEF Astray, AtPath, InFlight
      <4>3. Losses' = Losses + 1
        BY <3>1, <4>1 DEF Losses, TypeOK
      <4>4. Cardinality(Astray') <= Losses'
        BY <4>2, <4>3, <2>0, AccountKept
      <4>5. QED BY <4>1, <4>4 DEF AccountInv
    <3>2. CASE UNCHANGED misread /\ ~blind
      BY <2>12, <3>2, <2>q DEF ReadKey
    <3>3. misreads' = misreads + 1 \/ UNCHANGED misread
      BY <2>12 DEF ReadKey
    <3>4. QED BY <2>12, <3>1, <3>2, <3>3 DEF ReadKey, SeedInv
  <2>13. CASE KeyAccepted        BY <2>13, <2>q DEF KeyAccepted
  <2>14. CASE KeyRejected
    <3>1. CASE pc = "check_old"
      <4>1. ~blind
        BY <3>1 DEF SeedInv
      <4>2. QED BY <2>14, <3>1, <4>1, <2>q DEF KeyRejected
    <3>2. CASE pc = "check_new"  BY <2>14, <3>2, <2>r DEF KeyRejected
    <3>3. QED BY <2>14, <3>1, <3>2 DEF KeyRejected
  <2>15. CASE KeyUnanswered
    <3>1. CASE pc' = "failed"    BY <2>15, <3>1, <2>r DEF KeyUnanswered
    <3>2. CASE pc' # "failed"    BY <2>15, <3>2, <2>q DEF KeyUnanswered
    <3>3. QED BY <3>1, <3>2
  <2>16. CASE OwnerId            BY <2>16, <2>q DEF OwnerId
  <2>17. CASE Mint
    <3>1. PICK k \in Keys \ minted : minted' = minted \cup {k} /\
                 \/ Goto("mint", "check_new") /\ key' = k /\ UNCHANGED leaks
                 \/ Goto("mint", "failed") /\ leaks' = leaks + 1 /\ UNCHANGED key
      BY <2>17 DEF Mint
    <3>2. UNCHANGED <<revoked, keyFile, misread>> /\ pc = "mint"
      BY <2>17 DEF Mint
    <3>3. IsFiniteSet(minted')
      BY <3>1, <2>0, FS_AddElement
    <3>4. (keyFile' \notin Valid' \/ blind') /\ revoked' \subseteq minted'
      BY <3>1, <3>2 DEF AccountInv, Valid, SeedInv
    <3>5. CASE pc' = "check_new"
      <4>1. Astray' \subseteq Astray
        BY <3>1, <3>2, <3>5 DEF Astray, AtPath, InFlight
      <4>2. Losses' = Losses
        BY <3>1, <3>2, <3>5 DEF Losses
      <4>3. QED BY <4>1, <4>2, <3>3, <3>4, <2>0, AccountKept DEF AccountInv
    <3>6. CASE pc' = "failed"
      <4>1. Astray' \subseteq Astray \cup {k}
        BY <3>1, <3>2, <3>6 DEF Astray, AtPath, InFlight
      <4>2. Losses' = Losses + 1
        BY <3>1, <3>2, <3>6 DEF Losses, TypeOK
      <4>3. QED BY <4>1, <4>2, <3>3, <3>4, <2>0, AccountKept DEF AccountInv
    <3>7. QED BY <3>1, <3>5, <3>6
  <2>18. CASE MintRefused        BY <2>18, <2>q DEF MintRefused
  <2>19. CASE WriteTmp           BY <2>19, <2>q DEF WriteTmp
  <2>20. CASE Replace
    <3>1. /\ keyFile' = key /\ pc = "replace" /\ pc' = "done"
          /\ UNCHANGED <<minted, revoked, leaks, misread>>
      BY <2>20 DEF Replace, SeedInv
    <3>2. keyFile \in revoked \/ keyFile \notin minted \/ blind
      BY <3>1 DEF AccountInv, Valid
    <3>3. Astray' \subseteq Astray
      BY <3>1, <3>2 DEF Astray, AtPath, InFlight
    <3>4. Losses' = Losses
      BY <3>1 DEF Losses
    <3>5. Cardinality(Astray') <= Losses'
      BY <3>3, <3>4, <2>0, AccountKept
    <3>6. QED BY <3>1, <3>5 DEF AccountInv
  <2>21. CASE PublishFails       BY <2>21, <2>r DEF PublishFails
  <2>22. CASE ConsoleUp          BY <2>22, <2>q DEF ConsoleUp
  <2>23. CASE UlpCatchesUp       BY <2>23, <2>q DEF UlpCatchesUp
  <2>24. CASE Revoke
    <3>1. PICK k \in Valid : revoked' = revoked \cup {k}
      BY <2>24 DEF Revoke
    <3>2. UNCHANGED <<minted, keyFile, leaks, misread, pc, key>>
      BY <2>24 DEF Revoke
    <3>3. Astray' \subseteq Astray
      BY <3>1, <3>2 DEF Astray, AtPath, InFlight
    <3>4. Losses' = Losses
      BY <3>2 DEF Losses
    <3>5. Cardinality(Astray') <= Losses'
      BY <3>3, <3>4, <2>0, AccountKept
    <3>6. QED BY <3>1, <3>2, <3>5 DEF AccountInv, Valid
  <2>25. CASE Restart            BY <2>25, <2>r DEF Restart
  <2>26. CASE UNCHANGED vars     BY <2>26, <2>q DEF vars
  <2>27. QED
    BY <2>1, <2>2, <2>3, <2>4, <2>5, <2>6, <2>7, <2>8, <2>9, <2>10, <2>11, <2>12,
       <2>13, <2>14, <2>15, <2>16, <2>17, <2>18, <2>19, <2>20, <2>21, <2>22, <2>23,
       <2>24, <2>25, <2>26 DEF Next, Seed
<1>3. QED BY <1>1, <1>2, SeedTypes, SeedKnows, PTL DEF Spec

(* The console never holds more keys than one, those an operator revoked,   *)
(* one for each run that died between minting and publishing and one for    *)
(* each key file that could not be read, however many boots there are: keys *)
(* do not pile up.                                                          *)
THEOREM KeysAreAccounted == Spec => []KeysAccounted
<1>1. TypeOK /\ AccountInv => KeysAccounted
  <2> SUFFICES ASSUME TypeOK, AccountInv PROVE KeysAccounted
    OBVIOUS
  <2>1. IsFiniteSet(Astray) /\ IsFiniteSet(revoked)
    BY FS_Subset DEF AccountInv, Astray
  <2>2. Cardinality(Astray) \in Nat /\ Cardinality(revoked) \in Nat
    BY <2>1, FS_CardinalityType
  <2>3. /\ IsFiniteSet(Astray \cup revoked)
        /\ Cardinality(Astray \cup revoked) <= Cardinality(Astray) + Cardinality(revoked)
    <3>1. /\ IsFiniteSet(Astray \cup revoked) /\ IsFiniteSet(Astray \cap revoked)
          /\ Cardinality(Astray \cup revoked)
                = Cardinality(Astray) + Cardinality(revoked) - Cardinality(Astray \cap revoked)
      BY <2>1, FS_Union, FS_Intersection
    <3>2. Cardinality(Astray \cap revoked) \in Nat
      BY <3>1, FS_CardinalityType
    <3>3. QED BY <3>1, <3>2, <2>2
  \* The one key more is the one in flight or, with none in flight, the one at
  \* the path; with one in flight the one at the path is revoked or astray.
  <2>4. PICK x : minted \subseteq (Astray \cup revoked) \cup {x}
    BY DEF AccountInv, Astray, AtPath, InFlight, Valid
  <2>5. Cardinality(minted) <= Cardinality(Astray \cup revoked) + 1
    BY <2>3, <2>4, OneMore
  <2>6. Cardinality(minted) \in Nat /\ Cardinality(Astray \cup revoked) \in Nat
    BY <2>3, FS_CardinalityType DEF AccountInv
  <2>7. Cardinality(Astray) <= leaks + misreads /\ leaks \in Nat /\ misreads \in Nat
    BY DEF AccountInv, Losses, TypeOK
  <2>8. QED BY <2>2, <2>3, <2>5, <2>6, <2>7 DEF KeysAccounted
<1>2. QED BY <1>1, SeedTypes, KeysCounted, PTL
=============================================================================
