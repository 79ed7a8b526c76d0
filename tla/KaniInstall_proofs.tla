--------------------------- MODULE KaniInstall_proofs ---------------------------
(***************************************************************************)
(* Proofs about KaniFrontend and KaniInstall, for any number of members,   *)
(* releases and faults.  First extract_frontend by itself: its invariant   *)
(* says, stage by stage, what the publication loop has done to the members *)
(* before, at and after its index.  Then the installer, which only ever    *)
(* takes steps of extract_frontend on its files, so that all of this       *)
(* holds of it; the rest follows from which phases come after which.       *)
(***************************************************************************)
EXTENDS KaniInstall, TLAPS

\* A member as publication and rollback leave it.
Kept(m) == IF backup[m] THEN start[m] # None /\ previous[m] = start[m]
                        ELSE start[m] = None
Published(m) == target[m] = New /\ Kept(m)
Aside(m) == target[m] = None /\ Kept(m)
Untouched(m) == target[m] = start[m] /\ ~backup[m]
Undone(m) == target[m] = start[m] /\ (backup[m] => previous[m] = None)
Dropped(m) == backup[m] => previous[m] = None
Present(m) == start[m] \in {None, target[m], previous[m]}

\* Where the index is, and which files are registered, in each stage.
Indices ==
    /\ pc \in {"extract", "copy", "aside", "replace", "restore", "backups"} => k \in 1..N
    /\ pc = "rollback" => k \in 0..N
    /\ pc = "discard" => k \in 1..(registered + 1)
    /\ pc \in Resting => k = 1
    /\ pc = "copy" => registered = k
    /\ pc = "extract" => registered = k - 1
    /\ pc \in Publishing \cup {"backups"} => registered = N

\* Members are copied before they are published, and published whole.
Copies ==
    /\ pc \in Extracting => \A m \in Member : m < k => pending[m] = New
    /\ pc \in {"aside", "replace"} =>
         \A m \in Member : pending[m] = IF m < k THEN None ELSE New
    /\ pc = "backups" => pending = Set(None)

Stages ==
    /\ pc \in Extracting => \A m \in Member : Untouched(m)
    /\ pc = "aside" => \A m \in Member : IF m < k THEN Published(m) ELSE Untouched(m)
    /\ pc \in {"replace", "restore"} =>
         \A m \in Member : IF m < k THEN Published(m)
                           ELSE IF m = k THEN Aside(m) ELSE Untouched(m)
    /\ pc = "rollback" =>
         \A m \in Member : IF m <= k THEN Published(m) ELSE Present(m) /\ (cut \/ Undone(m))
    /\ pc = "backups" => /\ target = Set(New)
                         /\ \A m \in Member : m < k => Dropped(m)

Flags ==
    /\ pc \in Extracting \cup Publishing \cup {"backups", "installed"} => ~failing
    /\ pc = "raised" => failing
    /\ pc \in Extracting \cup {"aside", "replace", "restore"} => ~cut

\* What the run has come to when only the pending files are left to discard.
Outcome ==
    pc \in {"discard", "raised", "installed"} =>
      /\ ~failing => /\ target = Set(New)
                     /\ pending = Set(None)
                     /\ \A m \in Member : Dropped(m)
      /\ failing /\ ~cut => \/ target = Set(New)
                            \/ \A m \in Member : Undone(m)

Bookkeeping == Indices /\ Flags

IInv == /\ TypeOK
        /\ Bookkeeping
        /\ Copies
        /\ Stages
        /\ Outcome
        /\ NeverRunnablePartial
        /\ NoMemberLost

--------------------------------------------------------------------------------

LEMMA FaultType ==
  ASSUME faults \in 0..MaxFaults, Fault
  PROVE  faults' \in 0..MaxFaults
  BY FrontendAssumption DEF Fault

LEMMA FileFacts == /\ New \in File /\ None \in File /\ Partial \in File
                   /\ New # None /\ New # Partial /\ None # Partial
                   /\ {None, Partial, New} \subseteq File
  BY FrontendAssumption DEF File, None, Partial

LEMMA InitIInv == Init => IInv
<1> SUFFICES ASSUME Init
             PROVE  IInv
  OBVIOUS
<1> USE FrontendAssumption, FileFacts DEF Init, Set, Resting, Running, Extracting, Publishing
<1>1. TypeOK
  <2>1. target \in [Member -> File] /\ start \in [Member -> File]
    BY DEF File
  <2>2. previous \in [Member -> File] /\ pending \in [Member -> {None, Partial, New}]
    OBVIOUS
  <2>3. faults \in 0..MaxFaults /\ k \in 0..(N + 1) /\ registered \in 0..N
    OBVIOUS
  <2> QED
    BY <2>1, <2>2, <2>3 DEF TypeOK
<1>2. Bookkeeping /\ Copies /\ Stages /\ Outcome
  BY DEF Bookkeeping, Indices, Flags, Copies, Stages, Outcome
<1>3. NeverRunnablePartial /\ NoMemberLost
  BY DEF NeverRunnablePartial, NoMemberLost, Member
<1> QED
  BY <1>1, <1>2, <1>3 DEF IInv

LEMMA StepTypes == TypeOK /\ Indices /\ [Next]_vars => TypeOK'
<1> SUFFICES ASSUME TypeOK, Indices, [Next]_vars
             PROVE  TypeOK'
  OBVIOUS
<1> USE FrontendAssumption, FileFacts, FaultType
    DEF TypeOK, Indices, At, Unwind, Set, files, Member, Resting, Running,
        Extracting, Publishing
<1>1. CASE Begin
  <2>1. k' \in 0..(N + 1) /\ registered' \in 0..N
    BY <1>1 DEF Begin
  <2>2. backup' \in [Member -> BOOLEAN] /\ start' \in [Member -> File]
    BY <1>1 DEF Begin
  <2> QED
    BY <1>1, <2>1, <2>2 DEF Begin
<1>2. CASE OpenMember
  BY <1>2 DEF OpenMember
<1>3. CASE CopyMember
  BY <1>3 DEF CopyMember
<1>4. CASE MoveAside
  BY <1>4 DEF MoveAside
<1>5. CASE MoveAsideFails
  BY <1>5 DEF MoveAsideFails
<1>6. CASE Replace
  <2>1. pending[k] \in File /\ k \in Member
    BY <1>6 DEF Replace
  <2>2. target' \in [Member -> File] /\ pending' \in [Member -> {None, Partial, New}]
    BY <1>6, <2>1 DEF Replace
  <2>3. pc' \in Resting \cup Running /\ k' \in 0..(N + 1)
    BY <1>6 DEF Replace
  <2> QED
    BY <1>6, <2>2, <2>3 DEF Replace
<1>7. CASE ReplaceFails
  BY <1>7 DEF ReplaceFails
<1>8. CASE Restore
  BY <1>8 DEF Restore, PutBack
<1>9. CASE RollBack
  BY <1>9 DEF RollBack, PutBack
<1>10. CASE UndoFails
  BY <1>10 DEF UndoFails
<1>11. CASE RolledBack
  BY <1>11 DEF RolledBack
<1>12. CASE DropBackup
  BY <1>12 DEF DropBackup
<1>13. CASE DropBackupFails
  BY <1>13 DEF DropBackupFails
<1>14. CASE ExtractFails
  BY <1>14 DEF ExtractFails
<1>15. CASE Interrupt
  BY <1>15 DEF Interrupt
<1>16. CASE Discard
  BY <1>16 DEF Discard
<1>17. CASE DiscardFails
  BY <1>17 DEF DiscardFails
<1>18. CASE Finish
  BY <1>18 DEF Finish
<1>19. CASE Crash
  BY <1>19 DEF Crash
<1>20. CASE UNCHANGED vars
  BY <1>20 DEF vars
<1> QED
  BY <1>1, <1>2, <1>3, <1>4, <1>5, <1>6, <1>7, <1>8, <1>9, <1>10, <1>11, <1>12,
     <1>13, <1>14, <1>15, <1>16, <1>17, <1>18, <1>19, <1>20
  DEF Next, Progress, Trouble

\* Every step of the extraction preserves the invariant.
LEMMA StepIInv == IInv /\ [Next]_vars => IInv'
<1> SUFFICES ASSUME IInv, [Next]_vars
             PROVE  IInv'
  OBVIOUS
<1>0. TypeOK'
  BY StepTypes DEF IInv, Bookkeeping
<1> USE <1>0, FrontendAssumption, FileFacts
    DEF IInv, TypeOK, At, Unwind, Set, files, Member, Resting, Running,
        Extracting, Publishing, Bookkeeping, Indices, Flags, Copies, Stages, Outcome,
        Published, Aside, Untouched, Undone, Dropped, Kept, Present,
        NeverRunnablePartial,
        NoMemberLost
<1>1. CASE Begin
  BY <1>1 DEF Begin
<1>2. CASE OpenMember
  BY <1>2 DEF OpenMember
<1>3. CASE CopyMember
  <2>1. Bookkeeping'
    <3>1. CASE k < N
      BY <1>3, <3>1 DEF CopyMember
    <3>2. CASE ~(k < N)
      BY <1>3, <3>2 DEF CopyMember
    <3> QED
      BY <3>1, <3>2
  <2>2. Copies'
    BY <1>3 DEF CopyMember
  <2>3. Stages'
    BY <1>3 DEF CopyMember
  <2>4. Outcome'
    BY <1>3 DEF CopyMember
  <2>5. NeverRunnablePartial'
    BY <1>3 DEF CopyMember
  <2>6. NoMemberLost'
    BY <1>3 DEF CopyMember
  <2> QED
    BY <2>1, <2>2, <2>3, <2>4, <2>5, <2>6
<1>4. CASE MoveAside
  <2>1. Bookkeeping'
    BY <1>4 DEF MoveAside
  <2>2. Copies'
    BY <1>4 DEF MoveAside
  <2>3. Stages'
    <3>1. ASSUME NEW m \in Member, m < k
          PROVE  Published(m)'
      BY <1>4, <3>1 DEF MoveAside
    <3>2. Aside(k)'
      <4>1. k \in Member /\ k' = k /\ Untouched(k)
        BY <1>4 DEF MoveAside
      <4>2. CASE target[k] = None
        BY <1>4, <4>1, <4>2 DEF MoveAside
      <4>3. CASE target[k] # None
        BY <1>4, <4>1, <4>3 DEF MoveAside
      <4> QED
        BY <4>2, <4>3
    <3>3. ASSUME NEW m \in Member, m > k
          PROVE  Untouched(m)'
      BY <1>4, <3>3 DEF MoveAside
    <3>4. pc' = "replace" /\ k' = k /\ k \in Member
      BY <1>4 DEF MoveAside
    <3> QED
      BY <3>1, <3>2, <3>3, <3>4
  <2>4. Outcome'
    BY <1>4 DEF MoveAside
  <2>5. NeverRunnablePartial'
    BY <1>4 DEF MoveAside
  <2>6. NoMemberLost'
    BY <1>4 DEF MoveAside
  <2> QED
    BY <2>1, <2>2, <2>3, <2>4, <2>5, <2>6
<1>5. CASE MoveAsideFails
  BY <1>5 DEF MoveAsideFails
<1>6. CASE Replace
  <2>1. Bookkeeping'
    <3>1. CASE k < N
      BY <1>6, <3>1 DEF Replace
    <3>2. CASE ~(k < N)
      BY <1>6, <3>2 DEF Replace
    <3> QED
      BY <3>1, <3>2
  <2>2. Copies'
    <3>1. \A m \in Member : pending'[m] = IF m < k + 1 THEN None ELSE New
      BY <1>6 DEF Replace
    <3>2. CASE k < N
      BY <1>6, <3>1, <3>2 DEF Replace
    <3>3. CASE ~(k < N)
      <4>1. \A m \in Member : pending'[m] = None
        BY <1>6, <3>1, <3>3 DEF Replace
      <4>2. pending' = Set(None)
        BY <4>1
      <4> QED
        BY <1>6, <3>3, <4>2 DEF Replace
    <3> QED
      BY <3>2, <3>3
  <2>3. Stages'
    <3>1. \A m \in Member : IF m < k + 1 THEN Published(m)' ELSE Untouched(m)'
      BY <1>6 DEF Replace
    <3>2. CASE k < N
      BY <1>6, <3>1, <3>2 DEF Replace
    <3>3. CASE ~(k < N)
      <4>1. \A m \in Member : target'[m] = New
        BY <1>6, <3>1, <3>3 DEF Replace
      <4>2. target' = Set(New)
        BY <4>1
      <4>3. pc' = "backups" /\ k' = 1
        BY <1>6, <3>3 DEF Replace
      <4> QED
        BY <4>2, <4>3
    <3> QED
      BY <3>2, <3>3
  <2>4. Outcome'
    BY <1>6 DEF Replace
  <2>5. NeverRunnablePartial'
    BY <1>6 DEF Replace
  <2>6. NoMemberLost'
    BY <1>6 DEF Replace
  <2> QED
    BY <2>1, <2>2, <2>3, <2>4, <2>5, <2>6
<1>7. CASE ReplaceFails
  BY <1>7 DEF ReplaceFails
<1>8. CASE Restore
  BY <1>8 DEF Restore, PutBack
<1>9. CASE RollBack
  <2>1. Bookkeeping'
    BY <1>9 DEF RollBack, PutBack
  <2>2. Copies'
    BY <1>9 DEF RollBack, PutBack
  <2>3. Stages'
    BY <1>9 DEF RollBack, PutBack
  <2>4. Outcome'
    BY <1>9 DEF RollBack, PutBack
  <2>5. NeverRunnablePartial'
    BY <1>9 DEF RollBack, PutBack
  <2>6. NoMemberLost'
    <3>1. ASSUME NEW m \in Member, m # k
          PROVE  Present(m)'
      BY <1>9, <3>1 DEF RollBack, PutBack
    <3>2. start'[k] \in {None, target'[k], previous'[k]}
      BY <1>9 DEF RollBack, PutBack
    <3> QED
      BY <3>1, <3>2
  <2> QED
    BY <2>1, <2>2, <2>3, <2>4, <2>5, <2>6
<1>10. CASE UndoFails
  BY <1>10 DEF UndoFails
<1>11. CASE RolledBack
  BY <1>11 DEF RolledBack
<1>12. CASE DropBackup
  <2>1. Bookkeeping'
    <3>1. CASE k < N
      BY <1>12, <3>1 DEF DropBackup
    <3>2. CASE ~(k < N)
      BY <1>12, <3>2 DEF DropBackup
    <3> QED
      BY <3>1, <3>2
  <2>2. Copies'
    BY <1>12 DEF DropBackup
  <2>3. Stages'
    BY <1>12 DEF DropBackup
  <2>4. Outcome'
    BY <1>12 DEF DropBackup
  <2>5. NeverRunnablePartial'
    BY <1>12 DEF DropBackup
  <2>6. NoMemberLost'
    BY <1>12 DEF DropBackup
  <2> QED
    BY <2>1, <2>2, <2>3, <2>4, <2>5, <2>6
<1>13. CASE DropBackupFails
  BY <1>13 DEF DropBackupFails
<1>14. CASE ExtractFails
  BY <1>14 DEF ExtractFails
<1>15. CASE Interrupt
  <2>1. Bookkeeping'
    BY <1>15 DEF Interrupt
  <2>2. Copies'
    BY <1>15 DEF Interrupt
  <2>3. Stages'
    BY <1>15 DEF Interrupt
  <2>4. Outcome'
    BY <1>15 DEF Interrupt
  <2>5. NeverRunnablePartial'
    BY <1>15 DEF Interrupt
  <2>6. NoMemberLost'
    BY <1>15 DEF Interrupt
  <2> QED
    BY <2>1, <2>2, <2>3, <2>4, <2>5, <2>6
<1>16. CASE Discard
  <2>1. Bookkeeping'
    BY <1>16 DEF Discard
  <2>2. Copies'
    BY <1>16 DEF Discard
  <2>3. Stages'
    BY <1>16 DEF Discard
  <2>4. Outcome'
    BY <1>16 DEF Discard
  <2>5. NeverRunnablePartial'
    BY <1>16 DEF Discard
  <2>6. NoMemberLost'
    BY <1>16 DEF Discard
  <2> QED
    BY <2>1, <2>2, <2>3, <2>4, <2>5, <2>6
<1>17. CASE DiscardFails
  BY <1>17 DEF DiscardFails
<1>18. CASE Finish
  BY <1>18 DEF Finish
<1>19. CASE Crash
  BY <1>19 DEF Crash
<1>20. CASE UNCHANGED vars
  BY <1>20 DEF vars
<1> QED
  BY <1>1, <1>2, <1>3, <1>4, <1>5, <1>6, <1>7, <1>8, <1>9, <1>10, <1>11, <1>12, <1>13, <1>14, <1>15, <1>16, <1>17, <1>18, <1>19, <1>20
  DEF Next, Progress, Trouble

THEOREM Invariance == Spec => []IInv
<1>1. Init => IInv
  BY InitIInv
<1>2. IInv /\ [Next]_vars => IInv'
  BY StepIInv
<1> QED
  BY <1>1, <1>2, PTL DEF Spec

\* Every state of the install directory and of the extraction is well typed.
THEOREM TypeCorrect == Spec => []TypeOK
<1>1. IInv => TypeOK
  BY DEF IInv
<1> QED
  BY <1>1, Invariance, PTL

\* No executable's name ever shows a partial copy (extract_frontend).
THEOREM PartialNeverRunnable == Spec => []NeverRunnablePartial
<1>1. IInv => NeverRunnablePartial
  BY DEF IInv
<1> QED
  BY <1>1, Invariance, PTL

\* A run that raises leaves the executables it found or all the new ones,
\* unless its rollback was itself cut short (_publish_frontend).
THEOREM PublicationAllOrNothing == Spec => []AllOrNothing
<1>1. IInv => AllOrNothing
  <2> SUFFICES ASSUME IInv, pc = "raised", ~cut, target # Set(New)
               PROVE  target = start
    BY DEF AllOrNothing
  <2>1. \A m \in Member : target[m] = start[m]
    BY DEF IInv, Bookkeeping, Flags, Outcome, Undone
  <2>2. target \in [Member -> File] /\ start \in [Member -> File]
    BY DEF IInv, TypeOK
  <2> QED
    BY <2>1, <2>2
<1> QED
  BY <1>1, Invariance, PTL

\* A run that returns has published the whole new set (extract_frontend).
THEOREM InstalledSetIsWhole == Spec => []InstalledIsWhole
<1>1. IInv => InstalledIsWhole
  BY DEF IInv, Bookkeeping, Flags, Outcome, Dropped, InstalledIsWhole
<1> QED
  BY <1>1, Invariance, PTL

\* No executable found by a run is gone before the new set is in place
\* (_move_original_aside, _roll_back).
THEOREM MembersNeverLost == Spec => []NoMemberLost
<1>1. IInv => NoMemberLost
  BY DEF IInv
<1> QED
  BY <1>1, Invariance, PTL

\* A complete rollback leaves none of its backups behind (_roll_back).
THEOREM RollbackLeavesNoBackup == Spec => []RolledBackClean
<1>1. IInv => RolledBackClean
  BY DEF IInv, Bookkeeping, Flags, Outcome, Undone, RolledBackClean
<1> QED
  BY <1>1, Invariance, PTL

--------------------------------------------------------------------------------
\* The installer.

Calls == [{Me} -> Over \cup {"working"}]

\* The downloads' results are in the cache while they are used.
Verified ==
    /\ phase \in Phases \ (Over \cup {"frontend"}) => frontend = New
    /\ phase \in Phases \ (Over \cup {"frontend", "bundle"}) => bundle = New

\* extract_frontend runs in its phase only, and was the last to run, and
\* returned, in the phases after it.
Extracted ==
    /\ phase = "extracting" => pc \notin Resting
    /\ phase # "extracting" => pc \in Resting
    /\ phase \in {"setup", "verify", "returned"} => pc = "installed"

SetUp == phase \in {"verify", "returned"} /\ should_setup => home = New

InstallInv == /\ should_setup \in BOOLEAN
              /\ should_verify \in BOOLEAN
              /\ phase \in Phases
              /\ frontend \in Archive
              /\ bundle \in Archive
              /\ frontendCall \in Calls
              /\ bundleCall \in Calls
              /\ home \in File
              /\ troubles \in 0..MaxTroubles
              /\ Verified
              /\ Extracted
              /\ SetUp

\* Every step of the installer is a step of extract_frontend on its state, or
\* leaves that state alone.
LEMMA StepOfFrontend == [InstallNext]_installVars => [Next]_vars
<1> SUFFICES ASSUME [InstallNext]_installVars PROVE [Next]_vars
  OBVIOUS
<1>1. CASE Downloading \/ Refuse \/ FrontendFails \/ BundleFails \/ CacheDamaged
  BY <1>1 DEF Downloading, Start, FrontendStored, FrontendReturned, BundleStored,
       BundleReturned, Refuse, FrontendFails, BundleFails, CacheDamaged
<1>2. CASE ExtractBegins \/ Extract
  BY <1>2 DEF ExtractBegins, Extract, Next, Progress
<1>3. CASE Setup \/ SetupFails \/ Verify \/ VerifyFails
  BY <1>3 DEF Setup, SetupFails, Verify, VerifyFails
<1>4. CASE UNCHANGED installVars
  BY <1>4 DEF installVars
<1> QED
  BY <1>1, <1>2, <1>3, <1>4 DEF InstallNext

\* The installer implements extract_frontend run by itself: every property of
\* its executions is one of the installer's.
THEOREM ImplementsFrontend == InstallSpec => Spec
<1>1. InstallInit => Init
  BY DEF InstallInit
<1>2. [InstallNext]_installVars => [Next]_vars
  BY StepOfFrontend
<1> QED
  BY <1>1, <1>2, PTL DEF InstallSpec, Spec

LEMMA InitInstallInv == InstallInit => InstallInv
<1> SUFFICES ASSUME InstallInit PROVE InstallInv
  OBVIOUS
<1>1. phase = "idle" /\ pc = "idle" /\ troubles = 0 /\ troubles \in 0..MaxTroubles
  BY InstallAssumption DEF InstallInit, Init, InstallAssumption
<1>2. should_setup \in BOOLEAN /\ should_verify \in BOOLEAN /\ phase \in Phases
  BY <1>1 DEF InstallInit, Phases, Over
<1>3. frontend \in Archive /\ bundle \in Archive /\ frontendCall \in Calls
        /\ bundleCall \in Calls
  BY DEF InstallInit, FrontendAsset!StoreInit, BundleAsset!StoreInit, Archive, Calls, Over
<1>4. home \in File
  BY DEF InstallInit, File
<1>5. Verified /\ Extracted /\ SetUp
  BY <1>1 DEF Verified, Extracted, SetUp, Phases, Over, Resting
<1> QED
  BY <1>1, <1>2, <1>3, <1>4, <1>5 DEF InstallInv

LEMMA MishapType == ASSUME troubles \in 0..MaxTroubles, Mishap
                    PROVE  troubles' \in 0..MaxTroubles
  BY InstallAssumption DEF InstallAssumption, Mishap

LEMMA DownloadStep == InstallInv /\ (Downloading \/ FrontendFails \/ BundleFails) => InstallInv'
<1> SUFFICES ASSUME InstallInv, Downloading \/ FrontendFails \/ BundleFails
             PROVE  InstallInv'
  OBVIOUS
<1> USE DEF InstallInv, Verified, Extracted, SetUp, Phases, Over, Archive, Calls, Enter
<1>1. CASE Start
  BY <1>1 DEF Start, FrontendAsset!Call, FrontendAsset!Move, vars, options
<1>2. CASE FrontendStored
  BY <1>2 DEF FrontendStored, FrontendAsset!Replace, vars, options
<1>3. CASE FrontendReturned
  BY <1>3 DEF FrontendReturned, FrontendAsset!Return, FrontendAsset!Move,
       BundleAsset!Call, BundleAsset!Move, vars, options
<1>4. CASE BundleStored
  BY <1>4 DEF BundleStored, BundleAsset!Replace, vars, options
<1>5. CASE BundleReturned
  BY <1>5 DEF BundleReturned, BundleAsset!Return, BundleAsset!Move, vars, options
<1>6. CASE FrontendFails
  BY <1>6, MishapType DEF FrontendFails, FrontendAsset!Raise, FrontendAsset!Die,
       FrontendAsset!Move, vars, options
<1>7. CASE BundleFails
  BY <1>7, MishapType DEF BundleFails, BundleAsset!Raise, BundleAsset!Die,
       BundleAsset!Move, vars, options
<1> QED
  BY <1>1, <1>2, <1>3, <1>4, <1>5, <1>6, <1>7 DEF Downloading

\* The phases that run extract_frontend, and those around it.
LEMMA PhaseStep ==
    /\ InstallInv /\ IInv /\ InstalledIsWhole
    /\ [InstallNext]_installVars
    => InstallInv'
<1> SUFFICES ASSUME InstallInv, IInv, InstalledIsWhole, [InstallNext]_installVars
             PROVE  InstallInv'
  OBVIOUS
<1> USE DEF InstallInv, Verified, Extracted, SetUp, Phases, Over, Enter
<1>1. CASE Downloading \/ FrontendFails \/ BundleFails
  BY <1>1, DownloadStep
<1>2. CASE Refuse
  BY <1>2, MishapType DEF Refuse, cache, vars, options
<1>3. CASE CacheDamaged
  BY <1>3, MishapType DEF CacheDamaged, Archive, vars, options
<1>4. CASE ExtractBegins
  BY <1>4 DEF ExtractBegins, Begin, At, Resting, cache, options
<1>5. CASE Extract
  BY <1>5 DEF Extract, Running, Resting, Extracting, Publishing, AfterExtract, AfterSetup,
       cache, options
<1>6. CASE Setup
  <2>1. target = Set(New) /\ bundle = New
    BY <1>6 DEF Setup, InstalledIsWhole
  <2>2. home' = New /\ home' \in File
    BY <1>6, <2>1, FileFacts DEF Setup
  <2> QED
    BY <1>6, <2>2 DEF Setup, AfterSetup, cache, vars, options
<1>7. CASE SetupFails
  BY <1>7, MishapType, FileFacts DEF SetupFails, cache, vars, options, Resting
<1>8. CASE Verify
  BY <1>8 DEF Verify, cache, vars, options
<1>9. CASE VerifyFails
  BY <1>9, MishapType DEF VerifyFails, cache, vars, options, Resting
<1>10. CASE UNCHANGED installVars
  BY <1>10 DEF installVars, cache, vars, options
<1> QED
  BY <1>1, <1>2, <1>3, <1>4, <1>5, <1>6, <1>7, <1>8, <1>9, <1>10 DEF InstallNext

THEOREM InstallInvariance == InstallSpec => []InstallInv
<1>1. InstallInit => InstallInv
  BY InitInstallInv
<1>2. InstallInv /\ IInv /\ InstalledIsWhole /\ [InstallNext]_installVars => InstallInv'
  BY PhaseStep
<1> QED
  BY <1>1, <1>2, ImplementsFrontend, Invariance, InstalledSetIsWhole, PTL DEF InstallSpec

\* Every variable of the installer keeps its type, extract_frontend's included,
\* for any number of members, releases, failures and faults.
THEOREM InstallTypeCorrect == InstallSpec => []InstallTypeOK
<1>1. InstallInv /\ TypeOK => InstallTypeOK
  BY DEF InstallInv, InstallTypeOK, Calls
<1> QED
  BY <1>1, InstallInvariance, ImplementsFrontend, TypeCorrect, PTL

\* install_kani_binary returned: the whole new set of executables is under
\* their names and, if the job sets Kani up, its release is in the Kani home.
THEOREM InstallReturnsReady == InstallSpec => []ReturnedIsReady
<1>1. InstallInv /\ InstalledIsWhole => ReturnedIsReady
  BY DEF InstallInv, Extracted, SetUp, InstalledIsWhole, ReturnedIsReady
<1> QED
  BY <1>1, InstallInvariance, ImplementsFrontend, InstalledSetIsWhole, PTL

\* No step of the installer changes an executable, a file of the publication or
\* the Kani home before both archives are verified, and the Kani home is only
\* filled by the whole new set.
THEOREM AssetsComeFirst == InstallSpec => AssetsFirst
<1> DEFINE Safe == /\ UNCHANGED <<files, home>> \/ (frontend = New /\ bundle = New)
                   /\ home' # home => target = Set(New)
<1>1. InstallInv /\ InstalledIsWhole /\ [InstallNext]_installVars => [Safe]_installVars
  <2> SUFFICES ASSUME InstallInv, InstalledIsWhole, InstallNext PROVE Safe
    BY DEF installVars
  <2>1. CASE Downloading \/ Refuse \/ FrontendFails \/ BundleFails \/ CacheDamaged
    BY <2>1 DEF Downloading, Start, FrontendStored, FrontendReturned, BundleStored,
         BundleReturned, Refuse, FrontendFails, BundleFails, CacheDamaged, vars, files
  <2>2. CASE ExtractBegins \/ Extract
    BY <2>2 DEF ExtractBegins, Extract, Enter, Begin, InstallInv, Verified, Phases, Over
  <2>3. CASE Setup \/ SetupFails
    BY <2>3 DEF Setup, SetupFails, Enter, InstallInv, Verified, Extracted, Phases, Over,
         InstalledIsWhole
  <2>4. CASE Verify \/ VerifyFails
    BY <2>4 DEF Verify, VerifyFails, vars, files
  <2> QED
    BY <2>1, <2>2, <2>3, <2>4 DEF InstallNext
<1> QED
  BY <1>1, InstallInvariance, ImplementsFrontend, InstalledSetIsWhole, PTL
     DEF InstallSpec, AssetsFirst

\* What is proved of extract_frontend by itself holds inside the installer.
THEOREM InstallKeepsPublication ==
    InstallSpec => /\ []NeverRunnablePartial
                   /\ []AllOrNothing
                   /\ []NoMemberLost
  BY ImplementsFrontend, PartialNeverRunnable, PublicationAllOrNothing, MembersNeverLost, PTL
================================================================================
