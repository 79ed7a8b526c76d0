-------------------------- MODULE DownloadStore_proofs --------------------------
(***************************************************************************)
(* Proofs about DownloadStore for every number of blocks, faults and       *)
(* inodes.  Type correctness needs nothing else; the promises about the    *)
(* final path need one installer at a time, because all of them share one  *)
(* pending name (store_shared.cfg shows what two of them do).              *)
(***************************************************************************)
EXTENDS DownloadStore, TLAPS

SoleInstaller == \A p, q \in Procs : p = q

\* The inductive invariant, by parts.
Names == pending # None => pending # dest

Writers == \A p \in Procs :
             /\ pc[p] = "copy" => output[p] = pending /\ pending # None
             /\ pc[p] # "copy" => output[p] = None

Flags == \A p \in Procs :
           pc[p] \in {"probe", "request", "copy", "hash", "publish"} => ~failing[p]

Missing == \A p \in Procs :
             pc[p] \in {"request", "copy", "hash", "publish"} => Stored # Pinned

Hashed == \A p \in Procs :
            pc[p] = "publish" => pending # None /\ contents[pending] = Pinned

Settled == \A p \in Procs :
             pc[p] = "discard" /\ ~failing[p] => Stored = Pinned

IInv == /\ TypeOK
        /\ Names
        /\ Writers
        /\ Flags
        /\ Missing
        /\ Hashed
        /\ Settled
        /\ ReturnedIsVerified
        /\ NothingPendingBesideAsset

--------------------------------------------------------------------------------

\* Writing a block into a file of blocks leaves a file of blocks.
LEMMA WrittenType ==
  ASSUME NEW c \in Seq(Block), NEW k \in Nat, NEW b \in Block
  PROVE  Written(c, k, b) \in Seq(Block)
<1> DEFINE n == IF Len(c) > k THEN Len(c) ELSE k
<1>1. n \in Nat
  OBVIOUS
<1>2. \A i \in 1..n :
        (IF i = k THEN b ELSE IF i <= Len(c) THEN c[i] ELSE "hole") \in Block
  BY DEF Block
<1>3. Written(c, k, b) \in [1..n -> Block]
  BY <1>2 DEF Written
<1> QED
  BY <1>1, <1>3

LEMMA PinnedType == Pinned \in Seq(Block)
  BY StoreAssumption DEF Pinned, Block

LEMMA FaultType ==
  ASSUME faults \in 0..MaxFaults, Fault
  PROVE  faults' \in 0..MaxFaults
  BY StoreAssumption DEF Fault

\* Every state of the store is well typed, with any number of installers.
LEMMA TypeStep == TypeOK /\ [Next]_vars => TypeOK'
<1> SUFFICES ASSUME TypeOK, [Next]_vars
             PROVE  TypeOK'
  OBVIOUS
<1> USE StoreAssumption DEF TypeOK, Stages, Resting, Goto, fsVars, callVars
<1>1. ASSUME NEW p \in Procs, Call(p)
      PROVE  TypeOK'
  BY <1>1 DEF Call
<1>2. ASSUME NEW p \in Procs, CacheHit(p) \/ CacheMiss(p) \/ HashMatches(p)
      PROVE  TypeOK'
  BY <1>2 DEF CacheHit, CacheMiss, HashMatches
<1>3. ASSUME NEW p \in Procs, OpenPending(p)
      PROVE  TypeOK'
  <2>1. <<>> \in Seq(Block)
    OBVIOUS
  <2>2. PICK i \in Inodes : /\ pending' = i
                            /\ contents' = [contents EXCEPT ![i] = <<>>]
                            /\ output' = [output EXCEPT ![p] = i]
    BY <1>3 DEF OpenPending
  <2>3. contents' \in [Inodes -> Seq(Block)] /\ output' \in [Procs -> Inodes \cup {None}]
    BY <2>1, <2>2
  <2>4. faults' \in 0..MaxFaults /\ body' \in [Procs -> {"pin", "other"}]
    BY <1>3, FaultType DEF OpenPending
  <2> QED
    BY <1>3, <2>2, <2>3, <2>4 DEF OpenPending
<1>4. ASSUME NEW p \in Procs, WriteBlock(p)
      PROVE  TypeOK'
  <2>1. body[p] \in Block /\ offset[p] + 1 \in 1..Blocks
    BY <1>4 DEF WriteBlock, Block
  <2>2. \A i \in Inodes : Written(contents[i], offset[p] + 1, body[p]) \in Seq(Block)
    BY <2>1, WrittenType
  <2>3. contents' \in [Inodes -> Seq(Block)]
    BY <1>4, <2>2 DEF WriteBlock
  <2> QED
    BY <1>4, <2>1, <2>3 DEF WriteBlock
<1>5. ASSUME NEW p \in Procs, EndOfBody(p)
      PROVE  TypeOK'
  BY <1>5, FaultType DEF EndOfBody
<1>6. ASSUME NEW p \in Procs, Publish(p)
      PROVE  TypeOK'
  BY <1>6 DEF Publish
<1>7. ASSUME NEW p \in Procs, Rejected(p) \/ Fails(p)
      PROVE  TypeOK'
  BY <1>7, FaultType DEF Rejected, Fails, Unwind
<1>8. ASSUME NEW p \in Procs, Discard(p) \/ DiscardFails(p)
      PROVE  TypeOK'
  BY <1>8, FaultType DEF Discard, DiscardFails
<1>9. ASSUME NEW p \in Procs, ProbeFails(p)
      PROVE  TypeOK'
  BY <1>9, FaultType DEF ProbeFails
<1>10. ASSUME NEW p \in Procs, Crash(p)
       PROVE  TypeOK'
  BY <1>10, FaultType DEF Crash
<1>11. CASE UNCHANGED vars
  BY <1>11 DEF vars
<1> QED
  BY <1>1, <1>2, <1>3, <1>4, <1>5, <1>6, <1>7, <1>8, <1>9, <1>10, <1>11
  DEF Next, Progress, Trouble

LEMMA TypeInit == Init => TypeOK
<1> SUFFICES ASSUME Init
             PROVE  TypeOK
  OBVIOUS
<1>1. <<>> \in Seq(Block) /\ <<"other">> \in Seq(Block)
  BY DEF Block
<1>2. contents \in [Inodes -> Seq(Block)]
  BY <1>1 DEF Init
<1> QED
  BY <1>2, StoreAssumption DEF Init, TypeOK, Stages, Resting

\* Type correctness of the store for any number of installers: every name
\* denotes an inode or nothing, every inode holds a file of blocks.
THEOREM TypeCorrect == Spec => []TypeOK
<1>1. Init => TypeOK
  BY TypeInit
<1>2. TypeOK /\ [Next]_vars => TypeOK'
  BY TypeStep
<1> QED
  BY <1>1, <1>2, PTL DEF Spec

--------------------------------------------------------------------------------

LEMMA InvInit == Init => IInv
<1> SUFFICES ASSUME Init
             PROVE  IInv
  OBVIOUS
<1>1. TypeOK
  BY TypeInit
<1> QED
  BY <1>1 DEF Init, IInv, Names, Writers, Flags, Missing, Hashed, Settled,
              ReturnedIsVerified, NothingPendingBesideAsset

\* With one installer at a time the invariant is inductive.
LEMMA InvStep ==
  ASSUME SoleInstaller
  PROVE  IInv /\ [Next]_vars => IInv'
<1> SUFFICES ASSUME IInv, [Next]_vars
             PROVE  IInv'
  OBVIOUS
<1>1. TypeOK'
  BY TypeStep DEF IInv
<1> USE <1>1, StoreAssumption
    DEF IInv, Names, Writers, Flags, Missing, Hashed, Settled,
        ReturnedIsVerified, NothingPendingBesideAsset, Stored,
        Goto, fsVars, callVars, TypeOK, SoleInstaller
<1>2. ASSUME NEW p \in Procs, Call(p)
      PROVE  IInv'
  BY <1>2 DEF Call, Resting
<1>3. ASSUME NEW p \in Procs, CacheHit(p)
      PROVE  IInv'
  BY <1>3 DEF CacheHit
<1>4. ASSUME NEW p \in Procs, CacheMiss(p)
      PROVE  IInv'
  BY <1>4 DEF CacheMiss
<1>5. ASSUME NEW p \in Procs, OpenPending(p)
      PROVE  IInv'
  BY <1>5 DEF OpenPending, Unused
<1>6. ASSUME NEW p \in Procs, WriteBlock(p)
      PROVE  IInv'
  BY <1>6 DEF WriteBlock
<1>7. ASSUME NEW p \in Procs, EndOfBody(p)
      PROVE  IInv'
  BY <1>7 DEF EndOfBody
<1>8. ASSUME NEW p \in Procs, HashMatches(p)
      PROVE  IInv'
  BY <1>8 DEF HashMatches
<1>9. ASSUME NEW p \in Procs, Publish(p)
      PROVE  IInv'
  BY <1>9 DEF Publish
<1>10. ASSUME NEW p \in Procs, Rejected(p) \/ Fails(p)
       PROVE  IInv'
  BY <1>10 DEF Rejected, Fails, Unwind
<1>11. ASSUME NEW p \in Procs, Discard(p)
       PROVE  IInv'
  BY <1>11 DEF Discard
<1>12. ASSUME NEW p \in Procs, DiscardFails(p)
       PROVE  IInv'
  BY <1>12 DEF DiscardFails
<1>13. ASSUME NEW p \in Procs, ProbeFails(p)
       PROVE  IInv'
  BY <1>13 DEF ProbeFails
<1>14. ASSUME NEW p \in Procs, Crash(p)
       PROVE  IInv'
  BY <1>14 DEF Crash
<1>15. CASE UNCHANGED vars
  BY <1>15 DEF vars
<1> QED
  BY <1>2, <1>3, <1>4, <1>5, <1>6, <1>7, <1>8, <1>9, <1>10, <1>11, <1>12,
     <1>13, <1>14, <1>15
  DEF Next, Progress, Trouble

THEOREM Invariance ==
  ASSUME SoleInstaller
  PROVE  Spec => []IInv
<1>1. Init => IInv
  BY InvInit
<1>2. IInv /\ [Next]_vars => IInv'
  BY InvStep
<1> QED
  BY <1>1, <1>2, PTL DEF Spec

\* A call that returns has left the verified asset at the final path, after
\* any number of failures and crashes (download_pinned).
THEOREM ReturnsVerified ==
  ASSUME SoleInstaller
  PROVE  Spec => []ReturnedIsVerified
<1>1. IInv => ReturnedIsVerified
  BY DEF IInv
<1> QED
  BY <1>1, Invariance, PTL

\* No pending file is left beside the verified asset (_pending_download).
THEOREM NothingPending ==
  ASSUME SoleInstaller
  PROVE  Spec => []NothingPendingBesideAsset
<1>1. IInv => NothingPendingBesideAsset
  BY DEF IInv
<1> QED
  BY <1>1, Invariance, PTL

--------------------------------------------------------------------------------

\* What a step may do to the final path and to the calls, by action: the
\* refinement and NeverPartial both rest on it.
Mapped == [p \in Procs |-> IF pc[p] \in Stages THEN "working" ELSE pc[p]]

LEMMA StepSimulation ==
  ASSUME IInv, SoleInstaller, [Next]_vars
  PROVE  [Store!StoreNext]_<<Stored, Mapped>>
<1> USE DEF IInv, TypeOK, Stages, Resting, Goto, fsVars, callVars, Stored, Mapped,
            SoleInstaller
<1>1. ASSUME NEW p \in Procs, Call(p)
      PROVE  Store!Call(p)
  BY <1>1 DEF Call, Store!Call, Store!Move
<1>2. ASSUME NEW p \in Procs, CacheHit(p)
      PROVE  Store!Return(p)
  BY <1>2 DEF CacheHit, Store!Return, Store!Move
<1>3. ASSUME NEW p \in Procs, CacheMiss(p) \/ EndOfBody(p) \/ HashMatches(p)
      PROVE  UNCHANGED <<Stored, Mapped>>
  BY <1>3 DEF CacheMiss, EndOfBody, HashMatches
<1>4. ASSUME NEW p \in Procs, OpenPending(p)
      PROVE  UNCHANGED <<Stored, Mapped>>
  BY <1>4 DEF OpenPending, Unused, Names
<1>5. ASSUME NEW p \in Procs, WriteBlock(p)
      PROVE  UNCHANGED <<Stored, Mapped>>
  BY <1>5 DEF WriteBlock, Writers, Names
<1>6. ASSUME NEW p \in Procs, Publish(p)
      PROVE  Store!Replace(p)
  BY <1>6, StoreAssumption DEF Publish, Hashed, Store!Replace
<1>7. ASSUME NEW p \in Procs, Rejected(p) \/ Fails(p)
      PROVE  UNCHANGED <<Stored, Mapped>>
  BY <1>7 DEF Rejected, Fails, Unwind
<1>8. ASSUME NEW p \in Procs, Discard(p)
      PROVE  Store!Return(p) \/ Store!Raise(p)
  BY <1>8 DEF Discard, Settled, Store!Return, Store!Raise, Store!Move
<1>9. ASSUME NEW p \in Procs, DiscardFails(p) \/ ProbeFails(p)
      PROVE  Store!Raise(p)
  BY <1>9 DEF DiscardFails, ProbeFails, Store!Raise, Store!Move
<1>10. ASSUME NEW p \in Procs, Crash(p)
       PROVE  Store!Die(p)
  BY <1>10 DEF Crash, Store!Die, Store!Move
<1>11. CASE UNCHANGED vars
  BY <1>11 DEF vars
<1> QED
  BY <1>1, <1>2, <1>3, <1>4, <1>5, <1>6, <1>7, <1>8, <1>9, <1>10, <1>11
  DEF Next, Progress, Trouble, Store!StoreNext

\* The final path changes only to the whole pinned asset: no installer that
\* works alone ever shows a partial file there (_publish_verified).
THEOREM FinalPathNeverPartial ==
  ASSUME SoleInstaller
  PROVE  Spec => NeverPartial
<1>1. IInv /\ [Next]_vars => [Stored' # Stored => Stored' = Pinned]_vars
  <2> SUFFICES ASSUME IInv, [Next]_vars
               PROVE  Stored' # Stored => Stored' = Pinned
    OBVIOUS
  <2>1. [Store!StoreNext]_<<Stored, Mapped>>
    BY StepSimulation
  <2> QED
    BY <2>1 DEF Store!StoreNext, Store!Call, Store!Replace, Store!Return,
                Store!Raise, Store!Die
<1> QED
  BY <1>1, Invariance, PTL DEF Spec, NeverPartial

\* DownloadStore implements VerifiedStore: the pending file, the transfer and
\* the clean-up never show at the final path (download_pinned).
THEOREM ImplementsVerifiedStore ==
  ASSUME SoleInstaller
  PROVE  Spec => StoreSpec
<1>1. Init => Store!StoreInit
  BY DEF Init, Store!StoreInit, Stored, Stages
<1>2. IInv /\ [Next]_vars => [Store!StoreNext]_(Store!storeVars)
  BY StepSimulation DEF Store!storeVars, Mapped
<1> QED
  BY <1>1, <1>2, Invariance, PTL DEF Spec, StoreSpec, Store!StoreSpec
================================================================================
