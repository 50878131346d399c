--------------------------- MODULE StoreLockProofs ---------------------------
(***************************************************************************)
(* The lock protocol is correct for any number of openers, inodes, rounds   *)
(* and replacements.  MutualExclusion is not inductive: it needs that the   *)
(* kernel's table agrees with the openers' program counters (LockInv), and  *)
(* that a handle's inode is the one at the path.  EndsForAReason needs the  *)
(* account of replacements kept by ChurnInv, and what each call has met,    *)
(* MetInv.                                                                  *)
(***************************************************************************)
EXTENDS StoreLock, TLAPS

LockInv ==
  /\ \A o \in Openers : pc[o] \in {"verify", "held"} => flock[fd[o]] = o
  /\ NoLeakedLock
  /\ \A o \in Openers : Held(o) => path = fd[o]

ChurnInv ==
  \A o \in Openers :
    /\ since[o] <= replaced
    /\ pc[o] \in Calling => tries[o] < MaxTries /\ tries[o] <= replaced - since[o]
    /\ fd[o] \notin {None, path} => tries[o] + 1 <= replaced - since[o]
    /\ pc[o] = "gaveup" => MaxTries <= replaced - since[o]

\* What each call has met explains where it is: the state of the directory now
\* is among it, and so is the one that its first open was denied in.
MetInv ==
  \A o \in Openers :
    /\ pc[o] \in Calling => Chance(dir, path) \in met[o]
    /\ pc[o] = "reopen" =>
         /\ path # None \/ "barred" \in met[o] \/ since[o] < replaced
         /\ path = None \/ "lockable" \in met[o]
    /\ pc[o] = "lockless" => "barred" \in met[o] \/ since[o] < replaced
    /\ pc[o] \in {"lock", "verify", "held", "refused", "gaveup"} => "lockable" \in met[o]

LEMMA InitTypeOK == Init => TypeOK
  BY NoneAssumption, TriesAssumption DEF Init, TypeOK, Calling, Outcomes

\* Every step keeps the descriptors in step with the program counters.
LEMMA StepTypeOK == TypeOK /\ ChurnInv /\ [Next]_vars => TypeOK'
<1> SUFFICES ASSUME TypeOK, ChurnInv, [Next]_vars PROVE TypeOK'
  OBVIOUS
<1> USE NoneAssumption, TriesAssumption DEF TypeOK, Calling, Outcomes
<1>1. ASSUME NEW o \in Openers, Call(o) PROVE TypeOK'
  BY <1>1 DEF Call, Chance
<1>2. ASSUME NEW o \in Openers, OpenExisting(o) PROVE TypeOK'
  BY <1>2 DEF OpenExisting
<1>3. ASSUME NEW o \in Openers, CreateLockFile(o) PROVE TypeOK'
  BY <1>3 DEF CreateLockFile, FreeInodes
<1>4. ASSUME NEW o \in Openers, OpenDenied(o) PROVE TypeOK'
  BY <1>4 DEF OpenDenied
<1>5. ASSUME NEW o \in Openers, OpenReadOnlyFs(o) PROVE TypeOK'
  BY <1>5 DEF OpenReadOnlyFs
<1>6. ASSUME NEW o \in Openers, Reopen(o) PROVE TypeOK'
  BY <1>6 DEF Reopen
<1>7. ASSUME NEW o \in Openers, TryLock(o) PROVE TypeOK'
  BY <1>7 DEF TryLock
<1>8. ASSUME NEW o \in Openers, WouldBlock(o) PROVE TypeOK'
  BY <1>8 DEF WouldBlock, CloseFile
<1>9. ASSUME NEW o \in Openers, VerifySame(o) PROVE TypeOK'
  BY <1>9 DEF VerifySame
<1>10. ASSUME NEW o \in Openers, VerifyReplaced(o) PROVE TypeOK'
  <2>1. tries[o] < MaxTries
    BY <1>10 DEF ChurnInv, VerifyReplaced
  <2>2. tries' \in [Openers -> 0..MaxTries]
    BY <1>10, <2>1 DEF VerifyReplaced
  <2>3. QED
    BY <1>10, <2>2 DEF VerifyReplaced, CloseFile
<1>11. ASSUME NEW o \in Openers, IoError(o) PROVE TypeOK'
  BY <1>11 DEF IoError, CloseFile
<1>12. ASSUME NEW o \in Openers, Close(o) PROVE TypeOK'
  BY <1>12 DEF Close, CloseFile
<1>13. CASE Replace
  BY <1>13 DEF Replace, FreeInodes, Witnessed, Chance
<1>14. CASE ChangeDir
  BY <1>14, DirAssumption DEF ChangeDir, Witnessed, Chance
<1>15. CASE UNCHANGED vars
  BY <1>15 DEF vars
<1>16. QED
  BY <1>1, <1>2, <1>3, <1>4, <1>5, <1>6, <1>7, <1>8, <1>9, <1>10, <1>11, <1>12,
     <1>13, <1>14, <1>15 DEF Next, Step

\* The kernel's table names exactly the openers that verify or hold.
LEMMA StepLockInv == TypeOK /\ LockInv /\ [Next]_vars => LockInv'
<1> SUFFICES ASSUME TypeOK, LockInv, [Next]_vars PROVE LockInv'
  OBVIOUS
<1> USE NoneAssumption DEF TypeOK, LockInv, NoLeakedLock, Held
<1>1. ASSUME NEW o \in Openers, Call(o) PROVE LockInv'
  BY <1>1 DEF Call
<1>2. ASSUME NEW o \in Openers, OpenExisting(o) PROVE LockInv'
  BY <1>2 DEF OpenExisting
<1>3. ASSUME NEW o \in Openers, CreateLockFile(o) PROVE LockInv'
  BY <1>3 DEF CreateLockFile, FreeInodes
<1>4. ASSUME NEW o \in Openers, OpenDenied(o) PROVE LockInv'
  BY <1>4 DEF OpenDenied
<1>5. ASSUME NEW o \in Openers, OpenReadOnlyFs(o) PROVE LockInv'
  BY <1>5 DEF OpenReadOnlyFs
<1>6. ASSUME NEW o \in Openers, Reopen(o) PROVE LockInv'
  BY <1>6 DEF Reopen
<1>7. ASSUME NEW o \in Openers, TryLock(o) PROVE LockInv'
  BY <1>7 DEF TryLock
<1>8. ASSUME NEW o \in Openers, WouldBlock(o) PROVE LockInv'
  BY <1>8 DEF WouldBlock, CloseFile
<1>9. ASSUME NEW o \in Openers, VerifySame(o) PROVE LockInv'
  BY <1>9 DEF VerifySame
<1>10. ASSUME NEW o \in Openers, VerifyReplaced(o) PROVE LockInv'
  BY <1>10 DEF VerifyReplaced, CloseFile
<1>11. ASSUME NEW o \in Openers, IoError(o) PROVE LockInv'
  BY <1>11 DEF IoError, CloseFile, Calling
<1>12. ASSUME NEW o \in Openers, Close(o) PROVE LockInv'
  BY <1>12 DEF Close, CloseFile
<1>13. CASE Replace
  BY <1>13 DEF Replace
<1>14. CASE ChangeDir
  BY <1>14 DEF ChangeDir
<1>15. CASE UNCHANGED vars
  BY <1>15 DEF vars
<1>16. QED
  BY <1>1, <1>2, <1>3, <1>4, <1>5, <1>6, <1>7, <1>8, <1>9, <1>10, <1>11, <1>12,
     <1>13, <1>14, <1>15 DEF Next, Step

\* Each round a call has lost is paid for by a replacement during that call.
LEMMA StepChurnInv == TypeOK /\ LockInv /\ ChurnInv /\ [Next]_vars => ChurnInv'
<1> SUFFICES ASSUME TypeOK, LockInv, ChurnInv, [Next]_vars PROVE ChurnInv'
  OBVIOUS
<1> USE NoneAssumption, TriesAssumption DEF TypeOK, ChurnInv, Calling
<1>1. ASSUME NEW o \in Openers, Call(o) PROVE ChurnInv'
  BY <1>1 DEF Call
<1>2. ASSUME NEW o \in Openers, OpenExisting(o) PROVE ChurnInv'
  BY <1>2 DEF OpenExisting
<1>3. ASSUME NEW o \in Openers, CreateLockFile(o) PROVE ChurnInv'
  BY <1>3 DEF CreateLockFile, FreeInodes
<1>4. ASSUME NEW o \in Openers, OpenDenied(o) PROVE ChurnInv'
  BY <1>4 DEF OpenDenied
<1>5. ASSUME NEW o \in Openers, OpenReadOnlyFs(o) PROVE ChurnInv'
  BY <1>5 DEF OpenReadOnlyFs
<1>6. ASSUME NEW o \in Openers, Reopen(o) PROVE ChurnInv'
  BY <1>6 DEF Reopen
<1>7. ASSUME NEW o \in Openers, TryLock(o) PROVE ChurnInv'
  BY <1>7 DEF TryLock
<1>8. ASSUME NEW o \in Openers, WouldBlock(o) PROVE ChurnInv'
  BY <1>8 DEF WouldBlock, CloseFile
<1>9. ASSUME NEW o \in Openers, VerifySame(o) PROVE ChurnInv'
  BY <1>9 DEF VerifySame
<1>10. ASSUME NEW o \in Openers, VerifyReplaced(o) PROVE ChurnInv'
  BY <1>10 DEF VerifyReplaced, CloseFile
<1>11. ASSUME NEW o \in Openers, IoError(o) PROVE ChurnInv'
  BY <1>11 DEF IoError, CloseFile
<1>12. ASSUME NEW o \in Openers, Close(o) PROVE ChurnInv'
  BY <1>12 DEF Close, CloseFile
<1>13. CASE Replace
  BY <1>13 DEF Replace
<1>14. CASE ChangeDir
  BY <1>14 DEF ChangeDir
<1>15. CASE UNCHANGED vars
  BY <1>15 DEF vars
<1>16. QED
  BY <1>1, <1>2, <1>3, <1>4, <1>5, <1>6, <1>7, <1>8, <1>9, <1>10, <1>11, <1>12,
     <1>13, <1>14, <1>15 DEF Next, Step

\* Each call goes on from what it has met.
LEMMA StepMetInv == TypeOK /\ ChurnInv /\ MetInv /\ [Next]_vars => MetInv'
<1> SUFFICES ASSUME TypeOK, ChurnInv, MetInv, [Next]_vars PROVE MetInv'
  OBVIOUS
<1> USE NoneAssumption, TriesAssumption, DirAssumption DEF TypeOK, MetInv, Calling, Chance
<1>1. ASSUME NEW o \in Openers, Call(o) PROVE MetInv'
  BY <1>1 DEF Call
<1>2. ASSUME NEW o \in Openers, OpenExisting(o) PROVE MetInv'
  BY <1>2 DEF OpenExisting
<1>3. ASSUME NEW o \in Openers, CreateLockFile(o) PROVE MetInv'
  BY <1>3 DEF CreateLockFile
<1>4. ASSUME NEW o \in Openers, OpenDenied(o) PROVE MetInv'
  BY <1>4 DEF OpenDenied
<1>5. ASSUME NEW o \in Openers, OpenReadOnlyFs(o) PROVE MetInv'
  BY <1>5 DEF OpenReadOnlyFs
<1>6. ASSUME NEW o \in Openers, Reopen(o) PROVE MetInv'
  BY <1>6 DEF Reopen
<1>7. ASSUME NEW o \in Openers, TryLock(o) PROVE MetInv'
  BY <1>7 DEF TryLock
<1>8. ASSUME NEW o \in Openers, WouldBlock(o) PROVE MetInv'
  BY <1>8 DEF WouldBlock
<1>9. ASSUME NEW o \in Openers, VerifySame(o) PROVE MetInv'
  BY <1>9 DEF VerifySame
<1>10. ASSUME NEW o \in Openers, VerifyReplaced(o) PROVE MetInv'
  BY <1>10 DEF VerifyReplaced
<1>11. ASSUME NEW o \in Openers, IoError(o) PROVE MetInv'
  BY <1>11 DEF IoError
<1>12. ASSUME NEW o \in Openers, Close(o) PROVE MetInv'
  BY <1>12 DEF Close, Outcomes
<1>13. CASE Replace
  BY <1>13 DEF Replace, ChurnInv, Witnessed
<1>14. CASE ChangeDir
  BY <1>14 DEF ChangeDir, Witnessed
<1>15. CASE UNCHANGED vars
  BY <1>15 DEF vars
<1>16. QED
  BY <1>1, <1>2, <1>3, <1>4, <1>5, <1>6, <1>7, <1>8, <1>9, <1>10, <1>11, <1>12,
     <1>13, <1>14, <1>15 DEF Next, Step

LEMMA Invariance == Spec => [](TypeOK /\ LockInv /\ ChurnInv /\ MetInv)
<1>1. Init => TypeOK /\ LockInv /\ ChurnInv /\ MetInv
  <2> SUFFICES ASSUME Init PROVE TypeOK /\ LockInv /\ ChurnInv /\ MetInv
    OBVIOUS
  <2>1. TypeOK
    BY InitTypeOK
  <2>2. LockInv
    BY NoneAssumption DEF Init, LockInv, NoLeakedLock, Held
  <2>3. ChurnInv
    <3>1. ASSUME NEW o \in Openers
          PROVE  /\ since[o] = 0 /\ replaced = 0 /\ tries[o] = 0
                 /\ pc[o] = "idle" /\ fd[o] = None
      BY DEF Init
    <3>2. ASSUME NEW o \in Openers
          PROVE  since[o] <= replaced
      BY <3>1
    <3>3. QED
      BY <3>1, <3>2 DEF ChurnInv, Calling
  <2>4. MetInv
    BY DEF Init, MetInv, Calling
  <2>5. QED
    BY <2>1, <2>2, <2>3, <2>4
<1>2. QED
  BY <1>1, StepTypeOK, StepLockInv, StepChurnInv, StepMetInv, PTL DEF Spec

\* Every program counter, descriptor and inode of take_lock stays in its type.
THEOREM TypeTheorem == Spec => []TypeOK
BY Invariance, PTL

\* One handle per store file at a time, whatever replaces the lock file while
\* openers are between open, flock and the second look at the path.
THEOREM MutexTheorem == Spec => []MutualExclusion
<1>1. TypeOK /\ LockInv => MutualExclusion
  BY DEF LockInv, MutualExclusion, Held
<1>2. QED
  BY <1>1, Invariance, PTL

\* A handle's lock is one the next opener meets at the path.
THEOREM VisibleTheorem == Spec => []HeldIsVisible
<1>1. TypeOK /\ LockInv => HeldIsVisible
  BY DEF LockInv, HeldIsVisible, Held
<1>2. QED
  BY <1>1, Invariance, PTL

\* A call that ended without the lock leaves no kernel lock behind.
THEOREM NoLeakTheorem == Spec => []NoLeakedLock
<1>1. LockInv => NoLeakedLock
  BY DEF LockInv
<1>2. QED
  BY <1>1, Invariance, PTL

\* A call gives up, goes on without a lock, or has the lock or is refused it,
\* for something that happened during that call.
THEOREM ReasonTheorem == Spec => []EndsForAReason
<1>1. TypeOK /\ ChurnInv => GaveUpMeansChurn
  BY TriesAssumption DEF TypeOK, ChurnInv, GaveUpMeansChurn
<1>2. MetInv => LocklessMeansUnlockable /\ LockedMeansLockable
  BY DEF MetInv, LocklessMeansUnlockable, LockedMeansLockable
<1>3. QED
  BY <1>1, <1>2, Invariance, PTL DEF EndsForAReason

\* The flock protocol implements the abstract lock: its only visible steps are
\* a successful second look at the path and the close of a handle.
THEOREM RefinementTheorem == Spec => ImplementsLock
<1> DEFINE H == {o \in Openers : Held(o)}
<1>1. Init => Lock!Init
  BY DEF Init, Lock!Init, Held
<1>2. TypeOK /\ MutualExclusion' /\ [Next]_vars => [Lock!Next]_H
  <2> SUFFICES ASSUME TypeOK, MutualExclusion', [Next]_vars
               PROVE  [Lock!Next]_H
    OBVIOUS
  <2> USE DEF TypeOK, Held
  <2>1. ASSUME NEW o \in Openers, VerifySame(o) PROVE Lock!Acquire(o)
    <3>1. pc' = [pc EXCEPT ![o] = "held"] /\ pc[o] = "verify"
      BY <2>1 DEF VerifySame
    <3>2. \A p \in Openers : pc'[p] = "held" => p = o
      BY <3>1 DEF MutualExclusion
    <3>3. \A p \in Openers : pc[p] # "held"
      BY <3>1, <3>2
    <3>4. QED
      BY <3>1, <3>2, <3>3 DEF Lock!Acquire
  <2>2. ASSUME NEW o \in Openers, Close(o) PROVE Lock!Release(o) \/ UNCHANGED H
    BY <2>2 DEF Close, Lock!Release
  <2>3. ASSUME NEW o \in Openers,
               Call(o) \/ OpenExisting(o) \/ CreateLockFile(o) \/ OpenDenied(o)
                 \/ OpenReadOnlyFs(o) \/ Reopen(o) \/ TryLock(o) \/ WouldBlock(o)
                 \/ VerifyReplaced(o) \/ IoError(o)
        PROVE  UNCHANGED H
    BY <2>3 DEF Call, OpenExisting, CreateLockFile, OpenDenied, OpenReadOnlyFs,
                Reopen, TryLock, WouldBlock, VerifyReplaced, IoError, Calling
  <2>4. CASE Replace \/ ChangeDir \/ UNCHANGED vars
    BY <2>4 DEF Replace, ChangeDir, vars
  <2>5. QED
    BY <2>1, <2>2, <2>3, <2>4 DEF Next, Step, Lock!Next
<1>3. QED
  BY <1>1, <1>2, Invariance, MutexTheorem, PTL DEF Spec, ImplementsLock, Lock!Spec
=============================================================================
