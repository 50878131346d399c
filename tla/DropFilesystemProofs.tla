------------------------ MODULE DropFilesystemProofs ------------------------
(***************************************************************************)
(* What one caller of drop_filesystem can rely on, for any directories, any *)
(* swaps of the path and any number of calls.  With a second thread in the  *)
(* call NeverOutsideRoot does not hold: it may step back (ffi.rs:329) after *)
(* the other has changed the root.                                          *)
(***************************************************************************)
EXTENDS DropFilesystem, TLAPS

\* Only one thread calls drop_filesystem.
OneCaller == \E t \in Threads : Threads = {t}

Inside == {"check", "chroot", "step_back"}
Opened == {"read_dir", "open_here", "open_target", "step_in"} \cup Inside

\* Where the process stands at each step, for the thread in the call.
PlaceInv ==
  /\ root # Slash => cwd = root
  /\ \A t \in Threads :
       /\ pc[t] \in Opened => root = Slash
       /\ pc[t] \in Inside => cwd = target[t]
       /\ pc[t] \in Running \ Inside => cwd = stood[t]
       /\ here[t] # None => here[t] = stood[t]

\* What is empty now was empty during the call, and so is what passed the check.
EmptyInv ==
  \A t \in Threads :
    /\ pc[t] \in Running => Dirs \ filled \subseteq wasEmpty[t]
    /\ pc[t] = "chroot" => cwd \in wasEmpty[t]

IInv == TypeOK /\ PlaceInv /\ EmptyInv

\* The initial states satisfy the invariant.
LEMMA InitIInv == Init => IInv
  BY DirsAssumption, BoundsAssumption
  DEF Init, IInv, TypeOK, PlaceInv, EmptyInv, Opened, Inside, Running, Ended

\* Types are kept by every step, whoever calls.
LEMMA TypeStep == TypeOK /\ [Next]_vars => TypeOK'
<1> SUFFICES ASSUME TypeOK, [Next]_vars PROVE TypeOK'
  OBVIOUS
<1> USE DirsAssumption, BoundsAssumption DEF TypeOK, Running, Ended
<1>1. CASE Swap
  BY <1>1 DEF Swap
<1>2. CASE Fill
  BY <1>2 DEF Fill
<1>3. ASSUME NEW t \in Threads, DropStep(t) PROVE TypeOK'
  <2>1. CASE Call(t)
    BY <2>1 DEF Call, GoTo
  <2>2. CASE Metadata(t) \/ ReadDir(t) \/ Check(t) \/ FailsInside(t)
    BY <2>2 DEF Metadata, ReadDir, Check, FailsInside, GoTo
  <2>3. CASE OpenHere(t)
    BY <2>3 DEF OpenHere, GoTo
  <2>4. CASE OpenTarget(t)
    BY <2>4 DEF OpenTarget, GoTo
  <2>5. CASE StepIn(t)
    BY <2>5 DEF StepIn, GoTo
  <2>6. CASE FailsEarly(t) \/ StepBackFails(t)
    BY <2>6 DEF FailsEarly, StepBackFails, Return, GoTo
  <2>7. CASE Chroot(t)
    BY <2>7 DEF Chroot, Return, GoTo
  <2>8. CASE StepBack(t)
    BY <2>8 DEF StepBack, Return, GoTo
  <2>9. QED
    BY <1>3, <2>1, <2>2, <2>3, <2>4, <2>5, <2>6, <2>7, <2>8 DEF DropStep
<1>4. CASE UNCHANGED vars
  BY <1>4 DEF vars
<1>5. QED
  BY <1>1, <1>2, <1>3, <1>4 DEF Next

\* One caller: the place is kept by every step of its call.
LEMMA PlaceStep ==
  ASSUME OneCaller, TypeOK, PlaceInv, [Next]_vars
  PROVE  PlaceInv'
<1> USE DirsAssumption DEF TypeOK, PlaceInv, Running, Ended, Inside, Opened
<1>1. CASE Swap \/ Fill
  BY <1>1 DEF Swap, Fill
<1>2. ASSUME NEW t \in Threads, DropStep(t) PROVE PlaceInv'
  <2>0. Threads = {t}
    BY DEF OneCaller
  <2>1. CASE Call(t)
    BY <2>0, <2>1 DEF Call, GoTo
  <2>2. CASE Metadata(t)
    BY <2>0, <2>2 DEF Metadata, Named, GoTo
  <2>3. CASE ReadDir(t) \/ Check(t) \/ FailsInside(t)
    BY <2>0, <2>3 DEF ReadDir, Check, FailsInside, GoTo
  <2>4. CASE OpenHere(t)
    BY <2>0, <2>4 DEF OpenHere, GoTo
  <2>5. CASE OpenTarget(t)
    BY <2>0, <2>5 DEF OpenTarget, GoTo
  <2>6. CASE StepIn(t)
    BY <2>0, <2>6 DEF StepIn, GoTo
  <2>7. CASE FailsEarly(t) \/ StepBackFails(t)
    BY <2>0, <2>7 DEF FailsEarly, StepBackFails, Return, GoTo
  <2>8. CASE Chroot(t)
    BY <2>0, <2>8 DEF Chroot, Return, GoTo
  <2>9. CASE StepBack(t)
    BY <2>0, <2>9 DEF StepBack, Return, GoTo
  <2>10. QED
    BY <1>2, <2>1, <2>2, <2>3, <2>4, <2>5, <2>6, <2>7, <2>8, <2>9 DEF DropStep
<1>3. CASE UNCHANGED vars
  BY <1>3 DEF vars
<1>4. QED
  BY <1>1, <1>2, <1>3 DEF Next

\* One caller: what others fill or empty, and the check, keep EmptyInv.
LEMMA EmptyStep ==
  ASSUME OneCaller, TypeOK, EmptyInv, [Next]_vars
  PROVE  EmptyInv'
<1> USE DirsAssumption DEF TypeOK, EmptyInv, Running, Ended
<1>1. CASE Swap
  BY <1>1 DEF Swap
<1>2. CASE Fill
  BY <1>2 DEF Fill
<1>3. ASSUME NEW t \in Threads, DropStep(t) PROVE EmptyInv'
  <2>0. Threads = {t}
    BY DEF OneCaller
  <2>1. CASE Call(t)
    BY <2>0, <2>1 DEF Call, GoTo
  <2>2. CASE Metadata(t) \/ ReadDir(t) \/ OpenHere(t) \/ OpenTarget(t) \/ StepIn(t)
    BY <2>0, <2>2 DEF Metadata, ReadDir, OpenHere, OpenTarget, StepIn, GoTo
  <2>3. CASE Check(t) \/ FailsInside(t)
    BY <2>0, <2>3 DEF Check, FailsInside, GoTo
  <2>4. CASE FailsEarly(t) \/ Chroot(t) \/ StepBack(t) \/ StepBackFails(t)
    BY <2>0, <2>4 DEF FailsEarly, Chroot, StepBack, StepBackFails, Return, GoTo
  <2>5. QED
    BY <1>3, <2>1, <2>2, <2>3, <2>4 DEF DropStep
<1>4. CASE UNCHANGED vars
  BY <1>4 DEF vars
<1>5. QED
  BY <1>1, <1>2, <1>3, <1>4 DEF Next

\* Types hold for any number of threads.
THEOREM TypeTheorem == Spec => []TypeOK
<1>1. Init => TypeOK
  BY InitIInv DEF IInv
<1>2. QED
  BY <1>1, TypeStep, PTL DEF Spec

\* The inductive invariant of one caller.
THEOREM InvTheorem == ASSUME OneCaller PROVE Spec => []IInv
<1>1. IInv /\ [Next]_vars => IInv'
  BY OneCaller, TypeStep, PlaceStep, EmptyStep DEF IInv
<1>2. QED
  BY <1>1, InitIInv, PTL DEF Spec

\* One caller never leaves the process outside its own root, whichever step
\* fails and however often the call is repeated.
THEOREM InsideRootTheorem == ASSUME OneCaller PROVE Spec => []NeverOutsideRoot
<1>1. IInv => NeverOutsideRoot
  BY DEF IInv, PlaceInv, NeverOutsideRoot
<1>2. QED
  BY OneCaller, <1>1, InvTheorem, PTL

\* One caller only makes a directory the root that was empty during the call.
THEOREM RootWasEmptyTheorem == ASSUME OneCaller PROVE Spec => RootWasEmpty
<1> DEFINE Good == root' # root => \E t \in Threads : pc[t] = "chroot" /\ root' \in wasEmpty[t]
<1>1. IInv /\ [Next]_vars => Good \/ UNCHANGED vars
  <2> SUFFICES ASSUME IInv, Next, root' # root PROVE Good
    BY DEF vars
  <2>1. PICK t \in Threads : DropStep(t)
    BY DEF Next, Swap, Fill
  <2>2. Chroot(t)
    BY <2>1 DEF DropStep, Call, Metadata, ReadDir, OpenHere, OpenTarget, StepIn, FailsEarly,
                Check, FailsInside, StepBack, StepBackFails
  <2>3. QED
    BY <2>2 DEF Chroot, IInv, EmptyInv
<1>2. QED
  BY OneCaller, <1>1, InvTheorem, PTL DEF Spec, RootWasEmpty

\* One caller that gets Err has the root it had and stands where it stood, or
\* is told that it does not.
THEOREM ErrTheorem == ASSUME OneCaller PROVE Spec => ErrChangesNothing
<1> DEFINE Good == \A t \in Threads :
                     pc[t] \in Running =>
                       /\ pc'[t] = "err" => root' = root /\ cwd' = stood[t]
                       /\ pc'[t] = "err_away" => root' = root
<1>1. IInv /\ [Next]_vars => Good \/ UNCHANGED vars
  <2> SUFFICES ASSUME IInv, Next, NEW t \in Threads, pc[t] \in Running
               PROVE  /\ pc'[t] = "err" => root' = root /\ cwd' = stood[t]
                      /\ pc'[t] = "err_away" => root' = root
    OBVIOUS
  <2> USE DEF IInv, TypeOK, PlaceInv, Running, Ended, Inside
  <2>1. CASE Swap \/ Fill
    BY <2>1 DEF Swap, Fill
  <2>2. CASE DropStep(t)
    <3>1. CASE Chroot(t)
      BY <3>1 DEF Chroot, Return, GoTo
    <3>2. CASE FailsEarly(t) \/ StepBack(t) \/ StepBackFails(t)
      BY <3>2 DEF FailsEarly, StepBack, StepBackFails, Return, GoTo
    <3>3. CASE Call(t) \/ Metadata(t) \/ ReadDir(t) \/ OpenHere(t) \/ OpenTarget(t)
      BY <3>3 DEF Call, Metadata, ReadDir, OpenHere, OpenTarget, GoTo
    <3>4. CASE StepIn(t) \/ Check(t) \/ FailsInside(t)
      BY <3>4 DEF StepIn, Check, FailsInside, GoTo
    <3>5. QED
      BY <2>2, <3>1, <3>2, <3>3, <3>4 DEF DropStep
  <2>3. QED
    <3>1. Threads = {t}
      BY OneCaller DEF OneCaller
    <3>2. QED
      BY <3>1, <2>1, <2>2 DEF Next
<1>2. QED
  BY OneCaller, <1>1, InvTheorem, PTL DEF Spec, ErrChangesNothing
=============================================================================
