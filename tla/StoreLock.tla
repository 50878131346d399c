------------------------------ MODULE StoreLock ------------------------------
(***************************************************************************)
(* take_lock of src/src/store.rs: the lock that keeps a store file to one   *)
(* handle.  Several openers (threads or processes) run the loop             *)
(*     open or create .<name>.lock; try_lock (flock); stat the path again   *)
(* while something outside krypto may replace or remove the lock file, and  *)
(* change whether the directory can be written.  Each system call is one    *)
(* step.  The environment leaves the lock file of a live handle alone       *)
(* (krypto "never" deletes it, store.rs:392); a replacement can fall        *)
(* anywhere before the handle exists.                                       *)
(***************************************************************************)
EXTENDS Naturals

CONSTANTS
  Openers,        \* calls of SecretStore::open that may be running at once
  Inodes,         \* inode numbers of lock files; freed numbers are reused
  None,           \* no file, no descriptor, nobody
  MaxTries,       \* rounds of take_lock's loop: 3 in the code
  MaxReplaced,    \* bound: replacements of the lock file by the environment
  DirStates,      \* states of the directory the environment moves it between
  Faulty          \* TRUE: system calls may fail and processes may die mid-call

ASSUME NoneAssumption == None \notin Openers /\ None \notin Inodes
ASSUME TriesAssumption == MaxTries \in Nat \ {0} /\ MaxReplaced \in Nat
ASSUME DirAssumption == DirStates \subseteq {"rw", "noperm", "rofs"}
ASSUME FaultyAssumption == Faulty \in BOOLEAN

VARIABLES
  pc,         \* where each opener is in take_lock, or how its call ended
  fd,         \* the inode behind each opener's File
  tries,      \* rounds of the loop that ended with a replaced file
  path,       \* the inode at the lock file's path
  flock,      \* the kernel's lock owner per inode
  dir,        \* "rw", "noperm" (EACCES) or "rofs" (EROFS)
  replaced,   \* replacements so far
  since,      \* value of `replaced` when each opener's call began
  met         \* what Chance was at the moments of each opener's call

vars == <<pc, fd, tries, path, flock, dir, replaced, since, met>>

Calling  == {"open", "reopen", "lock", "verify"}
Outcomes == {"held", "lockless", "refused", "failed", "gaveup"}

TypeOK ==
  /\ pc \in [Openers -> {"idle"} \cup Calling \cup Outcomes]
  /\ fd \in [Openers -> Inodes \cup {None}]
  /\ tries \in [Openers -> 0..MaxTries]
  /\ path \in Inodes \cup {None}
  /\ flock \in [Inodes -> Openers \cup {None}]
  /\ dir \in DirStates
  /\ replaced \in 0..MaxReplaced
  /\ since \in [Openers -> 0..MaxReplaced]
  /\ met \in [Openers -> SUBSET {"lockable", "barred"}]
  /\ \A o \in Openers : fd[o] # None <=> pc[o] \in {"lock", "verify", "held"}

Init ==
  /\ pc = [o \in Openers |-> "idle"]
  /\ fd = [o \in Openers |-> None]
  /\ tries = [o \in Openers |-> 0]
  /\ path \in Inodes \cup {None}
  /\ flock = [i \in Inodes |-> None]
  /\ dir \in DirStates
  /\ replaced = 0
  /\ since = [o \in Openers |-> 0]
  /\ met = [o \in Openers |-> {}]

-----------------------------------------------------------------------------
\* An inode number is free for reuse once no path and no descriptor names it.
FreeInodes == {i \in Inodes : i # path /\ \A o \in Openers : fd[o] # i}

\* Opener o's File is dropped: the descriptor closes and its flock goes with it.
CloseFile(o) ==
  /\ fd' = [fd EXCEPT ![o] = None]
  /\ flock' = [i \in Inodes |-> IF flock[i] = o THEN None ELSE flock[i]]

\* Whether the directory and what is at the path let a lock file be opened:
\* as SecretStore has it, which takes this call for one step.
Chance(d, p) == IF d = "rw" \/ (d = "noperm" /\ p # None) THEN "lockable" ELSE "barred"

\* Someone else's step, to d and p, is a moment of every call under way.
Witnessed(d, p) ==
  met' = [o \in Openers |->
            IF pc[o] \in Calling THEN met[o] \cup {Chance(d, p)} ELSE met[o]]

Call(o) ==
  /\ pc[o] = "idle"
  /\ pc' = [pc EXCEPT ![o] = "open"]
  /\ tries' = [tries EXCEPT ![o] = 0]
  /\ since' = [since EXCEPT ![o] = replaced]
  /\ met' = [met EXCEPT ![o] = {Chance(dir, path)}]
  /\ UNCHANGED <<fd, path, flock, dir, replaced>>

\* Open or create with read and write access.
OpenExisting(o) ==
  /\ pc[o] = "open" /\ dir # "rofs" /\ path # None
  /\ fd' = [fd EXCEPT ![o] = path]
  /\ pc' = [pc EXCEPT ![o] = "lock"]
  /\ UNCHANGED <<tries, path, flock, dir, replaced, since, met>>

CreateLockFile(o) ==
  /\ pc[o] = "open" /\ dir = "rw" /\ path = None
  /\ path' \in FreeInodes
  /\ fd' = [fd EXCEPT ![o] = path']
  /\ pc' = [pc EXCEPT ![o] = "lock"]
  /\ UNCHANGED <<tries, flock, dir, replaced, since, met>>

\* EACCES: a lock file this process may not write, or a directory it may not.
OpenDenied(o) ==
  /\ pc[o] = "open" /\ dir # "rofs"
  /\ path = None => dir = "noperm"
  /\ pc' = [pc EXCEPT ![o] = "reopen"]
  /\ UNCHANGED <<fd, tries, path, flock, dir, replaced, since, met>>

\* EROFS: no lock at all, even if a lock file exists.
OpenReadOnlyFs(o) ==
  /\ pc[o] = "open" /\ dir = "rofs"
  /\ pc' = [pc EXCEPT ![o] = "lockless"]
  /\ UNCHANGED <<fd, tries, path, flock, dir, replaced, since, met>>

\* Mutant: the second open is taken to have succeeded.
ReopenUnchecked(o) ==
  /\ pc[o] = "reopen"
  /\ fd' = [fd EXCEPT ![o] = path]
  /\ pc' = [pc EXCEPT ![o] = "lock"]
  /\ UNCHANGED <<tries, path, flock, dir, replaced, since, met>>

\* Mutant: no second open, as if a file one may not write could not be locked.
ReopenNever(o) ==
  /\ pc[o] = "reopen"
  /\ pc' = [pc EXCEPT ![o] = "lockless"]
  /\ UNCHANGED <<fd, tries, path, flock, dir, replaced, since, met>>

\* After EACCES: through a read-only descriptor if the file is there.
Reopen(o) ==
  /\ pc[o] = "reopen"
  /\ fd' = [fd EXCEPT ![o] = path]
  /\ pc' = [pc EXCEPT ![o] = IF path = None THEN "lockless" ELSE "lock"]
  /\ UNCHANGED <<tries, path, flock, dir, replaced, since, met>>

TryLock(o) ==
  /\ pc[o] = "lock" /\ flock[fd[o]] = None
  /\ flock' = [flock EXCEPT ![fd[o]] = o]
  /\ pc' = [pc EXCEPT ![o] = "verify"]
  /\ UNCHANGED <<fd, tries, path, dir, replaced, since, met>>

WouldBlock(o) ==
  /\ pc[o] = "lock" /\ flock[fd[o]] # None
  /\ CloseFile(o)
  /\ pc' = [pc EXCEPT ![o] = "refused"]
  /\ UNCHANGED <<tries, path, dir, replaced, since, met>>

\* Mutant: the lock is trusted without a second look at the path.
VerifyNothing(o) ==
  /\ pc[o] = "verify"
  /\ pc' = [pc EXCEPT ![o] = "held"]
  /\ UNCHANGED <<fd, tries, path, flock, dir, replaced, since, met>>

\* is_same_file: the path still names the inode that is locked.
VerifySame(o) ==
  /\ pc[o] = "verify" /\ path = fd[o]
  /\ pc' = [pc EXCEPT ![o] = "held"]
  /\ UNCHANGED <<fd, tries, path, flock, dir, replaced, since, met>>

\* Mutant: the File of a lost round is leaked instead of dropped.
VerifyLeaks(o) ==
  /\ pc[o] = "verify" /\ path # fd[o]
  /\ tries' = [tries EXCEPT ![o] = @ + 1]
  /\ pc' = [pc EXCEPT ![o] = IF tries'[o] < MaxTries THEN "open" ELSE "gaveup"]
  /\ fd' = [fd EXCEPT ![o] = None]
  /\ UNCHANGED <<path, flock, dir, replaced, since, met>>

\* Mutant: no second round.
VerifyOnce(o) ==
  /\ pc[o] = "verify" /\ path # fd[o]
  /\ pc' = [pc EXCEPT ![o] = "gaveup"]
  /\ CloseFile(o)
  /\ UNCHANGED <<tries, path, dir, replaced, since, met>>

VerifyReplaced(o) ==
  /\ pc[o] = "verify" /\ path # fd[o]
  /\ tries' = [tries EXCEPT ![o] = @ + 1]
  /\ pc' = [pc EXCEPT ![o] = IF tries'[o] < MaxTries THEN "open" ELSE "gaveup"]
  /\ CloseFile(o)
  /\ UNCHANGED <<path, dir, replaced, since, met>>

\* Any other error of a system call is returned with `?`.
IoError(o) ==
  /\ Faulty /\ pc[o] \in Calling
  /\ CloseFile(o)
  /\ pc' = [pc EXCEPT ![o] = "failed"]
  /\ UNCHANGED <<tries, path, dir, replaced, since, met>>

\* The caller drops the handle, or is done with a failed call; or, if Faulty,
\* the process ends in the middle of the call.  What the call knew is gone.
Close(o) ==
  /\ pc[o] \in Outcomes \/ (Faulty /\ pc[o] \in Calling)
  /\ CloseFile(o)
  /\ pc' = [pc EXCEPT ![o] = "idle"]
  /\ tries' = [tries EXCEPT ![o] = 0]
  /\ since' = [since EXCEPT ![o] = 0]
  /\ met' = [met EXCEPT ![o] = {}]
  /\ UNCHANGED <<path, dir, replaced>>

-----------------------------------------------------------------------------
\* Someone removes the lock file or puts another one in its place.
Replace ==
  /\ path # None /\ dir # "rofs" /\ replaced < MaxReplaced
  /\ \A o \in Openers : pc[o] # "held"
  /\ \E p \in FreeInodes \cup {None} : path' = p /\ Witnessed(dir, p)
  /\ replaced' = replaced + 1
  /\ UNCHANGED <<pc, fd, tries, flock, dir, since>>

\* chmod or chown of the directory, or a remount.
ChangeDir ==
  /\ \E d \in DirStates \ {dir} : dir' = d /\ Witnessed(d, path)
  /\ UNCHANGED <<pc, fd, tries, path, flock, replaced, since>>

\* What the opener's own thread does once it is in the call.
Step(o) ==
  \/ OpenExisting(o) \/ CreateLockFile(o) \/ OpenDenied(o) \/ OpenReadOnlyFs(o)
  \/ Reopen(o)
  \/ TryLock(o) \/ WouldBlock(o)
  \/ VerifySame(o) \/ VerifyReplaced(o)

Next ==
  \/ \E o \in Openers : Call(o) \/ Step(o) \/ IoError(o) \/ Close(o)
  \/ Replace
  \/ ChangeDir

Spec == Init /\ [][Next]_vars

\* A thread inside take_lock keeps running: nothing in it blocks (try_lock).
FairSpec == Spec /\ \A o \in Openers : WF_vars(Step(o))

-----------------------------------------------------------------------------
Held(o) == pc[o] = "held"

\* One handle per file at a time, however the lock file is replaced while
\* several openers are between open, flock and the second look at the path.
MutualExclusion == \A o, p \in Openers : Held(o) /\ Held(p) => o = p

\* A handle's lock is on the file the path names, so that the next opener
\* meets it: a lock on an unlinked file would exclude nobody.
HeldIsVisible == \A o \in Openers : Held(o) => path = fd[o] /\ flock[path] = o

\* No call that ended without the lock, and no round that was given up, leaves
\* a kernel lock behind: a leaked one would refuse every later open.
NoLeakedLock ==
  \A i \in Inodes : flock[i] # None =>
     pc[flock[i]] \in {"verify", "held"} /\ fd[flock[i]] = i

\* A call ends as it does for something that happened during that very call:
\* "keeps being replaced" (store.rs:419) for one replacement per round, never
\* for contention; without a lock for a moment when there was none to be had,
\* or a replacement between the two opens; with the lock, or refused, for a
\* moment when there was.
GaveUpMeansChurn ==
  \A o \in Openers : pc[o] = "gaveup" => replaced - since[o] >= MaxTries

LocklessMeansUnlockable ==
  \A o \in Openers : pc[o] = "lockless" => "barred" \in met[o] \/ since[o] < replaced

LockedMeansLockable ==
  \A o \in Openers : pc[o] \in {"held", "refused", "gaveup"} => "lockable" \in met[o]

EndsForAReason == GaveUpMeansChurn /\ LocklessMeansUnlockable /\ LockedMeansLockable

\* "None only when the directory cannot be written" (store.rs:71-73): what the
\* comment says of a handle without a lock, replaced lock files or not.
LocklessOnlyWhereUnwritable ==
  \A o \in Openers : pc[o] = "lockless" => "barred" \in met[o]

\* Openers that race never all turn each other away: without faults, and with
\* fewer replacements than rounds, some opener of a race ends with a handle.
SomeoneGetsIn ==
  (\E o \in Openers : pc[o] \in Calling)
     ~> (\E o \in Openers : pc[o] \in {"held", "lockless"})

\* The protocol implements the lock the store relies on.
Lock == INSTANCE FileLock WITH holders <- {o \in Openers : Held(o)}
ImplementsLock == Lock!Spec
=============================================================================
