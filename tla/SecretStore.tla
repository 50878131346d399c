----------------------------- MODULE SecretStore -----------------------------
(***************************************************************************)
(* SecretStore of src/src/store.rs: an encrypted map kept whole in memory    *)
(* and written back whole.  Handles (in threads or processes of their own)  *)
(* open, put, delete, rotate and drop; a write is a tmp file that is        *)
(* written, synced, renamed over the store file, and made durable by a sync *)
(* of the directory.  Any system call may fail, a process or the machine    *)
(* may stop between any two of them, and the directory may change between   *)
(* writable and not.                                                        *)
(*                                                                         *)
(* Keys are symbolic: a blob opens under exactly the master, salt and name  *)
(* it was sealed with (dek_for), and carries a key id.  `gen` numbers the    *)
(* fresh random draws, so a draw never repeats.  The lock is FileLock's,    *)
(* which StoreLock shows the flock protocol to implement.                   *)
(***************************************************************************)
EXTENDS Naturals, FiniteSets, FiniteSetsExt

CONSTANTS
  Handles,        \* callers, each with at most one handle at a time
  Masters,        \* master keys
  Names,          \* key names, all valid
  Vals,           \* secrets, each the number of bytes it takes
  Cap,            \* MAX_STORE_BYTES less the header
  MaxGen,         \* bound: fresh (salt, key id) pairs drawn
  MaxPending,     \* bound: renames the disk has not settled
  DirStates,      \* states of the directory, as in StoreLock
  LiveRemount,    \* TRUE: the directory may change under a live handle
  NoVal, NoOp, NoBlob, NoFile, Torn, Closed, NoTmp, Left

ASSUME ValsAssumption == Vals \subseteq Nat /\ NoVal \notin Vals
ASSUME BoundAssumption == Cap \in Nat /\ MaxGen \in Nat /\ MaxPending \in Nat
ASSUME DirAssumption == DirStates \subseteq {"rw", "noperm", "rofs"} /\ LiveRemount \in BOOLEAN

VARIABLES
  cur,          \* the file at the store's path, as a reader sees it
  recoverable,  \* what may be at the path after the machine restarts
  gen,          \* fresh draws so far
  dir,          \* the directory: "rw", "noperm" (EACCES) or "rofs" (EROFS)
  lockFile,     \* whether .<name>.lock exists
  holders,      \* FileLock: handles that own the lock
  pc,           \* where each handle is
  mem,          \* the struct SecretStore in memory
  undo,         \* what a failed write leaves in `mem`: the old struct or Closed
  op,           \* the operation in progress
  res,          \* how the handle's last call that changes the store ended
  known,        \* history: what the handle's writes so far say of the file
  tmp,          \* the tmp file of the last write, Left for one that stays behind
  strayed       \* a handle has been opened on a file its master cannot read

disk == <<cur, recoverable>>
env == <<dir, lockFile>>
vars == <<cur, recoverable, gen, dir, lockFile, holders, pc, mem, undo, op, res, known, tmp,
          strayed>>

Lock == INSTANCE FileLock WITH Openers <- Handles

-----------------------------------------------------------------------------
\* A FAFN blob: the key it was sealed under (master, salt, name), the key id it
\* carries and the secret inside.
Blobs == [master : Masters, salt : 0..MaxGen, name : Names, kid : 0..MaxGen, val : Vals]
Entries == [Names -> Blobs \cup {NoBlob}]
Files == [salt : 0..MaxGen, kid : 0..MaxGen, entries : Entries]
Stores == [master : Masters, salt : 0..MaxGen, kid : 0..MaxGen, entries : Entries]

Tmps == [image : Files, synced : BOOLEAN]

NoEntries == [n \in Names |-> NoBlob]

Idle == [kind |-> "none"]
Opening == [kind |-> "open"]
Rotating == [kind |-> "rotate"]
Setting(n, v) == [kind |-> "set", name |-> n, val |-> v]

Persisting == {"persist", "sync", "rename", "dirsync", "cleanup"}

\* What persist serialises of a store.
Image(s) == [salt |-> s.salt, kid |-> s.kid, entries |-> s.entries]

Seal(s, n, v) ==
  [master |-> s.master, salt |-> s.salt, name |-> n, kid |-> s.kid, val |-> v]

\* SecretStore::get returns the secret rather than Auth.
Readable(s, n) ==
  LET b == s.entries[n] IN
  b.kid = s.kid /\ b.master = s.master /\ b.salt = s.salt /\ b.name = n

Present(f) == {n \in Names : f.entries[n] # NoBlob}

\* Bytes the entries take in the file.
Size(entries) == MapThenSumSet(LAMBDA n : entries[n].val, {n \in Names : entries[n] # NoBlob})

ReadableAll(s) == \A n \in Present(s) : Readable(s, n)

\* load and read_capped accept the file.
Loads(f) == f # Torn /\ Size(f.entries) <= Cap

Load(f, m) == [master |-> m, salt |-> f.salt, kid |-> f.kid, entries |-> f.entries]

\* Mutant: a new generation draws a key id but no salt.
FreshKeyIdOnly(m, entries) == [master |-> m, salt |-> 0, kid |-> gen', entries |-> entries]

Fresh(m, entries) == [master |-> m, salt |-> gen', kid |-> gen', entries |-> entries]

Changes == {Setting(n, v) : n \in Names, v \in Vals \cup {NoVal}}

\* The values that stand for "nothing" are not confused with the real ones.
ASSUME DistinctAssumption ==
  /\ NoBlob \notin Blobs /\ Closed \notin Stores /\ NoFile \notin Files \cup Stores
  /\ Torn \notin Files \cup {NoFile}
  /\ NoTmp \notin Tmps /\ Left \notin Tmps /\ NoTmp # Left
  /\ NoOp \notin [name : Names, val : Vals \cup {NoVal}]

-----------------------------------------------------------------------------
TypeOK ==
  /\ cur \in Files \cup {NoFile}
  /\ recoverable \subseteq Files \cup {NoFile, Torn}
  /\ gen \in 0..MaxGen
  /\ dir \in DirStates /\ lockFile \in BOOLEAN
  /\ holders \subseteq Handles
  /\ pc \in [Handles -> {"closed", "read", "ready"} \cup Persisting]
  /\ mem \in [Handles -> Stores \cup {Closed}]
  /\ undo \in [Handles -> Stores \cup {Closed}]
  /\ op \in [Handles -> {Idle, Opening, Rotating} \cup Changes]
  /\ res \in [Handles -> {"none", "ok", "error"}]
  /\ known \in [Handles -> {"unread", "read", "synced", "unsure"}]
  /\ tmp \in [Handles -> Tmps \cup {NoTmp, Left}]
  /\ strayed \in BOOLEAN
  /\ \A h \in Handles : mem[h] = Closed <=> pc[h] = "closed"

Init ==
  /\ cur = NoFile /\ recoverable = {NoFile}
  /\ gen = 0
  /\ dir \in DirStates /\ lockFile = FALSE
  /\ holders = {}
  /\ pc = [h \in Handles |-> "closed"]
  /\ mem = [h \in Handles |-> Closed]
  /\ undo = [h \in Handles |-> Closed]
  /\ op = [h \in Handles |-> Idle]
  /\ res = [h \in Handles |-> "none"]
  /\ known = [h \in Handles |-> "unread"]
  /\ tmp = [h \in Handles |-> NoTmp]
  /\ strayed = FALSE

-----------------------------------------------------------------------------
Goto(h, l) == pc' = [pc EXCEPT ![h] = l]

\* The handle is gone, and its lock with it.
Drop(h) ==
  /\ Goto(h, "closed")
  /\ mem' = [mem EXCEPT ![h] = Closed]
  /\ undo' = [undo EXCEPT ![h] = Closed]
  /\ op' = [op EXCEPT ![h] = Idle]
  /\ res' = [res EXCEPT ![h] = "none"]
  /\ known' = [known EXCEPT ![h] = "unread"]
  /\ holders' = holders \ {h}

\* Mutant: the entry is not restored after a failed write.
RollBackForgotten(h, k) ==
  IF undo[h] = Closed
  THEN Drop(h)
  ELSE /\ undo' = [undo EXCEPT ![h] = Closed]
       /\ op' = [op EXCEPT ![h] = Idle]
       /\ res' = [res EXCEPT ![h] = "error"]
       /\ known' = [known EXCEPT ![h] = k]
       /\ Goto(h, "ready")
       /\ UNCHANGED <<mem, holders>>

\* Mutant: open and rotate are treated like put, which has a struct to go back to.
RollBackAlways(h, k) ==
  /\ mem' = [mem EXCEPT ![h] = undo[h]]
  /\ undo' = [undo EXCEPT ![h] = Closed]
  /\ op' = [op EXCEPT ![h] = Idle]
  /\ res' = [res EXCEPT ![h] = "error"]
  /\ known' = [known EXCEPT ![h] = k]
  /\ Goto(h, "ready")
  /\ UNCHANGED holders

\* A write failed: put and delete restore the entry, open and rotate return Err
\* and so drop the handle they were building.  k is what is known from then on.
RollBack(h, k) ==
  IF undo[h] = Closed
  THEN Drop(h)
  ELSE /\ mem' = [mem EXCEPT ![h] = undo[h]]
       /\ undo' = [undo EXCEPT ![h] = Closed]
       /\ op' = [op EXCEPT ![h] = Idle]
       /\ res' = [res EXCEPT ![h] = "error"]
       /\ known' = [known EXCEPT ![h] = k]
       /\ Goto(h, "ready")
       /\ UNCHANGED holders

\* Mutant: no lock (before 0.7.2).
TakeNoLock(h, m) ==
  /\ pc[h] = "closed" /\ dir = "rw"
  /\ holders' = holders \cup {h}
  /\ lockFile' = TRUE
  /\ mem' = [mem EXCEPT ![h] = [master |-> m, salt |-> 0, kid |-> 0, entries |-> NoEntries]]
  /\ op' = [op EXCEPT ![h] = Opening]
  /\ Goto(h, "read")
  /\ UNCHANGED <<disk, gen, dir, undo, res, known, tmp, strayed>>

\* take_lock, here one step, whose guard StoreLock shows to hold at a moment of
\* the call (EndsForAReason): nobody removes the lock file in this module.
\* A caller that finds the lock taken gets WouldBlock: no step.
TakeLock(h, m) ==
  /\ pc[h] = "closed"
  /\ dir = "rw" \/ (dir = "noperm" /\ lockFile)
  /\ Lock!Acquire(h)
  /\ lockFile' = TRUE
  /\ mem' = [mem EXCEPT ![h] = [master |-> m, salt |-> 0, kid |-> 0, entries |-> NoEntries]]
  /\ op' = [op EXCEPT ![h] = Opening]
  /\ Goto(h, "read")
  /\ UNCHANGED <<disk, gen, dir, undo, res, known, tmp, strayed>>

\* take_lock returned None: the handle goes on without a lock.
SkipLock(h, m) ==
  /\ pc[h] = "closed"
  /\ dir = "rofs" \/ (dir = "noperm" /\ ~lockFile)
  /\ mem' = [mem EXCEPT ![h] = [master |-> m, salt |-> 0, kid |-> 0, entries |-> NoEntries]]
  /\ op' = [op EXCEPT ![h] = Opening]
  /\ Goto(h, "read")
  /\ UNCHANGED <<disk, gen, env, holders, undo, res, known, tmp, strayed>>

\* open on an existing file.
ReadFile(h) ==
  /\ pc[h] = "read" /\ cur # NoFile
  /\ IF Loads(cur)
     THEN LET s == Load(cur, mem[h].master) IN
          /\ mem' = [mem EXCEPT ![h] = s]
          /\ strayed' = (strayed \/ ~ReadableAll(s))
          /\ op' = [op EXCEPT ![h] = Idle]
          /\ known' = [known EXCEPT ![h] = "read"]
          /\ Goto(h, "ready")
          /\ UNCHANGED <<undo, res, holders>>
     ELSE Drop(h) /\ UNCHANGED strayed
  /\ UNCHANGED <<disk, gen, env, tmp>>

\* open when there is no file: a new, empty store, which is written at once.
CreateStore(h) ==
  /\ pc[h] = "read" /\ cur = NoFile
  /\ gen < MaxGen /\ gen' = gen + 1
  /\ mem' = [mem EXCEPT ![h] = Fresh(mem[h].master, NoEntries)]
  /\ Goto(h, "persist")
  /\ UNCHANGED <<disk, env, holders, undo, op, res, known, tmp, strayed>>

\* read_capped or make_private fails; the lock is dropped with the call.
ReadFails(h) ==
  /\ pc[h] = "read"
  /\ Drop(h)
  /\ UNCHANGED <<disk, gen, env, tmp, strayed>>

Put(h, n, v) ==
  /\ pc[h] = "ready"
  /\ op' = [op EXCEPT ![h] = Setting(n, v)]
  /\ undo' = [undo EXCEPT ![h] = mem[h]]
  /\ mem' = [mem EXCEPT ![h].entries[n] = Seal(mem[h], n, v)]
  /\ Goto(h, "persist")
  /\ UNCHANGED <<disk, gen, env, holders, res, known, tmp, strayed>>

\* delete of a name that is in memory.
Delete(h, n) ==
  /\ pc[h] = "ready" /\ n \in Present(mem[h])
  /\ op' = [op EXCEPT ![h] = Setting(n, NoVal)]
  /\ undo' = [undo EXCEPT ![h] = mem[h]]
  /\ mem' = [mem EXCEPT ![h].entries[n] = NoBlob]
  /\ Goto(h, "persist")
  /\ UNCHANGED <<disk, gen, env, holders, res, known, tmp, strayed>>

\* delete of any other name: Ok, and nothing is written, whatever the file holds.
DeleteNothing(h, n) ==
  /\ pc[h] = "ready" /\ n \in Names \ Present(mem[h])
  /\ res' = [res EXCEPT ![h] = "ok"]
  /\ UNCHANGED <<disk, gen, env, holders, pc, mem, undo, op, known, tmp, strayed>>

\* Mutant: rotate moves the blobs under a new header without resealing them.
RotateHeaderOnly(h, m) ==
  /\ pc[h] = "ready" /\ ReadableAll(mem[h])
  /\ gen < MaxGen /\ gen' = gen + 1
  /\ mem' = [mem EXCEPT ![h] = Fresh(m, mem[h].entries)]
  /\ op' = [op EXCEPT ![h] = Rotating]
  /\ Goto(h, "persist")
  /\ UNCHANGED <<disk, env, holders, undo, res, known, tmp, strayed>>

\* rotate: everything opens under the old master, so the new generation is built.
Rotate(h, m) ==
  /\ pc[h] = "ready" /\ ReadableAll(mem[h])
  /\ gen < MaxGen /\ gen' = gen + 1
  /\ LET new == Fresh(m, NoEntries) IN
     mem' = [mem EXCEPT ![h] = [new EXCEPT !.entries =
       [n \in Names |-> IF n \in Present(mem[h])
                        THEN Seal(new, n, mem[h].entries[n].val) ELSE NoBlob]]]
  /\ op' = [op EXCEPT ![h] = Rotating]
  /\ Goto(h, "persist")
  /\ UNCHANGED <<disk, env, holders, undo, res, known, tmp, strayed>>

\* rotate: an entry does not open.  Nothing is written; the handle is consumed.
RotateAuth(h) ==
  /\ pc[h] = "ready" /\ ~ReadableAll(mem[h])
  /\ Drop(h)
  /\ UNCHANGED <<disk, gen, env, tmp, strayed>>

Close(h) ==
  /\ pc[h] = "ready"
  /\ Drop(h)
  /\ UNCHANGED <<disk, gen, env, tmp, strayed>>

-----------------------------------------------------------------------------
\* persist and atomic_write: the tmp file is created and written.
WriteTmp(h) ==
  /\ pc[h] = "persist" /\ Size(mem[h].entries) <= Cap /\ dir = "rw"
  /\ tmp' = [tmp EXCEPT ![h] = [image |-> Image(mem[h]), synced |-> FALSE]]
  /\ Goto(h, "sync")
  /\ UNCHANGED <<disk, gen, env, holders, mem, undo, op, res, known, strayed>>

\* Too big for open to accept, or the tmp file cannot be created.
CreateFails(h) ==
  /\ pc[h] = "persist"
  /\ RollBack(h, known[h])
  /\ UNCHANGED <<disk, gen, env, tmp, strayed>>

\* Mutant: no fsync of the tmp file.
SyncNothing(h) ==
  /\ pc[h] = "sync"
  /\ Goto(h, "rename")
  /\ UNCHANGED <<disk, gen, env, holders, mem, undo, op, res, known, tmp, strayed>>

SyncTmp(h) ==
  /\ pc[h] = "sync"
  /\ tmp' = [tmp EXCEPT ![h].synced = TRUE]
  /\ Goto(h, "rename")
  /\ UNCHANGED <<disk, gen, env, holders, mem, undo, op, res, known, strayed>>

\* Visible at once; after a machine restart either file may be there, and the
\* new one is whole only if its data was synced.
Rename(h) ==
  /\ pc[h] = "rename" /\ dir = "rw" /\ Cardinality(recoverable) <= MaxPending
  /\ cur' = tmp[h].image
  /\ recoverable' = recoverable \cup {IF tmp[h].synced THEN tmp[h].image ELSE Torn}
  /\ tmp' = [tmp EXCEPT ![h] = NoTmp]
  /\ Goto(h, "dirsync")
  /\ UNCHANGED <<gen, env, holders, mem, undo, op, res, known, strayed>>

\* Mutant: no sync of the directory (before 0.7.2).
SyncNoDir(h) ==
  /\ pc[h] = "dirsync"
  /\ undo' = [undo EXCEPT ![h] = Closed]
  /\ op' = [op EXCEPT ![h] = Idle]
  /\ res' = [res EXCEPT ![h] = "ok"]
  /\ known' = [known EXCEPT ![h] = "synced"]
  /\ Goto(h, "ready")
  /\ UNCHANGED <<disk, gen, env, holders, mem, tmp, strayed>>

\* The sync of the directory settles the rename, and the operation returns Ok.
SyncDir(h) ==
  /\ pc[h] = "dirsync"
  /\ recoverable' = {cur}
  /\ undo' = [undo EXCEPT ![h] = Closed]
  /\ op' = [op EXCEPT ![h] = Idle]
  /\ res' = [res EXCEPT ![h] = "ok"]
  /\ known' = [known EXCEPT ![h] = "synced"]
  /\ Goto(h, "ready")
  /\ UNCHANGED <<cur, gen, env, holders, mem, tmp, strayed>>

\* The sync of the directory fails: the tmp name is already gone, the file has
\* been replaced, and the operation returns Err.
SyncDirFails(h) ==
  /\ pc[h] = "dirsync"
  /\ RollBack(h, "unsure")
  /\ UNCHANGED <<disk, gen, env, tmp, strayed>>

\* Mutant: the tmp file of a failed write stays.
WriteFailsDirty(h) ==
  /\ pc[h] \in {"sync", "rename"}
  /\ RollBack(h, known[h])
  /\ UNCHANGED <<disk, gen, env, tmp, strayed>>

\* write_all, sync_all or rename fails.
WriteFails(h) ==
  /\ pc[h] \in {"sync", "rename"}
  /\ Goto(h, "cleanup")
  /\ UNCHANGED <<disk, gen, env, holders, mem, undo, op, res, known, tmp, strayed>>

\* remove_file of the tmp file; its own failure is ignored, and leaves the file.
RemoveTmp(h) ==
  /\ pc[h] = "cleanup"
  /\ \E t \in {NoTmp, Left} : tmp' = [tmp EXCEPT ![h] = t]
  /\ RollBack(h, known[h])
  /\ UNCHANGED <<disk, gen, env, strayed>>

-----------------------------------------------------------------------------
\* Nobody is left to remove the tmp file of a write that was under way.
Abandoned(t) == IF t = NoTmp THEN NoTmp ELSE Left

\* The process of the handle ends, at any point.
Die(h) ==
  /\ pc[h] # "closed"
  /\ Drop(h)
  /\ tmp' = [tmp EXCEPT ![h] = Abandoned(@)]
  /\ UNCHANGED <<disk, gen, env, strayed>>

\* The machine stops and starts again.
Restart ==
  /\ cur' \in recoverable
  /\ recoverable' = {cur'}
  /\ holders' = {}
  /\ pc' = [h \in Handles |-> "closed"]
  /\ mem' = [h \in Handles |-> Closed]
  /\ undo' = [h \in Handles |-> Closed]
  /\ op' = [h \in Handles |-> Idle]
  /\ res' = [h \in Handles |-> "none"]
  /\ known' = [h \in Handles |-> "unread"]
  /\ tmp' = [h \in Handles |-> Abandoned(tmp[h])]
  /\ UNCHANGED <<gen, env, strayed>>

Remount ==
  /\ LiveRemount \/ \A h \in Handles : pc[h] = "closed"
  /\ dir' \in DirStates \ {dir}
  /\ UNCHANGED <<disk, gen, lockFile, holders, pc, mem, undo, op, res, known, tmp, strayed>>

Step(h) ==
  \/ \E m \in Masters : TakeLock(h, m) \/ SkipLock(h, m) \/ Rotate(h, m)
  \/ ReadFile(h) \/ CreateStore(h) \/ ReadFails(h)
  \/ \E n \in Names : Delete(h, n) \/ DeleteNothing(h, n) \/ \E v \in Vals : Put(h, n, v)
  \/ RotateAuth(h) \/ Close(h)
  \/ WriteTmp(h) \/ CreateFails(h) \/ SyncTmp(h) \/ WriteFails(h) \/ Rename(h)
  \/ SyncDir(h) \/ SyncDirFails(h) \/ RemoveTmp(h)
  \/ Die(h)

Next == (\E h \in Handles : Step(h)) \/ Restart \/ Remount

Spec == Init /\ [][Next]_vars

-----------------------------------------------------------------------------
\* A restart always finds a complete file, or none: a tmp file reaches the path
\* only after its data was synced, and the file a reader sees is one of them.
WholeFile == Torn \notin recoverable /\ cur \in recoverable

\* No write makes a store that open then refuses for its size (store.rs:345).
NeverOutgrowsOpen == \A f \in recoverable \ {NoFile, Torn} : Size(f.entries) <= Cap

\* So what a restart finds at the path, open can load.
LoadableFile == WholeFile /\ NeverOutgrowsOpen

\* A file holds one key generation: every blob in it was sealed under the salt
\* and carries the key id of its header, so get's key id check never refuses
\* what the store itself wrote; and two generations share neither.
OneGeneration ==
  /\ \A f \in recoverable \ {NoFile, Torn} : \A n \in Present(f) :
       LET b == f.entries[n] IN b.kid = f.kid /\ b.salt = f.salt /\ b.name = n
  /\ \A f, g \in recoverable \ {NoFile, Torn} : f.kid = g.kid <=> f.salt = g.salt

\* A handle that keeps the lock has in memory what is in the file, from its open or
\* its last write that returned Ok until one fails behind the rename; and from an Ok
\* that was written, no restart can undo it.  A delete that finds no name in memory
\* writes nothing, and its Ok adds nothing to that: after a put that failed behind
\* the rename it answers Ok for a name that the file still has (store.rs:166).
OkIsDurable ==
  \A h \in holders : pc[h] = "ready" =>
    /\ known[h] # "unsure" => cur = Image(mem[h])
    /\ known[h] = "synced" => recoverable = {cur}

\* Even after a failed write, a handle that keeps the lock serves contents the
\* file may hold, never a value that was not written (store.rs:128).
ServesWhatDiskMayHold ==
  \A h \in holders : pc[h] = "ready" => Image(mem[h]) \in recoverable

\* As long as every caller opens a file with the master it is sealed under, every
\* value a locked handle holds opens under that handle's master.
ReadsBackWhatItHolds ==
  ~strayed => \A h \in holders : pc[h] # "read" => ReadableAll(mem[h])

\* Whichever way a write ends, its tmp file is renamed or removed, unless the removal
\* fails as well, or the process ends before it (store.rs:490, 516).
NoTmpLeftBehind ==
  \A h \in Handles : tmp[h] \in Tmps <=> pc[h] \in {"sync", "rename", "cleanup"}

-----------------------------------------------------------------------------
\* Claimed, and not so (see the README's findings):

\* docs/API.md:264 of rotate: "if anything fails, the file is untouched"; store.rs:206:
\* "on error, reopen the file; it is unchanged".
FailedRotateLeavesFile ==
  [][\A h \in Handles :
       op[h] = Rotating /\ (CreateFails(h) \/ RemoveTmp(h) \/ SyncDirFails(h))
         => cur' # Image(mem[h])]_vars

-----------------------------------------------------------------------------
\* The contents of a file or a store.
Content(f) ==
  [n \in Names |-> IF f = NoFile THEN NoVal
                   ELSE IF f.entries[n] = NoBlob THEN NoVal ELSE f.entries[n].val]

\* The handle that keeps the lock, once it has the store in memory.
Owners == {h \in holders : pc[h] \notin {"closed", "read"}}
Owner == CHOOSE h \in Owners : TRUE

\* What a handle answers with once the operation in progress has failed.
View(h) == IF undo[h] = Closed THEN mem[h] ELSE undo[h]

\* The put or delete a handle has in progress.
AskOf(h) == IF op[h].kind = "set" THEN [name |-> op[h].name, val |-> op[h].val] ELSE NoOp

\* The store with its lock is the map of KVStore: its contents are the owner's
\* view (without the change in progress), or the file's when nobody owns it.
Data == IF Owners = {} THEN Content(cur) ELSE Content(View(Owner))
Safe == {Content(f) : f \in recoverable}
Ask == IF Owners = {} THEN NoOp ELSE AskOf(Owner)
Told == IF Owners = {} THEN "none" ELSE res[Owner]

Map == INSTANCE KVStore WITH data <- Data, safe <- Safe, ask <- Ask, told <- Told

ImplementsMap == Map!Spec
=============================================================================
