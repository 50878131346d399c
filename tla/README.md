# krypto: TLA+ models, checks and proofs

krypto is a Rust crate that keeps secrets: in locked memory, in authenticated blobs, and in
a store file that one process has open at a time. This directory holds TLA+ models of the
parts whose correctness depends on an order of steps, on a failure between two steps or on
who else is running, the TLC runs that check them, and theorems that TLAPS proves. Line
numbers are those of `src/`; `PROJECT.json` maps every definition to its lines.

## 1. The system

| Component | Source | State it keeps | Operations | What is hard | What makes it correct |
|---|---|---|---|---|---|
| Store lock | `src/store.rs` 380-458 | the lock file, a descriptor with a flock | `take_lock`, drop | openers race; the lock file is replaced; inode numbers come back; directories that cannot be written | at most one handle, whose lock is on the file at the path; nothing stays locked |
| SecretStore | `src/store.rs` | salt, key id and sealed entries in memory; the file | `open`, `put`, `get`, `delete`, `contains`, `list`, `rotate` | write, fsync, rename, fsync of the directory: each fails, or the machine stops, in between | the file is whole and of one generation; what was written and answered Ok is durable; memory and file agree until a write fails behind the rename |
| Secret memory | `src/ffi.rs` 18-146, `src/secret.rs` | a mapping with guard pages per secret | `new`, `from_vec`, `fill_with`, `random`, drop | each of five system calls may fail; threads share the address space and the lock limit | secrets only on locked, undumpable, fenced pages; wiped before they go |
| Dropping the file system | `src/harden.rs` 59-98, `src/ffi.rs` 301-363 | the process's root and working directory | `drop_filesystem` | the path is swapped during the call; a step fails after the process moved; threads | the root was empty; the process stands inside it; Err changes nothing |
| AEAD blobs | `src/aead.rs` | none; the blob carries its header | `seal`, `open`, `reseal`, `blob_key_id` | blobs pass through other hands; generations of keys | only what was sealed opens; a change that leaves a whole header is told as one |
| Master key, KDF | `src/kdf.rs` | a key in secret memory | `from_bytes`, `from_secret_file`, `derive`, `key_id`, `hmac_sha256` | failure between locked allocations | contexts are kept apart; Format, Io and Hardening are told apart |
| krypto-cli | `src/bin/krypto-cli/main.rs` | one process: its arguments, stdin, stdout, exit code | nine commands | the order of checks, reads and writes | exit codes tell failures apart; nothing on stdout unless it worked |
| inspect | `src/bin/krypto-cli/inspect/` | none; a call of `inspect_at` per layer | `inspect` | layers in layers; recognizers that are asked before one another; lengths at the boundaries of their forms | a structure is told as what it is, through every layer; inspect ends |
| Python binding | `krypto-py/src/lib.rs` | mutexes around secrets and stores; references to master keys | objects around the crate's types | threads, callbacks, objects consumed while used, lifetimes | a store outlives neither its key nor its lock, and is not behind its file; no call gets stuck |
| Store file format | `src/store.rs` 39-56, 255-375 | the bytes of the file | `load`, `persist`, `read_capped`, `validate_name`; inspect's `store` | damaged files; two readers of one format | what is written is read back; what is read was read to its end; both readers agree |
| Encodings | `src/hex.rs`, `src/base64.rs` | none | `encode`, `decode`, with and without padding | trailing bits, padding | one spelling per byte string |
| Process hardening | `src/harden.rs`, `src/ffi.rs` | flags of the process | `harden_process`, `no_new_privs`, `close_inherited_fds` | order against other descriptors | idempotent, fail-closed |
| Passwords, signatures, exchange | `src/password.rs`, `src/sign.rs`, `src/exchange.rs` | none | hash, verify, derive, sign, agree | | Auth only for what does not hold |

How they interact: `SecretStore` borrows a `MasterKey`, derives a key per entry with
`derive`, seals and opens with `aead`, and holds the `File` that `take_lock` returned for
its life. Every key and plaintext lies in a `SecretBuf`, so any of them can fail with
`Error::Hardening`. `krypto-cli` is one process per command over `kdf` and `aead`, and its
`inspect` reads blobs, store files, hex and base64 beside what other programs write; the
Python binding wraps every type in an object of its own, the store's and the buffers' behind
a mutex. `drop_filesystem` and the other hardening calls act on the whole process.

## 2. Modules

| Module | What it is | Instance |
|---|---|---|
| `FileLock` | abstract: a lock with at most one holder | |
| `StoreLock` | the `take_lock` protocol, implements `FileLock` | `MCStoreLock` |
| `StoreLockProofs` | its theorems | |
| `KVStore` | abstract: a durable map of names to values with requests that succeed or fail | |
| `SecretStore` | handles, the write steps, crashes; implements `KVStore` | `MCSecretStore` |
| `SecretStoreProofs` | its theorems: the file, then what a handle and the map rely on | |
| `SecretMemory` | `LockedPages` and `SecretBuf` | `MCSecretMemory` |
| `SecretMemoryProofs` | its theorems | |
| `DropFilesystem` | `drop_filesystem` | `MCDropFilesystem` |
| `DropFilesystemProofs` | its theorems | |
| `Aead` | blobs and keys, as operators | |
| `Cli` | krypto-cli over `Aead`, with a program that reseals and others who change blobs | `MCCli` |
| `CliProofs` | the theorems of `Aead`, and over them those of `Cli` | |
| `PyBinding` | Python threads, objects, mutexes and the interpreter's lock | `MCPyBinding` |
| `PyBindingProofs` | its theorems | |
| `Codec` | hex and base64, as operators | |
| `CodecProofs` | the theorems of hex | |
| `StoreFormat` | the store file's bytes: writer, loader, and inspect's walk | |
| `Der`, `Pkix`, `Pgp` | the DER walk, the X.509 and PKCS structures, the OpenPGP packets | |
| `InspectCalls` | the calls of `inspect_at`, whatever its recognizers know | |
| `InspectCallsProofs` | its theorems | |
| `Inspect` | what they know, over `Codec`, `StoreFormat` and `Pgp` | `MCInspect` |

**StoreLock.** One variable per thing the kernel or the call knows: `path` (the inode the
lock file's name leads to), `flock` (owner per inode), and per opener its place `pc`, its
descriptor `fd` and its count of rounds. One action per system call of the loop:
`OpenExisting`, `CreateLockFile`, `OpenDenied`, `OpenReadOnlyFs` and `Reopen` are
`open_lock_file`; `TryLock` and `WouldBlock` are `try_lock`; `VerifySame` and
`VerifyReplaced` are `is_same_file`; `IoError` is every early return. `Replace` and
`ChangeDir` belong to others. A lock file is replaced at any time before a handle exists; a
live handle's own lock file is left alone, as krypto never deletes it. An inode number is
used again as soon as no name and no descriptor has it. Two variables are history: `since`,
how many replacements there had been when a call began, and `met`, what it has met: a moment
when a lock was to be had (`"lockable"`: the directory can be written, or the lock file is
there to be read), and one when none was (`"barred"`). A lock file of another user's may deny the
first open in a directory that can be written, too (`OpenDenied`).

**SecretStore.** `mem[h]` is a handle's memory (salt, key id, entries), `undo[h]` what it goes back
to when a write fails, `op[h]` and `res[h]` what it does and how that ended, `tmp[h]` the tmp file of
its last write (`Left` if it stays behind); `known[h]` is history, what the handle's own writes say of the
file: read, written and synced, or unsure since a write failed behind the rename. `cur` is what the path names now, `recoverable` what it may name after the
machine stops, `holders` who has the lock. `Put`, `Delete` and `Rotate` start a write;
`DeleteNothing` is a delete of a name that is not in memory, which is answered Ok without one; `WriteTmp`, `SyncTmp`, `Rename` and
`SyncDir` are `atomic_write`; `CreateFails`, `WriteFails`, `SyncDirFails` and `RemoveTmp`
its failures, with the roll-back of memory that `put` and `delete` do. `RemoveTmp` may fail in turn,
which the code ignores. `Die` ends a process
between any two steps; `Restart` stops the machine, and the disk comes back as any of the
files it may hold. `Remount` changes whether the directory can be written. Sealing is
ideal: an entry records master, salt and value, and opens under the same ones. `get` is the
test of what opens (`Readable`); it changes nothing. Bounds: `MaxGen` (generations),
`MaxPending` (unsynced renames).

**KVStore.** `data` is what the store answers with, `safe` what a restart may come back with, `ask` the
request under way and `told` how the last call that changes the store was answered. `Request`,
`Expose`, `Succeed` and `Fail` are put and delete, `DeleteNothing` the Ok that promises nothing
of `safe`.

**SecretMemory.** Pages are numbers; `mapped`, `noAccess`, `locked`, `noDump` and `dirty`
are sets of them, the last the pages with bytes of a secret. A buffer's life is `Begin`,
`Mmap`, `GuardFront`, `GuardBack`, `Mlock`, `Madvise`, `Fill`, `WipeSource`, `DropBuf`,
`Zeroize`, `Munmap`, with `MmapFails`, `SetupFails`, `FillFails` and `MunmapFails`; two
threads interleave. `DataPages`, `TooLarge` and `DataStart` are the arithmetic of `new`, with
pages of two bytes and a usize of four bits, so that lengths on both sides of a page and of
the overflow are among the six tried.

**DropFilesystem.** `root` and `cwd` are the process's; each thread has its place and its
two descriptors. `Metadata`, `ReadDir`, `OpenHere`, `OpenTarget`, `StepIn`, `Check`,
`Chroot` and `StepBack` are the calls, `FailsEarly`, `FailsInside` and `StepBackFails` their
failures. `Swap` and `Fill` are what others do to the path and to the directories. `stood`
and `wasEmpty` are history.

**Aead and Cli.** A blob is a record of its header's fields and a body; the body opens for
the algorithm, key, nonce and associated data it was made with (the ciphers, HKDF and HMAC
are ideal). A process of `Cli` goes through `parse`, the arguments, the key file, the
derivation, stdin, the work and `out`, each a step that can fail; the next process starts
from the blobs that are there. `Rotate` is a program that calls `reseal`; `Alter` changes a
field of a blob or exchanges it with another blob's.

**PyBinding.** A `SecretBuf` and a `SecretStore` are places in memory with an object or
without, each with a mutex; `stack[t]` is the calls into the binding that thread `t` has
under way, with where each has got to (`lock`, `secret`, `work`, `callback`, ...). `Attach`
and `Detach` are the interpreter's: a thread changes only in Python code, in a callback, or
around Argon2 (`DetachToHash`, `Hashed`, `PasswordReturns`). `Lock`, `LockSecret`, `CopyOut`,
`Take`, `Put`, `Get`, `RotateOk`, `RotateFails`, `FromBytes` are the methods between two
points where something else may run; `Put` stands for `put`, and `Get` for `get`, `delete`,
`contains` and `list`, as the second object of `put` is what tells them apart. Of a file there is its
`generation`, how many times its salt and key id were drawn, and a krypto store has the one it
read or wrote. `OpenStore` takes a file with any master, the one it was written under or another, as
`SecretStore::open` does not look; `OpenFails` leaves a new file without a store. A write gives the
file the header that the store has, whatever the file has (`MayWrite`). `Del`, `DropInner` and
`Free` are reference counts going to zero, the store before the key it refers to, and their
places are used again. `Builds` is how many threads the interpreter attaches at once: the wheels are `abi3-py311`, which has the
lock (`docs/Python.md:21`), so the run takes `{1}`.

**Codec, StoreFormat, Der, Pkix, Pgp.** These are functions, so they are operators over
sequences of octets: a `Result` or an `Option` is a set with at most one member. Der keeps
every length form, Pkix every structure in the order `from_der` asks for it, Pgp both packet
formats and streamed bodies. Facts whose wording alone differs are told as their numbers, and
names of object identifiers that decide nothing are left as arcs. Lengths beyond any input
are as good as one another (`HugeLen`, and `MaxStoreBytes` in the store file), and an arc
wraps at `ArcModulus` as a `u64` does in a release build.

**InspectCalls and Inspect.** `frames` is the stack of calls of `inspect_at`, each with what it
looks at and how deep it is; `found` what the innermost returns. `InspectAt` is a call up to where
it returns or calls itself: part 1 and part 2 of the recognizers (`Recognized`), then the layer
taken off (`Inner`), then the length or nothing (`Otherwise`). `Return` is what the caller
makes of the answer (`Passed`): hex is taken as hex whatever it holds, base64 only if what it
holds is recognized, PEM falls back to its label. `InspectCalls` has these steps and leaves what
is recognized and decoded to parameters; `Recognizers` says what it asks of them: an answer at most,
never "not recognized", layers that end. The operators of `Inspect` are their values in the run, and TLC evaluates
`Recognizers` for all that is in the run's inputs (`RecognizersAssumption`). An input is a
term, so that layers need not be spelled out; where an input is bytes, hex and base64 are the
decoders of `Codec`.

## 3. Runs

| Run | Question | Bounds | Result |
|---|---|---|---|
| `StoreLock_safety` | Can two openers have the store, or a lock be lost? Does each call end as it does for a reason? Does the protocol implement `FileLock`? | 3 openers, 4 inodes, 2 rounds, 2 replacements | holds |
| `StoreLock_lockless` | Is a handle without a lock given only where the directory cannot be written? | 2 openers, 1 replacement, a directory that can be written | violated |
| `StoreLock_race` | Can racing openers all turn each other away? | 3 openers, 1 replacement, no faults, fair | holds |
| `SecretStore_safety` | Is the file whole, of one generation and as acknowledged after any failure or crash? Does a tmp file stay? Does the store implement `KVStore`? | 2 handles, 2 masters, 2 names, 2 values, 2 generations, 2 pending renames | holds |
| `SecretStore_rotate` | Is the file unchanged after a failed `rotate`? | as above, smaller | violated |
| `SecretMemory_safety` | Are secrets locked, intact, fenced and wiped whatever fails? | 2 threads, 9 pages, 3 lockable | holds |
| `DropFilesystem_safety` | What can a caller rely on, on Ok and on Err? | 1 thread, 3 directories, 2 calls, 4 changes by others | holds |
| `Cli_safety` | Does open print only what was sealed, and do exit codes tell failures apart? | 2 keys, 2 plaintexts, 2 blobs made, 1 changed, about 110 command lines | holds |
| `Cli_exit2` | Is exit 2 given for wrong calls only? | 1 blob | violated |
| `PyBinding_safety` | Can a store outlive its key or its lock, write an old generation back, or a call get stuck? | 2 threads, 1 buffer, 2 master keys, 2 stores, 1 file with 3 generations, 2 calls under way, 3 named objects | holds |
| `Inspect_safety` | Is everything told as what it is, in every nesting, with no more layers than two of hex and base64? Do encodings and store files read back? Does inspect end? | 8201 inputs, below | holds |
| `Inspect_csr` | The same with requests whose subject is empty or short | subjects of 0 and 12 octets | violated |

Why the bounds are enough to meet the cases: three openers and two replacements let one
opener hold a lock on an unlinked inode, a second on its successor, while a third reuses the
first inode's number. With two generations and two pending renames a restart can bring back
the old file, the new one or the one between. Two buffers on nine pages meet at the lock
limit and lie next to each other, guard page to guard page; nine pages also leave too few for
two of the largest, so that mmap finds no room. Four changes during two calls are enough to
swap the path after the first check and to empty or fill the directory it then names. Two
blobs and one alteration give every exchange of a field between blobs of different keys.

Two calls under way let a callback call the method it was called from, and two threads meet at
one mutex or cross with a store's and a buffer's; three names leave one of the two stores and
keys unreachable while the other is rotated to. Three generations are the file that was created and two
rotations of it, each of which may work or fail before or behind the rename, with opens and
writes under either key between them.

The inputs of `Inspect_safety` are: one or more of each structure (24 of DER, one request
more per subject length, 9 of OpenPGP, krypto's own, and 5 things of no kind) under every
sequence of up to three layers of PEM, hex and base64, one more than inspect takes off; every
length form of elements and packets of 0 to 8384 octets, on both sides of each boundary; all
texts of up to four letters out of eight, of which some are hex, some base64, some nearly; and
six store files with every octet changed to each of nine values, put in, taken out, doubled or
cut off. A file of 62 octets holds two entries, and `MaxNameLen` is 2, so that a name one
letter too long is among them.

`CHECK_DEADLOCK FALSE` stands in the configurations whose bounds on calls, tries or faults
let the model come to its end: nothing has to happen after that, and nothing waits.

**Fairness.** Two runs need it. In `PyBinding`, a thread that is in Rust or deallocates goes on
(weak fairness of `RustStep`, `DropInner`, `Free`: none of these steps waits but for a mutex),
and the interpreter hands its lock around (strong fairness of `Attach` and `Detach`: a thread
that asks for the lock makes the holder give it up after the switch interval). Nothing is
assumed of Python code: a callback may never return. In `StoreLock_race`, `FairSpec` asks weak fairness of each
opener's own steps: a thread inside `take_lock` makes no call that waits (`try_lock`
returns at once), so the scheduler's fairness is all there is to assume. Replacements are
bounded and not fair, and errors are off, as either could keep every opener out forever.
`Inspect` needs none for its end: `EveryStepGetsNearer` says that each step makes a natural
number smaller, and the run finds no state without a step but the last.

## 4. What the runs found

1. **A failed `rotate` may have rotated** (`SecretStore_rotate`, `store.rs:534`). When the
   open or sync of the directory fails after the rename, the file already is the new
   generation, yet `rotate` returns Err and has consumed the handle; its comment says that
   the file is unchanged. `put` and `delete` roll memory back the same way while the file
   keeps the change: after a `put` that failed there, `delete` of that name answers Ok
   without a write (`DeleteNothing`, `store.rs:166-174`), and the name is back on the next open.
   `KVStore` therefore lets a failed request take effect later, has an Ok for a delete that changes
   nothing, and `safe` says which names are certain. `OkIsDurable` speaks of what was written, and of
   memory and file up to a write that failed there.
2. **A failure to lock memory is exit 2** (`Cli_exit2`, `main.rs:351`): `from_args` turns
   `derive`'s `Hardening` into "the call is wrong".
3. **A request is told as a private key** (`Inspect_csr`, `inspect/mod.rs:282`).
   `pkcs8_p256` looks for three marks in the first 48 octets and not for the structure. A
   PKCS#10 request for a P-256 key with an empty or short subject (`-subj /CN=x`) and at most
   511 octets has all three, and is asked about before `pkix::from_der` could tell it. A
   P-256 public key whose first coordinate begins with 02 01 00 has them as well.
4. **A handle without a lock in a directory that can be written** (`StoreLock_lockless`,
   `store.rs:442`). `open_lock_file` opens twice. If another user's lock file denies the first open
   and is gone at the second, NotFound is taken for a directory that cannot be written. The loop that
   covers a replaced lock file begins only after the open. `EndsForAReason` is what does hold: without a
   lock there was, during the call, a moment when none was to be had, or a replacement.

Seen while modelling, without a run of their own:

- Two threads in `drop_filesystem` can leave the process outside its own root (`ffi.rs:329`): the
  working directory in which the call keeps its place is the process's. With two `Threads`
  TLC finds `NeverOutsideRoot` violated. Neither `harden.rs` nor `ffi.rs` says who may call.
- A handle without a lock can save (`store.rs:399`). It is given because the directory
  could not be written; nothing looks again later. `store.rs:71-73` says of such a handle
  that "nothing can be saved there either". With `LiveRemount = TRUE` the directory changes
  under live handles, and TLC finds `OkIsDurable`, `ServesWhatDiskMayHold` and `ImplementsMap`
  violated: such a handle saves over another's file. The runs keep it FALSE. Finding 4 is another
  way to such a handle; in `SecretStore` nobody removes the lock file, so there is none.
- A tmp file can stay behind (`store.rs:516`): when a write fails and `remove_file` fails as well, nobody
  looks at that, although `store.rs:490-492` says that a failed write leaves no `.tmp-*` files.
  `NoTmpLeftBehind` says that this, and the end of the process, are the only ways.
- One key id can stand for two masters (`store.rs:127`): `open` does not compare the master
  with the file, and `put` seals under it with the file's key id. `ReadsBackWhatItHolds` therefore speaks
  of stores that were used with one master (`strayed`), and `NeverStale` of generations and not of
  masters.
- `oid_text` subtracts 80 from a first arc that is spelled in more than one octet
  (`inspect/der.rs:73-75`): an overlong one like 80 01 is below 80, which is a panic in a
  debug build and a wrapped number in a release build, which the model has.
- Hex or base64 inside two PEM layers is not unwrapped, as PEM counts as depth
  (`inspect/mod.rs:82`); the documentation says that anything wrapped is. `ToldAsItself`
  speaks of the layers that are taken off.
- PEM in PEM has no bound on its depth. Each layer takes a quarter off the input, so the
  `u8` that counts them does not overflow.

Also: `verify` looks at the shape of the key and signature only after stdin
(`main.rs:385`), so `WrongCallIsToldFirst` leaves it out, and a changed key id is exit 4 and
not 3, as `main.rs:360` says, so `CodesTellApart` counts it so. A blob cut off inside its header is not
recognized as one: Format, exit 1 (`aead.rs:99-105`), like anything else that is no blob.

## 5. Proofs

TLAPS checks every proof, for any number of openers, handles, names, directories and any
value of the bounds. Assumed are only the named ASSUMEs of the modules (sentinels are
outside the sets they are sentinels of; bounds are naturals), which TLC evaluates.

*StoreLock.* `IInv` is `TypeOK /\ LockInv /\ ChurnInv /\ MetInv`. Mutual exclusion is not inductive
by itself: that the path names a holder's inode must be known to survive replacements, and
that an inode whose number is free has no owner. `LockInv` says where in the call an
opener owns the flock of its descriptor, that an owner has that descriptor, and that a
holder's inode is at the path. From these follow `MutexTheorem`, `VisibleTheorem` and
`NoLeakTheorem`. `ChurnInv` counts replacements against rounds, and `MetInv` says what a call at
each of its steps has met: between the two opens, that the first was denied, and by what. From the
two follows `ReasonTheorem`, which is why `SecretStore` may take `take_lock` as one step with a
guard on the directory. `RefinementTheorem` maps the one holder to `FileLock`, where each step is
a lock, an unlock or a stutter.

*SecretStore.* `IInv` is `TypeOK /\ MemInv /\ TmpInv /\ DiskInv`: what is in memory and in
each tmp file is of one generation and fits, there is one while a write is under way, a tmp file that may be renamed is whole and
synced, and then so is every file the path may name after a restart. From it
`WholeFileTheorem`, `SizeTheorem` (together `LoadableTheorem`), `GenerationTheorem` and
`TmpTheorem`. The second half of the module goes on
with `JInv`, which adds who may write. `LockInv`: there is one owner of the lock, and nobody
else gets to a tmp file. `OpInv`: memory is ahead of `undo` by the one change under way.
`OwnerInv`: from the tmp file to the path it is the owner's memory that is written; what it
serves, or would go back to, may be on disk; and what it knows of the file (`known`) is so: after an
Ok that was written nothing else can come back, and until a write fails behind the rename memory and
file agree. The Ok of `DeleteNothing` says nothing of the file, and is a step of `KVStore` of its
own.
`DurableTheorem` and `ServesTheorem` read this off, and `MapTheorem` takes each step to a step
of `KVStore` or to a stutter: a request begins with the change in memory, is exposed by the
rename, and succeeds or fails with the call; a failed one that was exposed may come back at a
restart, whole, and never at another name's cost. The three are about the behaviours in which
only the owner begins a write (`OnlyOwnerWrites`), and outside of them TLC finds
counterexamples (section 4). `OwnerTheorem` says when that is so: while directories keep their
permissions under live handles (`~LiveRemount`), as in the runs, since a handle without the
lock is there because its directory cannot be written (`DirInv`). `ReadsBackTheorem` needs
none of this.

*SecretMemory.* The properties speak of all pages at once; a step touches one mapping. So
the invariant says of each buffer who has a mapping and when (`OwnInv`), which of its pages
are guards, locked and kept out of dumps at each step of `new` (`GuardInv`), and where the
bytes of its secret are, in the mapping and in the `Vec` they came in (`SecretInv`); and
`NoStrandedPages`, that mappings are disjoint, carries this past the steps of other buffers.
`Geometry` is the arithmetic: for any page size, and any length that `new` accepts, the data
pages lie between the two guards and hold the bytes, whose end is the back guard's start.

*Cli.* `WorldInv` says which bodies there can be: others can break a body or exchange it
with another blob's, and only `seal` makes one. `StageInv` says which command comes to which
step, and what it has read by then; `KeyInv`, that the key in use is the one of this master
and context. With the theorems of `Aead` the six properties follow, for any key files, command
lines and plaintexts.

*PyBinding.* For any number of threads, objects and files, and for interpreters with the lock
and without. `StackInv`: below the call that a thread is in there are only calls in their
callbacks, which hold nothing. `CallInv` is what a call holds where it is: its thread is
attached, it has the mutex of its object and what that guards is there, and a rotate has the
store that its object no longer has. `MutexInv`: nobody else has that mutex, and nobody keeps
one. `RefInv`: what is named, used by a call or kept by a store exists. `HandInv` looks at a krypto
store wherever it is, in an object or in a call (`Hands`): no two hands have the same file, a
file is locked if and only if some hand has it, and its generation is the file's: who writes is a hand,
and the only one of its file, so that nobody else's header is written over. Which master it has plays
no part.
Every step leaves the hands alone, or fills, empties or passes one (`HandsKeep`, `HandGets`,
`HandDrops`, `HandPasses`). `MasterTheorem`, `StaleTheorem`, `LockTheorem` and
`MutexTheorem` follow; the last is why no call can wait in a circle, and `EveryCallReturns`
adds, by TLC, that it does come back.

*DropFilesystem.* The three properties are proved for one calling thread (`OneCaller`), with
any directories and others that change anything at any time. `PlaceInv` says where the
process stands at each step and that past the first check the root is still the first one;
`EmptyInv` that a directory which is empty now was empty in the call. Neither holds with two
threads (section 4), and the theorems would not either. Type correctness holds for any number.

*Aead.* `RoundTrip`, `OpenMeansSealed`, `ChangedIsAuth` and `ResealKeeps` are about every
key, key id, plaintext and blob, given the ideal ciphers.

*InspectCalls.* For any recognizers and decoders of which `Recognizers` holds. `FramesInv`: the
stack leads from the input inwards, each call for the inside of the one before and at the depth
of its place. `FoundInv` counts the layers of an answer from the call that gives it (`Level`), so that a
return, which adds one, keeps the bound of two; `LayersTheorem` reads it off at the end.
`EndTheorem` is the action property that each step makes `ToDo` smaller. `NestingTheorem` is about
a chain of any number of layers (`Nested`): at each moment the stack is a front of the chain and an
answer has just the layers that are left (`NestedInv`), so in the end all of them stand around
what the innermost was recognized as. `ToldAsItself` is this for three layers and all
structures, with the recognizers' part, that each is recognized as what it is.

*Codec.* Hex has no state between two bytes, so it is a function of each place, and
`HexReadsBack` and `HexOneSpelling` hold for any length.

Before it was proved, each invariant was checked by TLC on the instance of the component's run.

Only model-checked: `SomeoneGetsIn` and `EveryCallReturns` (liveness under fairness, which
like ENABLED is out of the prover's reach), and `ReadsBack`, `StoreReadsBack` and `ToldAsItself`.
The last three say what `Codec`, `StoreFormat`, `Der`, `Pkix` and `Pgp` compute, by recursion or
folds over an input, and induction over data and RECURSIVE operators are out of the prover's reach
as well; but hex and the nesting of layers are proved apart from them. That inspect has no state without a
step but the last is TLC's to say, too.

## 6. Not modelled, and why

- The ciphers, hashes, signatures and Argon2 are other crates' code. They appear as ideal
  operators (`Aead`) or as outcomes (`Cli`).
- `password.rs`, `sign.rs` and `exchange.rs` are stateless calls into them; what is krypto's
  own there is a length check each and the mapping of errors.
- `scrub_stack` and the wipes of short-lived buffers: the stack has no state in a model.
- `files.rs`, `ssh.rs` and `text.rs` of inspect test for fixed marks at fixed places; what they
  tell stands in `Inspect` as terms told at once. So do the tables of labels and names.
- Texts, logging, the layout of reports; `bench`'s loop. What counts as UTF-8 beyond ASCII.
- The growth of `read_stdin_secret`'s buffer: its one risk, a `Vec` that grows by itself, is
  excluded by a maximum taken in the line before (`main.rs:463`).
- In the Python binding, `SecretString` and `DerivedKey` only own their secret and never
  change, and functions over bytes pass arguments through.
- `harden_process`, `no_new_privs`, `close_inherited_fds`: one or two idempotent system calls
  each, returned as they are.
- `MunmapFails` loses pages, and a `RemoveTmp` that fails leaves a tmp file: the models
  have both, and say nothing more of what is left behind.

## 7. What would come next

Every safety and action property that a run checks is proved, but for the three just named. What
else the code has to say:

1. `take_lock` inside `SecretStore`, system call by system call, with lock files that others
   remove: what a handle from finding 4 can do to the file, beyond what `LiveRemount` shows.
2. `StoreFormat` written with folds alone, for a proof of what does not need induction: that the
   loader refuses a name that stands twice, whatever the rest of the file is.
3. More names for `PyBinding_safety`, with an interpreter without the lock, once it fits the time.
