--------------------------- MODULE DropFilesystem ---------------------------
(***************************************************************************)
(* drop_filesystem of src/src/harden.rs with chroot_into and chroot_here    *)
(* of src/src/ffi.rs.  Threads call it; each system call is one step.  The  *)
(* root and the working directory belong to the process, so all threads     *)
(* share them.  Meanwhile others may swap what the path names and create or *)
(* remove entries in the directories.  Slash is the root the process starts *)
(* with; every other directory lies below it, and beside the others.        *)
(***************************************************************************)
EXTENDS Naturals

CONSTANTS
  Threads,      \* threads that call drop_filesystem
  Dirs,         \* directories, Slash among them
  Slash,        \* the root at the start; never empty
  NotDir,       \* what a path names when it is no directory
  None,         \* what a path names when nothing is there; no descriptor
  MaxChanges,   \* bound: changes to the file system by others
  MaxCalls      \* bound: calls by each thread

ASSUME DirsAssumption == /\ Slash \in Dirs
                         /\ NotDir \notin Dirs /\ None \notin Dirs /\ NotDir # None
ASSUME BoundsAssumption == MaxChanges \in Nat /\ MaxCalls \in Nat

VARIABLES
  pc,        \* where each thread is in its call, or how its last call ended
  here,      \* descriptor on the directory stood in before the call
  target,    \* descriptor on the directory the path named
  cwd,       \* the process's working directory
  root,      \* the process's root directory
  path,      \* what the argument's path names, from Slash
  filled,    \* the directories that have entries
  calls,     \* calls each thread has begun
  changes,   \* changes by others so far
  stood,     \* history: where the process stood when each thread's call began
  wasEmpty   \* history: directories empty at some moment of each thread's call

vars == <<pc, here, target, cwd, root, path, filled, calls, changes, stood, wasEmpty>>

Running == {"metadata", "read_dir", "open_here", "open_target", "step_in",
            "check", "chroot", "step_back"}
Ended   == {"ok", "err", "err_away"}     \* err_away: the error says stepping back failed

TypeOK ==
  /\ pc \in [Threads -> {"idle"} \cup Running \cup Ended]
  /\ here \in [Threads -> Dirs \cup {None}] /\ target \in [Threads -> Dirs \cup {None}]
  /\ cwd \in Dirs /\ root \in Dirs
  /\ path \in Dirs \cup {NotDir, None}
  /\ filled \in SUBSET Dirs /\ Slash \in filled
  /\ calls \in [Threads -> 0..MaxCalls] /\ changes \in 0..MaxChanges
  /\ stood \in [Threads -> Dirs]
  /\ wasEmpty \in [Threads -> SUBSET Dirs]
  \* Both descriptors are closed when the call returns.
  /\ \A t \in Threads :
       /\ here[t] # None <=> pc[t] \in {"open_target", "step_in", "check", "chroot", "step_back"}
       /\ target[t] # None <=> pc[t] \in {"step_in", "check", "chroot", "step_back"}

Init ==
  /\ pc = [t \in Threads |-> "idle"]
  /\ here = [t \in Threads |-> None] /\ target = [t \in Threads |-> None]
  /\ cwd \in Dirs /\ root = Slash
  /\ path \in Dirs \cup {NotDir, None}
  /\ filled \in {F \in SUBSET Dirs : Slash \in F}
  /\ calls = [t \in Threads |-> 0] /\ changes = 0
  /\ stood = [t \in Threads |-> cwd]
  /\ wasEmpty = [t \in Threads |-> {}]

-----------------------------------------------------------------------------
\* Below a new root, which was empty, the argument's path names nothing.
Named == IF root = Slash THEN path ELSE None

GoTo(t, label) == pc' = [pc EXCEPT ![t] = label]

\* Mutant: the descriptor on the old place, outside the new root, stays open.
ReturnKeepsHere(t, how) ==
  /\ GoTo(t, how)
  /\ target' = [target EXCEPT ![t] = None]
  /\ UNCHANGED here

\* The call returns; both descriptors close.
Return(t, how) ==
  /\ GoTo(t, how)
  /\ here' = [here EXCEPT ![t] = None]
  /\ target' = [target EXCEPT ![t] = None]

Call(t) ==
  /\ pc[t] \in {"idle"} \cup Ended /\ calls[t] < MaxCalls
  /\ GoTo(t, "metadata")
  /\ calls' = [calls EXCEPT ![t] = @ + 1]
  /\ stood' = [stood EXCEPT ![t] = cwd]
  /\ wasEmpty' = [wasEmpty EXCEPT ![t] = Dirs \ filled]
  /\ UNCHANGED <<here, target, cwd, root, path, filled, changes>>

Metadata(t) ==
  /\ pc[t] = "metadata" /\ Named \in Dirs
  /\ GoTo(t, "read_dir")
  /\ UNCHANGED <<here, target, cwd, root, path, filled, calls, changes, stood, wasEmpty>>

\* The check of the path's directory, by the path.
ReadDir(t) ==
  /\ pc[t] = "read_dir" /\ Named \in Dirs \ filled
  /\ GoTo(t, "open_here")
  /\ UNCHANGED <<here, target, cwd, root, path, filled, calls, changes, stood, wasEmpty>>

OpenHere(t) ==
  /\ pc[t] = "open_here"
  /\ here' = [here EXCEPT ![t] = cwd]
  /\ GoTo(t, "open_target")
  /\ UNCHANGED <<target, cwd, root, path, filled, calls, changes, stood, wasEmpty>>

\* O_DIRECTORY: opens a directory only.
OpenTarget(t) ==
  /\ pc[t] = "open_target" /\ Named \in Dirs
  /\ target' = [target EXCEPT ![t] = Named]
  /\ GoTo(t, "step_in")
  /\ UNCHANGED <<here, cwd, root, path, filled, calls, changes, stood, wasEmpty>>

\* Mutant: straight from the step to the chroot, on the word of the first check.
StepInUnchecked(t) ==
  /\ pc[t] = "step_in"
  /\ cwd' = target[t]
  /\ GoTo(t, "chroot")
  /\ UNCHANGED <<here, target, root, path, filled, calls, changes, stood, wasEmpty>>

StepIn(t) ==
  /\ pc[t] = "step_in"
  /\ cwd' = target[t]
  /\ GoTo(t, "check")
  /\ UNCHANGED <<here, target, root, path, filled, calls, changes, stood, wasEmpty>>

\* A step before the process has moved fails: the path names no directory, or
\* one with entries, or the kernel refuses the call.
FailsEarly(t) ==
  /\ pc[t] \in {"metadata", "read_dir", "open_here", "open_target", "step_in"}
  /\ Return(t, "err")
  /\ UNCHANGED <<cwd, root, path, filled, calls, changes, stood, wasEmpty>>

\* The check of the directory the process stands in.
Check(t) ==
  /\ pc[t] = "check" /\ cwd \notin filled
  /\ GoTo(t, "chroot")
  /\ UNCHANGED <<here, target, cwd, root, path, filled, calls, changes, stood, wasEmpty>>

\* Mutant: chroot by the path, which may name another directory by now.
ChrootByPath(t) ==
  /\ pc[t] = "chroot" /\ Named \in Dirs
  /\ root' = Named
  /\ Return(t, "ok")
  /\ UNCHANGED <<cwd, path, filled, calls, changes, stood, wasEmpty>>

Chroot(t) ==
  /\ pc[t] = "chroot"
  /\ root' = cwd
  /\ Return(t, "ok")
  /\ UNCHANGED <<cwd, path, filled, calls, changes, stood, wasEmpty>>

\* Mutant: the error is returned from where the process now stands.
FailsInsideAndStays(t) ==
  /\ pc[t] \in {"check", "chroot"}
  /\ Return(t, "err")
  /\ UNCHANGED <<cwd, root, path, filled, calls, changes, stood, wasEmpty>>

\* read_dir(".") fails or finds an entry, or chroot is refused.
FailsInside(t) ==
  /\ pc[t] \in {"check", "chroot"}
  /\ GoTo(t, "step_back")
  /\ UNCHANGED <<here, target, cwd, root, path, filled, calls, changes, stood, wasEmpty>>

StepBack(t) ==
  /\ pc[t] = "step_back"
  /\ cwd' = here[t]
  /\ Return(t, "err")
  /\ UNCHANGED <<root, path, filled, calls, changes, stood, wasEmpty>>

StepBackFails(t) ==
  /\ pc[t] = "step_back"
  /\ Return(t, "err_away")
  /\ UNCHANGED <<cwd, root, path, filled, calls, changes, stood, wasEmpty>>

-----------------------------------------------------------------------------
\* Others: the path comes to name something else.
Swap ==
  /\ changes < MaxChanges
  /\ path' \in (Dirs \cup {NotDir, None}) \ {path}
  /\ changes' = changes + 1
  /\ UNCHANGED <<pc, here, target, cwd, root, filled, calls, stood, wasEmpty>>

\* Others: a directory's first entry is created, or its last one removed.
Fill ==
  /\ changes < MaxChanges
  /\ \E d \in Dirs \ {Slash} :
       filled' = IF d \in filled THEN filled \ {d} ELSE filled \cup {d}
  /\ changes' = changes + 1
  /\ wasEmpty' = [t \in Threads |-> wasEmpty[t] \cup (Dirs \ filled')]
  /\ UNCHANGED <<pc, here, target, cwd, root, path, calls, stood>>

DropStep(t) ==
  \/ Call(t) \/ Metadata(t) \/ ReadDir(t) \/ OpenHere(t) \/ OpenTarget(t)
  \/ StepIn(t) \/ FailsEarly(t) \/ Check(t) \/ Chroot(t) \/ FailsInside(t)
  \/ StepBack(t) \/ StepBackFails(t)

Next == Swap \/ Fill \/ \E t \in Threads : DropStep(t)

Spec == Init /\ [][Next]_vars

-----------------------------------------------------------------------------
\* The process never stands outside its own root (ffi.rs:306), in a call, after
\* it, and after the next one.
NeverOutsideRoot == root = Slash \/ cwd = root

\* Whatever is swapped during the call, the root only ever becomes a directory
\* that was empty at some moment of it: the first check, made by the path, does
\* not give that by itself.  Only others' later entries can fill it.
RootWasEmpty ==
  [][root' # root => \E t \in Threads : pc[t] = "chroot" /\ root' \in wasEmpty[t]]_vars

\* A call that returns Err has changed no root, and the process stands where it
\* stood unless the error says so.
ErrChangesNothing ==
  [][\A t \in Threads :
       pc[t] \in Running =>
         /\ pc'[t] = "err" => root' = root /\ cwd' = stood[t]
         /\ pc'[t] = "err_away" => root' = root]_vars
=============================================================================
