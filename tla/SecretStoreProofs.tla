-------------------------- MODULE SecretStoreProofs --------------------------
(***************************************************************************)
(* The store file is always whole, within the size open accepts and of one  *)
(* generation, whatever fails or stops, for any number of handles, masters, *)
(* names and values.  None of these is inductive alone: what reaches the    *)
(* path is what a handle had in memory when its write began, so the          *)
(* invariant also speaks of the memory, the rollback copy and the tmp file. *)
(***************************************************************************)
EXTENDS SecretStore, TLAPS

\* One generation: the header's draw is the blobs'.
Consistent(s) ==
  /\ s.kid = s.salt
  /\ \A n \in Present(s) :
       s.entries[n].kid = s.kid /\ s.entries[n].salt = s.salt /\ s.entries[n].name = n

Knowledge == {"unread", "read", "synced", "unsure"}

\* An operation of h ends without Ok: the handle goes, or takes the change back, and
\* is unsure of the file if the rename was done.
Ends(h) ==
  \/ Drop(h)
  \/ \E k \in Knowledge :
       /\ k = "unsure" \/ (k = known[h] /\ pc[h] # "dirsync")
       /\ RollBack(h, k)

MemInv ==
  \A h \in Handles :
    /\ mem[h] # Closed => Consistent(mem[h])
    /\ undo[h] # Closed => Consistent(undo[h])

TmpInv ==
  \A h \in Handles :
    /\ pc[h] \in {"sync", "rename", "cleanup"} => tmp[h] \in Tmps
    /\ tmp[h] \in Tmps =>
         /\ pc[h] \in {"sync", "rename", "cleanup"}
         /\ Consistent(tmp[h].image)
         /\ Size(tmp[h].image.entries) <= Cap
    /\ pc[h] = "rename" => tmp[h].synced

DiskInv ==
  /\ cur \in recoverable /\ Torn \notin recoverable
  /\ \A f \in recoverable \ {NoFile} : Consistent(f) /\ Size(f.entries) <= Cap

IInv == TypeOK /\ MemInv /\ TmpInv /\ DiskInv

-----------------------------------------------------------------------------
\* What the operators on stores return.

LEMMA FreshIsStore ==
  ASSUME NEW m \in Masters, gen' \in 0..MaxGen
  PROVE  Fresh(m, NoEntries) \in Stores /\ Consistent(Fresh(m, NoEntries))
BY DistinctAssumption DEF Fresh, NoEntries, Stores, Entries, Consistent, Present

LEMMA SealIsBlob ==
  ASSUME NEW s \in Stores, NEW n \in Names, NEW v \in Vals
  PROVE  /\ Seal(s, n, v) \in Blobs
         /\ Seal(s, n, v).kid = s.kid /\ Seal(s, n, v).salt = s.salt
         /\ Seal(s, n, v).name = n
BY DEF Seal, Stores, Blobs

LEMMA ImageIsFile ==
  ASSUME NEW s \in Stores
  PROVE  /\ Image(s) \in Files /\ Image(s).entries = s.entries
         /\ Consistent(s) => Consistent(Image(s))
BY DEF Image, Stores, Files, Consistent, Present

LEMMA LoadIsStore ==
  ASSUME NEW f \in Files, NEW m \in Masters
  PROVE  Load(f, m) \in Stores /\ (Consistent(f) => Consistent(Load(f, m)))
BY DEF Load, Stores, Files, Consistent, Present

\* put and delete change one entry and keep the generation.
LEMMA SetIsStore ==
  ASSUME NEW s \in Stores, NEW n \in Names, NEW b \in Blobs \cup {NoBlob}
  PROVE  /\ [s EXCEPT !.entries[n] = b] \in Stores
         /\ Consistent(s) /\ (b # NoBlob => b.kid = s.kid /\ b.salt = s.salt /\ b.name = n)
              => Consistent([s EXCEPT !.entries[n] = b])
<1> DEFINE t == [s EXCEPT !.entries[n] = b]
<1>1. /\ t \in Stores /\ t.kid = s.kid /\ t.salt = s.salt
      /\ t.entries = [s.entries EXCEPT ![n] = b] /\ s.entries \in Entries
  BY DEF Stores, Entries
<1>2. ASSUME Consistent(s), b # NoBlob => b.kid = s.kid /\ b.salt = s.salt /\ b.name = n
      PROVE  Consistent(t)
  BY <1>1, <1>2 DEF Consistent, Present, Entries
<1>3. QED
  BY <1>1, <1>2

\* rotate reseals every entry under the new draw.
LEMMA ResealIsStore ==
  ASSUME NEW s \in Stores, NEW new \in Stores, new.kid = new.salt
  PROVE  LET t == [new EXCEPT !.entries =
                    [n \in Names |-> IF n \in Present(s)
                                     THEN Seal(new, n, s.entries[n].val) ELSE NoBlob]]
         IN  t \in Stores /\ Consistent(t)
<1> DEFINE e == [n \in Names |-> IF n \in Present(s)
                                 THEN Seal(new, n, s.entries[n].val) ELSE NoBlob]
           t == [new EXCEPT !.entries = e]
<1>1. \A n \in Present(s) : n \in Names /\ s.entries[n].val \in Vals
  BY DEF Present, Stores, Entries, Blobs
<1>2. /\ e \in Entries
      /\ \A n \in Names : e[n] # NoBlob =>
           e[n].kid = new.kid /\ e[n].salt = new.salt /\ e[n].name = n
  BY <1>1, SealIsBlob DEF Entries
<1>3. t \in Stores /\ t.entries = e /\ t.kid = new.kid /\ t.salt = new.salt
  BY <1>2 DEF Stores
<1>4. Consistent(t)
  BY <1>2, <1>3 DEF Consistent, Present
<1>5. QED
  BY <1>3, <1>4

-----------------------------------------------------------------------------
\* The two ways an operation can end for its handle.

LEMMA EndsInv ==
  ASSUME IInv, NEW h \in Handles, Ends(h)
  PROVE  /\ holders' \subseteq Handles
         /\ pc' \in [Handles -> {"closed", "read", "ready"} \cup Persisting]
         /\ mem' \in [Handles -> Stores \cup {Closed}]
         /\ undo' \in [Handles -> Stores \cup {Closed}]
         /\ op' \in [Handles -> {Idle, Opening, Rotating} \cup Changes]
         /\ res' \in [Handles -> {"none", "ok", "error"}]
         /\ known' \in [Handles -> Knowledge]
         /\ \A k \in Handles : mem'[k] = Closed <=> pc'[k] = "closed"
         /\ MemInv'
         /\ \A k \in Handles \ {h} : pc'[k] = pc[k]
         /\ pc'[h] \in {"closed", "ready"}
<1>1. CASE Drop(h)
  BY <1>1 DEF IInv, TypeOK, MemInv, Drop, Goto, Persisting, Knowledge
<1>2. CASE undo[h] # Closed /\ \E k \in Knowledge : RollBack(h, k)
  <2>1. PICK k \in Knowledge :
          /\ holders' = holders /\ pc' = [pc EXCEPT ![h] = "ready"]
          /\ mem' = [mem EXCEPT ![h] = undo[h]] /\ undo' = [undo EXCEPT ![h] = Closed]
          /\ op' = [op EXCEPT ![h] = Idle] /\ res' = [res EXCEPT ![h] = "error"]
          /\ known' = [known EXCEPT ![h] = k]
    BY <1>2 DEF RollBack, Goto
  <2>2. undo[h] \in Stores /\ undo[h] # Closed
    BY <1>2 DEF IInv, TypeOK
  <2>3. QED
    BY <2>1, <2>2 DEF IInv, TypeOK, MemInv, Persisting, Knowledge
<1>3. QED
  BY <1>1, <1>2 DEF Ends, RollBack

LEMMA EndsOf ==
  ASSUME TypeOK, NEW h \in Handles,
         ReadFails(h) \/ RotateAuth(h) \/ Close(h) \/ CreateFails(h) \/ SyncDirFails(h)
           \/ RemoveTmp(h) \/ Die(h)
  PROVE  Ends(h) /\ pc[h] # "closed" /\ UNCHANGED disk
<1>1. known[h] \in Knowledge /\ "unsure" \in Knowledge
  BY DEF TypeOK, Knowledge
<1>2. CASE ReadFails(h) \/ RotateAuth(h) \/ Close(h) \/ Die(h)
  BY <1>2 DEF Ends, ReadFails, RotateAuth, Close, Die
<1>3. CASE CreateFails(h) \/ SyncDirFails(h) \/ RemoveTmp(h)
  BY <1>1, <1>3 DEF Ends, CreateFails, SyncDirFails, RemoveTmp
<1>4. QED
  BY <1>2, <1>3

-----------------------------------------------------------------------------
\* One lemma per kind of step.  A step that leaves the disk and the tmp files
\* alone and moves no handle in or out of a write keeps TmpInv and DiskInv.

LEMMA QuietStep ==
  ASSUME IInv, UNCHANGED <<disk, tmp>>, NEW h \in Handles,
         pc[h] \notin {"sync", "rename", "cleanup"},
         pc' \in [Handles -> {"closed", "read", "ready"} \cup Persisting],
         pc'[h] \notin {"sync", "rename", "cleanup"},
         \A k \in Handles \ {h} : pc'[k] = pc[k]
  PROVE  TmpInv' /\ DiskInv'
<1>1. DiskInv'
  BY DEF IInv, DiskInv, disk
<1>2. TmpInv'
  BY DEF IInv, TmpInv
<1>3. QED
  BY <1>1, <1>2

LEMMA OpenStep ==
  ASSUME IInv, NEW h \in Handles, NEW m \in Masters, TakeLock(h, m) \/ SkipLock(h, m)
  PROVE  IInv'
<1> DEFINE s == [master |-> m, salt |-> 0, kid |-> 0, entries |-> NoEntries]
<1>1. s \in Stores /\ Consistent(s) /\ s # Closed
  BY BoundAssumption, DistinctAssumption DEF Stores, Entries, NoEntries, Consistent, Present
<1>2. TypeOK' /\ MemInv'
  <2>1. /\ mem' = [mem EXCEPT ![h] = s] /\ pc' = [pc EXCEPT ![h] = "read"]
        /\ op' = [op EXCEPT ![h] = Opening] /\ lockFile' \in BOOLEAN
        /\ UNCHANGED <<disk, gen, dir, undo, res, known, tmp, strayed>>
    BY DEF TakeLock, SkipLock, Goto, env, IInv, TypeOK
  <2>2. holders' \subseteq Handles
    BY DEF TakeLock, SkipLock, Lock!Acquire, IInv, TypeOK
  <2>3. TypeOK'
    BY <1>1, <2>1, <2>2 DEF IInv, TypeOK, disk, Persisting
  <2>4. MemInv'
    BY <1>1, <2>1 DEF IInv, TypeOK, MemInv
  <2>5. QED
    BY <2>3, <2>4
<1>3. TmpInv' /\ DiskInv'
  BY <1>2, QuietStep DEF TakeLock, SkipLock, Goto, IInv, TypeOK, Persisting
<1>4. QED
  BY <1>2, <1>3 DEF IInv

\* The steps that end a handle or an operation without touching the disk.
LEMMA EndStep ==
  ASSUME IInv, NEW h \in Handles,
         ReadFails(h) \/ RotateAuth(h) \/ Close(h) \/ CreateFails(h) \/ SyncDirFails(h)
  PROVE  IInv'
<1>1. Ends(h)
  BY EndsOf DEF IInv
<1>2. /\ UNCHANGED <<disk, gen, env, tmp, strayed>>
      /\ pc[h] \notin {"sync", "rename", "cleanup"}
  BY DEF ReadFails, RotateAuth, Close, CreateFails, SyncDirFails
<1>3. /\ TypeOK' /\ MemInv'
      /\ \A k \in Handles \ {h} : pc'[k] = pc[k]
      /\ pc'[h] \in {"closed", "ready"}
  BY <1>1, <1>2, EndsInv DEF IInv, TypeOK, Knowledge, disk, env
<1>4. TmpInv' /\ DiskInv'
  BY <1>2, <1>3, QuietStep DEF TypeOK
<1>5. QED
  BY <1>3, <1>4 DEF IInv

LEMMA ReadStep ==
  ASSUME IInv, NEW h \in Handles, ReadFile(h)
  PROVE  IInv'
<1>1. CASE ~Loads(cur)
  <2>1. Ends(h) /\ UNCHANGED <<disk, gen, env, tmp, strayed>> /\ pc[h] = "read"
    BY <1>1 DEF ReadFile, Ends
  <2>2. /\ TypeOK' /\ MemInv'
        /\ \A k \in Handles \ {h} : pc'[k] = pc[k]
        /\ pc'[h] \in {"closed", "ready"}
    BY <2>1, EndsInv DEF IInv, TypeOK, Knowledge, disk, env
  <2>3. TmpInv' /\ DiskInv'
    BY <2>1, <2>2, QuietStep DEF TypeOK
  <2>4. QED
    BY <2>2, <2>3 DEF IInv
<1>2. CASE Loads(cur)
  <2> DEFINE s == Load(cur, mem[h].master)
  <2>1. cur \in Files /\ Consistent(cur) /\ mem[h] \in Stores
    BY DEF ReadFile, IInv, TypeOK, DiskInv
  <2>2. s \in Stores /\ Consistent(s)
    <3>1. mem[h].master \in Masters
      BY <2>1 DEF Stores
    <3>2. QED
      BY <2>1, <3>1, LoadIsStore
  <2>3. /\ pc[h] = "read" /\ pc' = [pc EXCEPT ![h] = "ready"]
        /\ mem' = [mem EXCEPT ![h] = s]
        /\ strayed' \in BOOLEAN
        /\ op' = [op EXCEPT ![h] = Idle] /\ known' = [known EXCEPT ![h] = "read"]
        /\ UNCHANGED <<disk, gen, env, tmp, undo, res, holders>>
    <3>1. strayed' = (strayed \/ ~ReadableAll(s))
      BY <1>2 DEF ReadFile
    <3>2. QED
      BY <1>2, <3>1 DEF ReadFile, Goto
  <2>4. TypeOK'
    BY <2>2, <2>3, DistinctAssumption DEF IInv, TypeOK, disk, env
  <2>5. MemInv'
    BY <2>2, <2>3 DEF IInv, TypeOK, MemInv
  <2>6. TmpInv' /\ DiskInv'
    BY <2>3, <2>4, QuietStep DEF IInv, TypeOK
  <2>7. QED
    BY <2>4, <2>5, <2>6 DEF IInv
<1>3. QED
  BY <1>1, <1>2

LEMMA CreateStep ==
  ASSUME IInv, NEW h \in Handles, CreateStore(h)
  PROVE  IInv'
<1> DEFINE s == Fresh(mem[h].master, NoEntries)
<1>1. mem[h] \in Stores /\ mem[h].master \in Masters /\ gen' \in 0..MaxGen
  BY BoundAssumption DEF CreateStore, IInv, TypeOK, Stores
<1>2. s \in Stores /\ Consistent(s)
  BY <1>1, FreshIsStore
<1>3. /\ pc[h] = "read" /\ pc' = [pc EXCEPT ![h] = "persist"]
      /\ mem' = [mem EXCEPT ![h] = s]
      /\ UNCHANGED <<disk, env, holders, undo, op, res, known, tmp, strayed>>
  BY DEF CreateStore, Goto
<1>4. TypeOK'
  BY <1>1, <1>2, <1>3, DistinctAssumption DEF IInv, TypeOK, disk, env, Persisting
<1>5. MemInv'
  BY <1>2, <1>3 DEF IInv, TypeOK, MemInv
<1>6. TmpInv' /\ DiskInv'
  BY <1>3, <1>4, QuietStep DEF IInv, TypeOK
<1>7. QED
  BY <1>4, <1>5, <1>6 DEF IInv

\* put and delete.
LEMMA SetStep ==
  ASSUME IInv, NEW h \in Handles, NEW n \in Names,
         (\E v \in Vals : Put(h, n, v)) \/ Delete(h, n)
  PROVE  IInv'
<1>1. /\ pc[h] = "ready" /\ pc' = [pc EXCEPT ![h] = "persist"]
      /\ undo' = [undo EXCEPT ![h] = mem[h]]
      /\ UNCHANGED <<disk, gen, env, holders, res, known, tmp, strayed>>
  BY DEF Put, Delete, Goto
<1>2. mem[h] \in Stores /\ mem[h] # Closed /\ Consistent(mem[h])
  BY <1>1 DEF IInv, TypeOK, MemInv
<1>3. PICK b \in Blobs \cup {NoBlob} :
        /\ b # NoBlob => b.kid = mem[h].kid /\ b.salt = mem[h].salt /\ b.name = n
        /\ mem' = [mem EXCEPT ![h].entries[n] = b]
  BY <1>2, SealIsBlob DEF Put, Delete
<1>4. \E v \in Vals \cup {NoVal} : op' = [op EXCEPT ![h] = Setting(n, v)]
  BY DEF Put, Delete
<1> DEFINE t == [mem[h] EXCEPT !.entries[n] = b]
<1>5. t \in Stores /\ Consistent(t)
  BY <1>2, <1>3, SetIsStore
<1>6. mem' = [mem EXCEPT ![h] = t]
  BY <1>3
<1>7. op' \in [Handles -> {Idle, Opening, Rotating} \cup Changes]
  BY <1>4 DEF IInv, TypeOK, Changes
<1>8. TypeOK'
  BY <1>1, <1>2, <1>5, <1>6, <1>7, DistinctAssumption DEF IInv, TypeOK, disk, env, Persisting
<1>9. MemInv'
  BY <1>1, <1>2, <1>5, <1>6 DEF IInv, TypeOK, MemInv
<1>10. TmpInv' /\ DiskInv'
  BY <1>1, <1>8, QuietStep DEF IInv, TypeOK
<1>11. QED
  BY <1>8, <1>9, <1>10 DEF IInv

\* delete of a name that is not there.
LEMMA NothingStep ==
  ASSUME IInv, NEW h \in Handles, NEW n \in Names, DeleteNothing(h, n)
  PROVE  IInv'
<1>1. /\ res' = [res EXCEPT ![h] = "ok"]
      /\ UNCHANGED <<disk, gen, env, holders, pc, mem, undo, op, known, tmp, strayed>>
  BY DEF DeleteNothing
<1>2. TypeOK'
  BY <1>1 DEF IInv, TypeOK, disk, env
<1>3. MemInv' /\ TmpInv' /\ DiskInv'
  BY <1>1 DEF IInv, MemInv, TmpInv, DiskInv, disk
<1>4. QED
  BY <1>2, <1>3 DEF IInv

LEMMA RotateStep ==
  ASSUME IInv, NEW h \in Handles, NEW m \in Masters, Rotate(h, m)
  PROVE  IInv'
<1> DEFINE new == Fresh(m, NoEntries)
           t == [new EXCEPT !.entries =
                  [n \in Names |-> IF n \in Present(mem[h])
                                   THEN Seal(new, n, mem[h].entries[n].val) ELSE NoBlob]]
<1>1. /\ pc[h] = "ready" /\ pc' = [pc EXCEPT ![h] = "persist"]
      /\ mem' = [mem EXCEPT ![h] = t]
      /\ op' = [op EXCEPT ![h] = Rotating]
      /\ UNCHANGED <<disk, env, holders, undo, res, known, tmp, strayed>>
  BY DEF Rotate, Goto
<1>2. mem[h] \in Stores /\ gen' \in 0..MaxGen
  BY <1>1, BoundAssumption DEF Rotate, IInv, TypeOK
<1>3. new \in Stores /\ new.kid = new.salt
  BY <1>2, FreshIsStore DEF Consistent
<1>4. t \in Stores /\ Consistent(t)
  BY <1>2, <1>3, ResealIsStore
<1> HIDE DEF t
<1>5. TypeOK'
  BY <1>1, <1>2, <1>4, DistinctAssumption DEF IInv, TypeOK, disk, env, Persisting
<1>6. MemInv'
  BY <1>1, <1>4 DEF IInv, TypeOK, MemInv
<1>7. TmpInv' /\ DiskInv'
  BY <1>1, <1>5, QuietStep DEF IInv, TypeOK
<1>8. QED
  BY <1>5, <1>6, <1>7 DEF IInv

-----------------------------------------------------------------------------
\* The steps of a write.

LEMMA WriteStep ==
  ASSUME IInv, NEW h \in Handles, WriteTmp(h)
  PROVE  IInv'
<1> DEFINE t == [image |-> Image(mem[h]), synced |-> FALSE]
<1>1. mem[h] \in Stores /\ Consistent(mem[h])
  BY DEF WriteTmp, IInv, TypeOK, MemInv
<1>2. /\ Image(mem[h]) \in Files /\ Consistent(Image(mem[h]))
      /\ Image(mem[h]).entries = mem[h].entries
  BY <1>1, ImageIsFile
<1>3. /\ pc[h] = "persist" /\ pc' = [pc EXCEPT ![h] = "sync"]
      /\ tmp' = [tmp EXCEPT ![h] = t]
      /\ Size(mem[h].entries) <= Cap
      /\ UNCHANGED <<disk, gen, env, holders, mem, undo, op, res, known, strayed>>
  BY DEF WriteTmp, Goto
<1>4. t \in Tmps /\ t # NoTmp /\ t.image = Image(mem[h])
  <2>1. t \in Tmps /\ t.image = Image(mem[h])
    BY <1>2 DEF Tmps
  <2>2. QED
    BY <2>1, DistinctAssumption
<1> HIDE DEF t
<1>5. TypeOK'
  BY <1>3, <1>4 DEF IInv, TypeOK, disk, env, Persisting
<1>6. MemInv' /\ DiskInv'
  BY <1>3 DEF IInv, MemInv, DiskInv, disk
<1>7. TmpInv'
  BY <1>2, <1>3, <1>4 DEF IInv, TypeOK, TmpInv
<1>8. QED
  BY <1>5, <1>6, <1>7 DEF IInv

LEMMA SyncStep ==
  ASSUME IInv, NEW h \in Handles, SyncTmp(h)
  PROVE  IInv'
<1>1. /\ pc[h] = "sync" /\ pc' = [pc EXCEPT ![h] = "rename"]
      /\ tmp' = [tmp EXCEPT ![h].synced = TRUE]
      /\ UNCHANGED <<disk, gen, env, holders, mem, undo, op, res, known, strayed>>
  BY DEF SyncTmp, Goto
<1>2. tmp[h] \in Tmps
  BY <1>1 DEF IInv, TypeOK, TmpInv
<1> DEFINE t == [tmp[h] EXCEPT !.synced = TRUE]
<1>3. /\ t \in Tmps /\ t # NoTmp
      /\ t.image = tmp[h].image /\ t.synced
      /\ tmp' = [tmp EXCEPT ![h] = t]
  <2>1. t \in Tmps /\ t.image = tmp[h].image /\ t.synced
    BY <1>2 DEF Tmps
  <2>2. QED
    BY <1>1, <2>1, DistinctAssumption
<1> HIDE DEF t
<1>4. TypeOK'
  <2>1. pc' \in [Handles -> {"closed", "read", "ready"} \cup Persisting]
    BY <1>1 DEF IInv, TypeOK, Persisting
  <2>2. tmp' \in [Handles -> Tmps \cup {NoTmp, Left}]
    BY <1>3 DEF IInv, TypeOK
  <2>3. \A k \in Handles : mem'[k] = Closed <=> pc'[k] = "closed"
    BY <1>1 DEF IInv, TypeOK
  <2>4. QED
    BY <1>1, <2>1, <2>2, <2>3 DEF IInv, TypeOK, disk, env
<1>5. MemInv' /\ DiskInv'
  BY <1>1 DEF IInv, MemInv, DiskInv, disk
<1>6. TmpInv'
  BY <1>1, <1>3 DEF IInv, TypeOK, TmpInv
<1>7. QED
  BY <1>4, <1>5, <1>6 DEF IInv

\* The only step that changes the file: what was synced is what appears.
LEMMA RenameStep ==
  ASSUME IInv, NEW h \in Handles, Rename(h)
  PROVE  IInv'
<1>1. /\ pc[h] = "rename" /\ pc' = [pc EXCEPT ![h] = "dirsync"]
      /\ tmp' = [tmp EXCEPT ![h] = NoTmp]
      /\ cur' = tmp[h].image
      /\ recoverable' = recoverable \cup {IF tmp[h].synced THEN tmp[h].image ELSE Torn}
      /\ UNCHANGED <<gen, env, holders, mem, undo, op, res, known, strayed>>
  BY DEF Rename, Goto
<1>2. /\ tmp[h] \in Tmps /\ tmp[h].synced
      /\ Consistent(tmp[h].image) /\ Size(tmp[h].image.entries) <= Cap
  BY <1>1 DEF IInv, TypeOK, TmpInv
<1>3. /\ recoverable' = recoverable \cup {cur'} /\ cur' \in Files
      /\ Consistent(cur') /\ Size(cur'.entries) <= Cap
  BY <1>1, <1>2 DEF Tmps
<1>4. TypeOK'
  BY <1>1, <1>3 DEF IInv, TypeOK, env, Persisting
<1>5. MemInv'
  BY <1>1 DEF IInv, MemInv
<1>6. TmpInv'
  BY <1>1, DistinctAssumption DEF IInv, TypeOK, TmpInv
<1>7. DiskInv'
  BY <1>3, DistinctAssumption DEF IInv, DiskInv
<1>8. QED
  BY <1>4, <1>5, <1>6, <1>7 DEF IInv

LEMMA SyncDirStep ==
  ASSUME IInv, NEW h \in Handles, SyncDir(h)
  PROVE  IInv'
<1>1. /\ pc[h] = "dirsync" /\ pc' = [pc EXCEPT ![h] = "ready"]
      /\ recoverable' = {cur} /\ cur' = cur
      /\ undo' = [undo EXCEPT ![h] = Closed]
      /\ op' = [op EXCEPT ![h] = Idle]
      /\ res' = [res EXCEPT ![h] = "ok"] /\ known' = [known EXCEPT ![h] = "synced"]
      /\ UNCHANGED <<gen, env, holders, mem, tmp, strayed>>
  BY DEF SyncDir, Goto
<1>2. TypeOK'
  BY <1>1 DEF IInv, TypeOK, env, Persisting
<1>3. MemInv'
  BY <1>1 DEF IInv, TypeOK, MemInv
<1>4. TmpInv'
  BY <1>1 DEF IInv, TypeOK, TmpInv
<1>5. DiskInv'
  BY <1>1 DEF IInv, DiskInv
<1>6. QED
  BY <1>2, <1>3, <1>4, <1>5 DEF IInv

LEMMA FailStep ==
  ASSUME IInv, NEW h \in Handles, WriteFails(h)
  PROVE  IInv'
<1>1. /\ pc[h] \in {"sync", "rename"} /\ pc' = [pc EXCEPT ![h] = "cleanup"]
      /\ UNCHANGED <<disk, gen, env, holders, mem, undo, op, res, known, tmp, strayed>>
  BY DEF WriteFails, Goto
<1>2. TypeOK'
  BY <1>1 DEF IInv, TypeOK, disk, env, Persisting
<1>3. MemInv' /\ DiskInv'
  BY <1>1 DEF IInv, MemInv, DiskInv, disk
<1>4. TmpInv'
  BY <1>1 DEF IInv, TypeOK, TmpInv
<1>5. QED
  BY <1>2, <1>3, <1>4 DEF IInv

\* The steps that remove, or leave behind, a tmp file and end the operation.
LEMMA RemoveStep ==
  ASSUME IInv, NEW h \in Handles, RemoveTmp(h) \/ Die(h)
  PROVE  IInv'
<1>1. Ends(h)
  BY EndsOf DEF IInv
<1>2. /\ \E t \in {NoTmp, Left} : tmp' = [tmp EXCEPT ![h] = t]
      /\ UNCHANGED <<disk, gen, env, strayed>>
  BY DEF RemoveTmp, Die, Abandoned
<1>3. /\ TypeOK' /\ MemInv'
      /\ \A k \in Handles \ {h} : pc'[k] = pc[k]
      /\ pc'[h] \in {"closed", "ready"}
  BY <1>1, <1>2, EndsInv DEF IInv, TypeOK, Knowledge, disk, env
<1>4. TmpInv'
  BY <1>2, <1>3, DistinctAssumption DEF IInv, TypeOK, TmpInv
<1>5. DiskInv'
  BY <1>2 DEF IInv, DiskInv, disk
<1>6. QED
  BY <1>3, <1>4, <1>5 DEF IInv

LEMMA RestartStep == ASSUME IInv, Restart PROVE IInv'
<1>1. TypeOK'
  BY DEF Restart, Abandoned, IInv, TypeOK, DiskInv, env
<1>2. MemInv' /\ TmpInv'
  BY DistinctAssumption DEF Restart, Abandoned, MemInv, TmpInv
<1>3. DiskInv'
  BY DEF Restart, IInv, DiskInv
<1>4. QED
  BY <1>1, <1>2, <1>3 DEF IInv

LEMMA IdleStep == ASSUME IInv, Remount \/ UNCHANGED vars PROVE IInv'
<1>1. /\ UNCHANGED <<disk, gen, lockFile, holders, pc, mem, undo, op, res, known, tmp, strayed>>
      /\ dir' \in DirStates
  BY DEF Remount, vars, disk, IInv, TypeOK
<1>2. TypeOK'
  BY <1>1 DEF IInv, TypeOK, disk
<1>3. MemInv' /\ TmpInv' /\ DiskInv'
  BY <1>1 DEF IInv, MemInv, TmpInv, DiskInv, disk
<1>4. QED
  BY <1>2, <1>3 DEF IInv

-----------------------------------------------------------------------------
LEMMA Invariance == Spec => []IInv
<1>1. Init => IInv
  <2> SUFFICES ASSUME Init PROVE IInv
    OBVIOUS
  <2>1. TypeOK
    <3>1. /\ cur \in Files \cup {NoFile} /\ recoverable \subseteq Files \cup {NoFile, Torn}
          /\ dir \in DirStates /\ lockFile \in BOOLEAN /\ holders \subseteq Handles
          /\ strayed \in BOOLEAN
      BY DEF Init
    <3>2. gen \in 0..MaxGen
      BY BoundAssumption DEF Init
    <3>3. /\ pc \in [Handles -> {"closed", "read", "ready"} \cup Persisting]
          /\ mem \in [Handles -> Stores \cup {Closed}]
          /\ undo \in [Handles -> Stores \cup {Closed}]
          /\ op \in [Handles -> {Idle, Opening, Rotating} \cup Changes]
          /\ res \in [Handles -> {"none", "ok", "error"}]
          /\ known \in [Handles -> {"unread", "read", "synced", "unsure"}]
          /\ tmp \in [Handles -> Tmps \cup {NoTmp, Left}]
          /\ \A h \in Handles : mem[h] = Closed <=> pc[h] = "closed"
      BY DEF Init
    <3>4. QED
      BY <3>1, <3>2, <3>3 DEF TypeOK
  <2>2. MemInv /\ TmpInv
    BY DistinctAssumption DEF Init, MemInv, TmpInv
  <2>3. DiskInv
    BY DistinctAssumption DEF Init, DiskInv
  <2>4. QED
    BY <2>1, <2>2, <2>3 DEF IInv
<1>2. IInv /\ [Next]_vars => IInv'
  <2> SUFFICES ASSUME IInv, [Next]_vars PROVE IInv'
    OBVIOUS
  <2>1. ASSUME NEW h \in Handles, Step(h) PROVE IInv'
    BY <2>1, OpenStep, EndStep, ReadStep, CreateStep, SetStep, NothingStep, RotateStep,
       WriteStep, SyncStep, RenameStep, SyncDirStep, FailStep, RemoveStep DEF Step
  <2>2. QED
    BY <2>1, RestartStep, IdleStep DEF Next
<1>3. QED
  BY <1>1, <1>2, PTL DEF Spec

\* Every variable keeps to its values: in particular a handle has a store in memory
\* exactly while it is open.
THEOREM TypeTheorem == Spec => []TypeOK
<1>1. IInv => TypeOK
  BY DEF IInv
<1>2. QED
  BY <1>1, Invariance, PTL

\* Whatever system call fails and whenever a process or the machine stops, the path
\* holds a complete file or none: the old one or the new one, never half of one.
THEOREM WholeFileTheorem == Spec => []WholeFile
<1>1. IInv => WholeFile
  BY DEF IInv, DiskInv, WholeFile
<1>2. QED
  BY <1>1, Invariance, PTL

\* No file is ever written, or left by a crash, that open would refuse for its size.
THEOREM SizeTheorem == Spec => []NeverOutgrowsOpen
<1>1. IInv => NeverOutgrowsOpen
  BY DEF IInv, DiskInv, NeverOutgrowsOpen
<1>2. QED
  BY <1>1, Invariance, PTL

\* So a restart, after whatever failed, finds a file that open can load.
THEOREM LoadableTheorem == Spec => []LoadableFile
<1>1. WholeFile /\ NeverOutgrowsOpen => LoadableFile
  BY DEF LoadableFile
<1>2. QED
  BY <1>1, WholeFileTheorem, SizeTheorem, PTL

\* A file holds one key generation, through every put, rotation, failure and crash.
THEOREM GenerationTheorem == Spec => []OneGeneration
<1>1. IInv => OneGeneration
  BY DEF IInv, DiskInv, OneGeneration, Consistent
<1>2. QED
  BY <1>1, Invariance, PTL

\* While a write is under way there is its tmp file, and once it is over there is one
\* at most where its removal failed or the process ended before it.
THEOREM TmpTheorem == Spec => []NoTmpLeftBehind
<1>1. IInv => NoTmpLeftBehind
  BY DEF IInv, TmpInv, NoTmpLeftBehind
<1>2. QED
  BY <1>1, Invariance, PTL

-----------------------------------------------------------------------------
(***************************************************************************)
(* What a handle with the lock can rely on, and that the store implements   *)
(* the map of KVStore, for any number of handles, masters, names and values *)
(* and whatever fails, ends or restarts, as long as only the handle with    *)
(* the lock writes the file.  That is so while directories stay as they are  *)
(* under live handles (~LiveRemount); a handle that was opened without the  *)
(* lock, as nothing could be saved, could otherwise save beside the owner.  *)
(***************************************************************************)

\* No handle without the lock begins a write.
OwnerWrites     == \A h \in Handles \ holders : ~WriteTmp(h)
OnlyOwnerWrites == [][OwnerWrites]_vars

\* There is one owner of the lock, and nobody else gets as far as a tmp file.
LockInv ==
  /\ \A g, h \in holders : g = h
  /\ \A h \in holders : pc[h] # "closed"
  /\ \A h \in Handles \ holders : pc[h] \in {"closed", "read", "ready", "persist"}

\* A handle without the lock is there because the directory cannot be written.
DirInv == \A h \in Handles \ holders : pc[h] # "closed" => dir # "rw"

\* Memory runs ahead of `undo` by exactly the change in progress; and a handle has
\* answered nothing before it is open.
OpInv ==
  \A h \in Handles :
    /\ pc[h] \notin Persisting => undo[h] = Closed
    /\ pc[h] \in {"closed", "read"} => res[h] = "none"
    /\ undo[h] = Closed => op[h] \in {Idle, Opening, Rotating}
    /\ undo[h] # Closed =>
         /\ op[h] \in Changes
         /\ Content(mem[h]) = [Content(undo[h]) EXCEPT ![op[h].name] = op[h].val]

\* From the tmp file to the path, it is the memory of the owner that is written;
\* what the owner serves, or would go back to, may be on disk.  If no write of it has
\* failed behind the rename, that is the file, but for the moment between its own
\* rename and the sync of the directory; and after an Ok that was written, all there is.
OwnerInv ==
  \A h \in holders :
    /\ pc[h] \in {"sync", "rename"} => tmp[h].image = Image(mem[h])
    /\ pc[h] = "dirsync" => cur = Image(mem[h])
    /\ pc[h] = "ready" => /\ Image(mem[h]) \in recoverable
                          /\ known[h] # "unsure" => cur = Image(mem[h])
                          /\ known[h] = "synced" => recoverable = {cur}
    /\ undo[h] # Closed => Image(undo[h]) \in recoverable
    /\ undo[h] # Closed /\ pc[h] # "dirsync" =>
                          /\ known[h] # "unsure" => cur = Image(undo[h])
                          /\ known[h] = "synced" => recoverable = {cur}
    /\ pc[h] # "read" => \E f \in recoverable : Content(f) = Content(View(h))

JInv == IInv /\ LockInv /\ OpInv /\ OwnerInv

-----------------------------------------------------------------------------
\* The owner is the only one to write.

LEMMA LockStep ==
  ASSUME TypeOK, LockInv, [Next]_vars, [OwnerWrites]_vars
  PROVE  LockInv'
<1> USE DEF TypeOK, LockInv, Persisting, env
<1>1. ASSUME NEW h \in Handles, NEW m \in Masters, TakeLock(h, m)
      PROVE  LockInv'
  BY <1>1 DEF TakeLock, Lock!Acquire, Goto
<1>2. ASSUME NEW h \in Handles, NEW m \in Masters, SkipLock(h, m)
      PROVE  LockInv'
  BY <1>2 DEF SkipLock, Goto
<1>3. ASSUME NEW h \in Handles, Ends(h),
             dir' = dir, pc[h] # "closed"
      PROVE  LockInv'
  BY <1>3 DEF Ends, Drop, RollBack, Goto
<1>4. ASSUME NEW h \in Handles,
             ReadFails(h) \/ RotateAuth(h) \/ Close(h) \/ CreateFails(h) \/ SyncDirFails(h)
               \/ RemoveTmp(h) \/ Die(h)
      PROVE  LockInv'
  <2>1. Ends(h) /\ dir' = dir /\ pc[h] # "closed"
    BY <1>4, EndsOf DEF ReadFails, RotateAuth, Close, CreateFails, SyncDirFails, RemoveTmp, Die
  <2>2. QED
    BY <1>3, <2>1
<1>5. ASSUME NEW h \in Handles, ReadFile(h)
      PROVE  LockInv'
  <2>1. CASE Loads(cur)
    BY <1>5, <2>1 DEF ReadFile, Goto
  <2>2. CASE ~Loads(cur)
    BY <1>3, <1>5, <2>2 DEF ReadFile, Ends
  <2>3. QED
    BY <2>1, <2>2
<1>6. ASSUME NEW h \in Handles, CreateStore(h)
      PROVE  LockInv'
  BY <1>6 DEF CreateStore, Goto
<1>7. ASSUME NEW h \in Handles, NEW n \in Names, (\E v \in Vals : Put(h, n, v)) \/ Delete(h, n)
      PROVE  LockInv'
  BY <1>7 DEF Put, Delete, Goto
<1>8. ASSUME NEW h \in Handles, (\E m \in Masters : Rotate(h, m)) \/ \E n \in Names : DeleteNothing(h, n)
      PROVE  LockInv'
  BY <1>8 DEF Rotate, DeleteNothing, Goto
<1>9. ASSUME NEW h \in Handles, WriteTmp(h) \/ SyncTmp(h) \/ Rename(h) \/ SyncDir(h) \/ WriteFails(h)
      PROVE  LockInv'
  <2>1. pc[h] # pc'[h] /\ pc' # pc
    BY <1>9 DEF WriteTmp, SyncTmp, Rename, SyncDir, WriteFails, Goto
  <2>2. h \in holders
    BY <1>9, <2>1 DEF SyncTmp, Rename, SyncDir, WriteFails, OwnerWrites, vars
  <2>3. QED
    BY <1>9, <2>2 DEF WriteTmp, SyncTmp, Rename, SyncDir, WriteFails, Goto
<1>10. CASE Restart
  BY <1>10 DEF Restart
<1>11. CASE Remount
  BY <1>11 DEF Remount
<1>12. CASE UNCHANGED vars
  BY <1>12 DEF vars
<1>13. QED
  BY <1>1, <1>2, <1>4, <1>5, <1>6, <1>7, <1>8, <1>9, <1>10, <1>11, <1>12 DEF Next, Step

\* Nothing makes a directory writable under a live handle.
LEMMA DirStep ==
  ASSUME ~LiveRemount, TypeOK, LockInv, DirInv, [Next]_vars
  PROVE  DirInv' /\ [OwnerWrites]_vars
<1>1. OwnerWrites
  BY DEF OwnerWrites, WriteTmp, DirInv
<1> USE DEF DirInv, TypeOK
<1>2. ASSUME NEW h \in Handles, NEW m \in Masters, TakeLock(h, m) \/ SkipLock(h, m)
      PROVE  DirInv'
  BY <1>2 DEF TakeLock, SkipLock, Lock!Acquire, Goto, env
<1>3. ASSUME NEW h \in Handles, UNCHANGED <<dir, holders>>, pc[h] # "closed",
             \A k \in Handles \ {h} : pc'[k] = pc[k]
      PROVE  DirInv'
  BY <1>3
<1>4. ASSUME NEW h \in Handles, Ends(h),
             dir' = dir, pc[h] # "closed"
      PROVE  DirInv'
  BY <1>4 DEF Ends, Drop, RollBack, Goto
<1>5. ASSUME NEW h \in Handles, Step(h), \A m \in Masters : ~TakeLock(h, m) /\ ~SkipLock(h, m)
      PROVE  DirInv'
  <2>1. CASE ReadFails(h) \/ RotateAuth(h) \/ Close(h) \/ CreateFails(h) \/ SyncDirFails(h)
               \/ RemoveTmp(h) \/ Die(h) \/ (ReadFile(h) /\ ~Loads(cur))
    <3>1. Ends(h) /\ dir' = dir /\ pc[h] # "closed"
      BY <2>1, EndsOf DEF ReadFails, RotateAuth, Close, CreateFails, SyncDirFails, RemoveTmp, Die,
         ReadFile, Ends, env
    <3>2. QED
      BY <1>4, <3>1
  <2>2. CASE \/ (ReadFile(h) /\ Loads(cur)) \/ CreateStore(h) \/ WriteTmp(h) \/ SyncTmp(h)
             \/ Rename(h) \/ SyncDir(h) \/ WriteFails(h)
    BY <1>3, <2>2 DEF ReadFile, CreateStore, WriteTmp, SyncTmp, Rename, SyncDir, WriteFails, Goto, env
  <2>3. CASE \/ \E m \in Masters : Rotate(h, m)
             \/ \E n \in Names : Delete(h, n) \/ DeleteNothing(h, n) \/ \E v \in Vals : Put(h, n, v)
    BY <1>3, <2>3 DEF Rotate, Delete, DeleteNothing, Put, Goto, env
  <2>4. QED
    BY <1>5, <2>1, <2>2, <2>3 DEF Step
<1>6. CASE Restart
  BY <1>1, <1>6 DEF Restart
<1>7. CASE Remount
  BY <1>1, <1>7 DEF Remount
<1>8. CASE UNCHANGED vars
  BY <1>1, <1>8 DEF vars, env
<1>9. QED
  BY <1>1, <1>2, <1>5, <1>6, <1>7, <1>8 DEF Next

-----------------------------------------------------------------------------
\* The contents of what the operators make.

LEMMA ContentOfStore ==
  ASSUME NEW s \in Stores \cup Files
  PROVE  /\ Content(s) = [n \in Names |-> IF s.entries[n] = NoBlob THEN NoVal ELSE s.entries[n].val]
         /\ Content(s) \in [Names -> Vals \cup {NoVal}]
<1>1. s # NoFile
  BY DistinctAssumption
<1>2. \A n \in Names : s.entries[n] \in Blobs \cup {NoBlob}
  BY DEF Stores, Files, Entries
<1>3. \A n \in Names : s.entries[n] # NoBlob => s.entries[n].val \in Vals
  BY <1>2 DEF Blobs
<1>4. QED
  BY <1>1, <1>3 DEF Content

LEMMA PresentIsContent ==
  ASSUME NEW s \in Stores, NEW n \in Names
  PROVE  n \in Present(s) <=> Content(s)[n] # NoVal
<1>1. s.entries[n] \in Blobs \cup {NoBlob}
  BY DEF Stores, Entries
<1>2. s.entries[n] # NoBlob => s.entries[n].val \in Vals
  BY <1>1 DEF Blobs
<1>3. QED
  BY <1>2, ContentOfStore, ValsAssumption DEF Present

LEMMA ContentOfNoFile == Content(NoFile) = [n \in Names |-> NoVal]
BY DEF Content

LEMMA ContentOfImage ==
  ASSUME NEW s \in Stores
  PROVE  Content(Image(s)) = Content(s)
<1>1. Image(s) \in Files /\ Image(s).entries = s.entries
  BY ImageIsFile
<1>2. QED
  BY <1>1, ContentOfStore

\* What open reads back is what persist wrote.
LEMMA ImageOfLoad ==
  ASSUME NEW f \in Files, NEW m \in Masters
  PROVE  Image(Load(f, m)) = f /\ Content(Load(f, m)) = Content(f)
<1>1. Load(f, m) \in Stores /\ Load(f, m).entries = f.entries
  BY LoadIsStore DEF Load
<1>2. Image(Load(f, m)) = f
  BY DEF Image, Load, Files
<1>3. QED
  BY <1>1, <1>2, ContentOfImage

LEMMA ContentOfFresh ==
  ASSUME NEW m \in Masters, gen' \in 0..MaxGen
  PROVE  Content(Fresh(m, NoEntries)) = [n \in Names |-> NoVal]
<1>1. Fresh(m, NoEntries) \in Stores /\ Fresh(m, NoEntries).entries = NoEntries
  BY FreshIsStore DEF Fresh
<1>2. QED
  BY <1>1, ContentOfStore DEF NoEntries

\* put and delete change the contents under one name.
LEMMA ContentOfSet ==
  ASSUME NEW s \in Stores, NEW n \in Names, NEW b \in Blobs \cup {NoBlob}
  PROVE  Content([s EXCEPT !.entries[n] = b])
           = [Content(s) EXCEPT ![n] = IF b = NoBlob THEN NoVal ELSE b.val]
<1> DEFINE t == [s EXCEPT !.entries[n] = b]
<1>1. t \in Stores
  BY SetIsStore
<1>2. t.entries = [s.entries EXCEPT ![n] = b] /\ DOMAIN s.entries = Names
  BY DEF Stores, Entries
<1> HIDE DEF t
<1>3. Content(t) = [Content(s) EXCEPT ![n] = IF b = NoBlob THEN NoVal ELSE b.val]
  BY <1>1, <1>2, ContentOfStore
<1>4. QED
  BY <1>3 DEF t

\* rotate changes none.
LEMMA ContentOfReseal ==
  ASSUME NEW s \in Stores, NEW new \in Stores, new.kid = new.salt
  PROVE  Content([new EXCEPT !.entries =
                   [n \in Names |-> IF n \in Present(s)
                                    THEN Seal(new, n, s.entries[n].val) ELSE NoBlob]])
           = Content(s)
<1> DEFINE e == [n \in Names |-> IF n \in Present(s)
                                 THEN Seal(new, n, s.entries[n].val) ELSE NoBlob]
           t == [new EXCEPT !.entries = e]
<1>1. t \in Stores
  BY ResealIsStore
<1>2. t.entries = e
  BY DEF Stores
<1>3. \A n \in Present(s) : n \in Names /\ s.entries[n].val \in Vals
  BY DEF Present, Stores, Entries, Blobs
<1>4. \A n \in Names :
        /\ e[n] = NoBlob <=> s.entries[n] = NoBlob
        /\ e[n] # NoBlob => e[n].val = s.entries[n].val
  <2>1. \A n \in Present(s) : e[n] # NoBlob /\ e[n].val = s.entries[n].val
    <3>1. \A n \in Present(s) : Seal(new, n, s.entries[n].val) \in Blobs
      BY <1>3, SealIsBlob
    <3>2. \A n \in Present(s) : Seal(new, n, s.entries[n].val).val = s.entries[n].val
      BY DEF Seal
    <3>3. QED
      BY <1>3, <3>1, <3>2, DistinctAssumption
  <2>2. QED
    BY <2>1 DEF Present
<1> HIDE DEF e, t
<1>5. Content(t) = Content(s)
  BY <1>1, <1>2, <1>4, ContentOfStore
<1>6. QED
  BY <1>5 DEF t, e

\* Reading a file, creating one and rotating change no contents.
LEMMA ReadIsContent ==
  ASSUME IInv, NEW h \in Handles, ReadFile(h)
  PROVE  /\ Image(Load(cur, mem[h].master)) = cur
         /\ Content(Load(cur, mem[h].master)) = Content(cur)
<1>1. cur \in Files /\ mem[h].master \in Masters
  BY DEF ReadFile, IInv, TypeOK, Stores
<1>2. QED
  BY <1>1, ImageOfLoad

LEMMA CreateIsEmpty ==
  ASSUME IInv, NEW h \in Handles, CreateStore(h)
  PROVE  Content(Fresh(mem[h].master, NoEntries)) = Content(NoFile)
<1>1. mem[h].master \in Masters /\ gen' \in 0..MaxGen
  BY BoundAssumption DEF CreateStore, IInv, TypeOK, Stores
<1>2. QED
  BY <1>1, ContentOfFresh, ContentOfNoFile

LEMMA RotateKeeps ==
  ASSUME IInv, NEW h \in Handles, NEW m \in Masters, Rotate(h, m)
  PROVE  Content(mem'[h]) = Content(mem[h])
<1> DEFINE new == Fresh(m, NoEntries)
           t == [new EXCEPT !.entries =
                  [n \in Names |-> IF n \in Present(mem[h])
                                   THEN Seal(new, n, mem[h].entries[n].val) ELSE NoBlob]]
<1>1. mem[h] \in Stores /\ gen' \in 0..MaxGen
  BY BoundAssumption DEF Rotate, IInv, TypeOK
<1>2. new \in Stores /\ new.kid = new.salt
  BY <1>1, FreshIsStore DEF Consistent
<1>3. Content(t) = Content(mem[h])
  BY <1>1, <1>2, ContentOfReseal
<1>4. mem'[h] = t
  BY DEF Rotate, IInv, TypeOK
<1>5. QED
  BY <1>3, <1>4

-----------------------------------------------------------------------------
\* Memory and the copy to go back to.

LEMMA OpStep ==
  ASSUME IInv, OpInv, [Next]_vars
  PROVE  OpInv'
<1> USE DEF IInv, TypeOK, OpInv, Persisting
<1>1. ASSUME NEW h \in Handles, NEW m \in Masters, TakeLock(h, m) \/ SkipLock(h, m)
      PROVE  OpInv'
  BY <1>1 DEF TakeLock, SkipLock, Goto
<1>2. ASSUME NEW h \in Handles, Ends(h)
      PROVE  OpInv'
  BY <1>2 DEF Ends, Drop, RollBack, Goto
<1>3. ASSUME NEW h \in Handles,
             ReadFails(h) \/ RotateAuth(h) \/ Close(h) \/ CreateFails(h) \/ SyncDirFails(h)
               \/ RemoveTmp(h) \/ Die(h)
      PROVE  OpInv'
  BY <1>2, <1>3, EndsOf
<1>4. ASSUME NEW h \in Handles, ReadFile(h)
      PROVE  OpInv'
  <2>1. CASE Loads(cur)
    BY <1>4, <2>1 DEF ReadFile, Goto
  <2>2. CASE ~Loads(cur)
    BY <1>2, <1>4, <2>2 DEF ReadFile, Ends
  <2>3. QED
    BY <2>1, <2>2
<1>5. ASSUME NEW h \in Handles, CreateStore(h)
      PROVE  OpInv'
  BY <1>5 DEF CreateStore, Goto
<1>6. ASSUME NEW h \in Handles, NEW n \in Names, (\E v \in Vals : Put(h, n, v)) \/ Delete(h, n)
      PROVE  OpInv'
  <2>1. /\ pc[h] = "ready" /\ pc' = [pc EXCEPT ![h] = "persist"]
        /\ undo' = [undo EXCEPT ![h] = mem[h]] /\ UNCHANGED res
    BY <1>6 DEF Put, Delete, Goto
  <2>2. mem[h] \in Stores
    BY <2>1
  <2>3. PICK b \in Blobs \cup {NoBlob}, v \in Vals \cup {NoVal} :
          /\ mem' = [mem EXCEPT ![h] = [mem[h] EXCEPT !.entries[n] = b]]
          /\ op' = [op EXCEPT ![h] = Setting(n, v)]
          /\ v = IF b = NoBlob THEN NoVal ELSE b.val
    <3>1. CASE Delete(h, n)
      <4>1. /\ mem' = [mem EXCEPT ![h] = [mem[h] EXCEPT !.entries[n] = NoBlob]]
            /\ op' = [op EXCEPT ![h] = Setting(n, NoVal)]
        BY <3>1 DEF Delete
      <4>2. QED
        BY <4>1
    <3>2. ASSUME NEW v \in Vals, Put(h, n, v)
          PROVE  \E b \in Blobs :
                   /\ mem' = [mem EXCEPT ![h] = [mem[h] EXCEPT !.entries[n] = b]]
                   /\ op' = [op EXCEPT ![h] = Setting(n, v)]
                   /\ b # NoBlob /\ v = b.val
      <4>1. Seal(mem[h], n, v) \in Blobs /\ Seal(mem[h], n, v).val = v
        BY <2>2, SealIsBlob DEF Seal
      <4>2. /\ mem' = [mem EXCEPT ![h] = [mem[h] EXCEPT !.entries[n] = Seal(mem[h], n, v)]]
            /\ op' = [op EXCEPT ![h] = Setting(n, v)]
        BY <3>2 DEF Put
      <4>3. QED
        BY <4>1, <4>2, DistinctAssumption
    <3>3. QED
      BY <1>6, <3>1, <3>2
  <2> DEFINE t == [mem[h] EXCEPT !.entries[n] = b]
  <2>4. Content(t) = [Content(mem[h]) EXCEPT ![n] = v]
    <3>1. b \in Blobs \cup {NoBlob}
      BY <2>3
    <3>2. Content(t) = [Content(mem[h]) EXCEPT ![n] = IF b = NoBlob THEN NoVal ELSE b.val]
      BY ONLY <2>2, <3>1, ContentOfSet
    <3>3. QED
      BY <2>3, <3>2
  <2>5. mem'[h] = t /\ undo'[h] = mem[h] /\ op'[h] = Setting(n, v)
    BY <2>1, <2>3
  <2>6. /\ op'[h] \in Changes /\ undo'[h] # Closed
        /\ Content(mem'[h]) = [Content(undo'[h]) EXCEPT ![op'[h].name] = op'[h].val]
    <3>1. Setting(n, v) \in Changes
      BY <2>3 DEF Changes
    <3>2. Setting(n, v).name = n /\ Setting(n, v).val = v
      BY DEF Setting
    <3>3. QED
      BY <2>2, <2>4, <2>5, <3>1, <3>2, DistinctAssumption
  <2>7. \A k \in Handles \ {h} :
          mem'[k] = mem[k] /\ undo'[k] = undo[k] /\ op'[k] = op[k] /\ pc'[k] = pc[k]
    BY <2>1, <2>3
  <2>8. QED
    BY <2>1, <2>6, <2>7
<1>7. ASSUME NEW h \in Handles, (\E m \in Masters : Rotate(h, m)) \/ \E n \in Names : DeleteNothing(h, n)
      PROVE  OpInv'
  BY <1>7 DEF Rotate, DeleteNothing, Goto
<1>8. ASSUME NEW h \in Handles, WriteTmp(h) \/ SyncTmp(h) \/ Rename(h) \/ SyncDir(h) \/ WriteFails(h)
      PROVE  OpInv'
  BY <1>8 DEF WriteTmp, SyncTmp, Rename, SyncDir, WriteFails, Goto
<1>9. CASE Restart
  BY <1>9 DEF Restart
<1>10. CASE Remount \/ UNCHANGED vars
  BY <1>10 DEF Remount, vars
<1>11. QED
  BY <1>1, <1>3, <1>4, <1>5, <1>6, <1>7, <1>8, <1>9, <1>10 DEF Next, Step

-----------------------------------------------------------------------------
\* What the owner has in memory against what is on disk.

\* The end of an operation that leaves the disk alone.
LEMMA OwnerEnds ==
  ASSUME JInv, NEW h \in Handles, UNCHANGED disk, Ends(h),
         pc[h] = "read" => Drop(h),
         \A k \in Handles \ {h} : tmp'[k] = tmp[k]
  PROVE  OwnerInv'
<1> USE DEF JInv, IInv, TypeOK, LockInv, OpInv, OwnerInv, View, disk
<1>1. CASE Drop(h)
  BY <1>1 DEF Drop, Goto
<1>2. ASSUME NEW k \in Knowledge, undo[h] # Closed, RollBack(h, k),
             k = "unsure" \/ (k = known[h] /\ pc[h] # "dirsync")
      PROVE  OwnerInv'
  <2>1. /\ mem' = [mem EXCEPT ![h] = undo[h]] /\ undo' = [undo EXCEPT ![h] = Closed]
        /\ pc' = [pc EXCEPT ![h] = "ready"] /\ known' = [known EXCEPT ![h] = k]
        /\ holders' = holders
    BY <1>2 DEF RollBack, Goto
  <2>2. /\ mem'[h] = undo[h] /\ undo'[h] = Closed /\ pc'[h] = "ready" /\ known'[h] = k
        /\ \A g \in Handles \ {h} : /\ mem'[g] = mem[g] /\ undo'[g] = undo[g] /\ pc'[g] = pc[g]
                                   /\ known'[g] = known[g]
    BY <2>1
  <2>3. /\ \A g \in holders \ {h} : View(g)' = View(g)
        /\ View(h) = undo[h] /\ View(h)' = undo[h]
    BY <1>2, <2>2
  <2>4. h \in holders => /\ Image(undo[h]) \in recoverable
                         /\ k # "unsure" => cur = Image(undo[h])
                         /\ k = "synced" => recoverable = {cur}
                         /\ \E f \in recoverable : Content(f) = Content(View(h))
    <3>1. undo[h] # Closed /\ pc[h] \in Persisting /\ pc[h] # "read"
      BY <1>2 DEF Persisting
    <3>2. QED
      BY <1>2, <3>1
  <2>5. ASSUME NEW g \in holders
        PROVE  OwnerInv!(g)'
    BY <2>2, <2>3, <2>4
  <2>6. QED
    BY <2>1, <2>5
<1>3. QED
  BY <1>1, <1>2 DEF Ends, RollBack

LEMMA OwnerStep ==
  ASSUME JInv, [Next]_vars
  PROVE  OwnerInv'
<1> USE DEF JInv, LockInv, OpInv, OwnerInv, View
<1>1. ASSUME NEW h \in Handles, NEW m \in Masters, TakeLock(h, m) \/ SkipLock(h, m)
      PROVE  OwnerInv'
  BY <1>1 DEF TakeLock, SkipLock, Lock!Acquire, Goto, IInv, TypeOK, Persisting, disk
<1>2. ASSUME NEW h \in Handles,
             ReadFails(h) \/ RotateAuth(h) \/ Close(h) \/ CreateFails(h) \/ SyncDirFails(h)
               \/ RemoveTmp(h) \/ Die(h)
      PROVE  OwnerInv'
  <2>1. Ends(h) /\ UNCHANGED disk
    BY <1>2, EndsOf DEF IInv
  <2>2. pc[h] = "read" => Drop(h)
    BY <1>2 DEF ReadFails, RotateAuth, Close, CreateFails, SyncDirFails, RemoveTmp, Die
  <2>3. \A k \in Handles \ {h} : tmp'[k] = tmp[k]
    BY <1>2 DEF ReadFails, RotateAuth, Close, CreateFails, SyncDirFails, RemoveTmp, Die, IInv, TypeOK
  <2>4. QED
    BY <2>1, <2>2, <2>3, OwnerEnds
<1>3. ASSUME NEW h \in Handles, NEW n \in Names, DeleteNothing(h, n)
      PROVE  OwnerInv'
  BY <1>3 DEF DeleteNothing, disk
<1>4. ASSUME NEW h \in Handles, ReadFile(h)
      PROVE  OwnerInv'
  <2>1. CASE ~Loads(cur)
    BY <1>4, <2>1 DEF ReadFile, Drop, Goto, disk, IInv, TypeOK
  <2>2. CASE Loads(cur)
    <3> DEFINE s == Load(cur, mem[h].master)
    <3>1. /\ pc[h] = "read" /\ pc' = [pc EXCEPT ![h] = "ready"]
          /\ mem' = [mem EXCEPT ![h] = s] /\ known' = [known EXCEPT ![h] = "read"]
          /\ UNCHANGED <<disk, tmp, undo, holders>>
      BY <1>4, <2>2 DEF ReadFile, Goto
    <3>2. Image(s) = cur /\ Content(s) = Content(cur)
      BY <1>4, ReadIsContent
    <3>3. cur \in recoverable /\ undo[h] = Closed
      BY <3>1 DEF IInv, DiskInv, Persisting
    <3> HIDE DEF s
    <3>4. QED
      BY <3>1, <3>2, <3>3 DEF disk, IInv, TypeOK
  <2>3. QED
    BY <2>1, <2>2
<1>5. ASSUME NEW h \in Handles, CreateStore(h)
      PROVE  OwnerInv'
  <2> DEFINE s == Fresh(mem[h].master, NoEntries)
  <2>1. /\ pc[h] = "read" /\ pc' = [pc EXCEPT ![h] = "persist"]
        /\ mem' = [mem EXCEPT ![h] = s]
        /\ UNCHANGED <<disk, holders, undo, res, known, tmp>>
    BY <1>5 DEF CreateStore, Goto
  <2>2. Content(s) = Content(NoFile)
    BY <1>5, CreateIsEmpty
  <2>3. NoFile \in recoverable /\ undo[h] = Closed
    BY <1>5, <2>1 DEF CreateStore, IInv, DiskInv, Persisting
  <2> HIDE DEF s
  <2>4. QED
    BY <2>1, <2>2, <2>3 DEF disk, IInv, TypeOK
<1>6. ASSUME NEW h \in Handles, NEW n \in Names, (\E v \in Vals : Put(h, n, v)) \/ Delete(h, n)
      PROVE  OwnerInv'
  <2>1. /\ pc[h] = "ready" /\ pc' = [pc EXCEPT ![h] = "persist"]
        /\ undo' = [undo EXCEPT ![h] = mem[h]]
        /\ UNCHANGED <<disk, holders, res, known, tmp>>
    BY <1>6 DEF Put, Delete, Goto
  <2>2. \A k \in Handles \ {h} : mem'[k] = mem[k]
    BY <1>6 DEF Put, Delete, IInv, TypeOK
  <2>3. mem[h] # Closed /\ undo[h] = Closed
    BY <2>1 DEF IInv, TypeOK, Persisting
  <2>4. QED
    BY <2>1, <2>2, <2>3 DEF disk, IInv, TypeOK
<1>7. ASSUME NEW h \in Handles, NEW m \in Masters, Rotate(h, m)
      PROVE  OwnerInv'
  <2>1. /\ pc[h] = "ready" /\ pc' = [pc EXCEPT ![h] = "persist"]
        /\ \A k \in Handles \ {h} : mem'[k] = mem[k]
        /\ UNCHANGED <<disk, holders, undo, res, known, tmp>>
    BY <1>7 DEF Rotate, Goto, IInv, TypeOK
  <2>2. Content(mem'[h]) = Content(mem[h])
    BY <1>7, RotateKeeps
  <2>3. undo[h] = Closed
    BY <2>1 DEF Persisting
  <2>4. QED
    BY <2>1, <2>2, <2>3 DEF disk, IInv, TypeOK
<1>8. ASSUME NEW h \in Handles, WriteTmp(h) \/ SyncTmp(h) \/ WriteFails(h)
      PROVE  OwnerInv'
  <2>1. /\ pc[h] \notin {"ready", "read", "dirsync"} /\ pc'[h] \notin {"ready", "dirsync"}
        /\ pc'[h] \in {"sync", "rename"} => tmp'[h].image = Image(mem[h]) \/ h \notin holders
        /\ \A k \in Handles \ {h} : pc'[k] = pc[k] /\ tmp'[k] = tmp[k]
        /\ UNCHANGED <<disk, holders, undo, res, known, mem>>
    <3>1. CASE WriteTmp(h)
      BY <3>1 DEF WriteTmp, Goto, IInv, TypeOK
    <3>2. CASE SyncTmp(h)
      <4>1. tmp[h] \in Tmps
        BY <3>2 DEF SyncTmp, IInv, TypeOK, TmpInv
      <4>2. QED
        BY <3>2, <4>1 DEF SyncTmp, Goto, IInv, TypeOK, Tmps
    <3>3. CASE WriteFails(h)
      BY <3>3 DEF WriteFails, Goto, IInv, TypeOK
    <3>4. QED
      BY <1>8, <3>1, <3>2, <3>3
  <2>2. QED
    BY <2>1 DEF disk, IInv, TypeOK
<1>9. ASSUME NEW h \in Handles, Rename(h)
      PROVE  OwnerInv'
  <2>1. /\ pc[h] = "rename" /\ pc' = [pc EXCEPT ![h] = "dirsync"]
        /\ cur' = tmp[h].image /\ recoverable \subseteq recoverable'
        /\ UNCHANGED <<holders, mem, undo, res, known>>
    BY <1>9 DEF Rename, Goto
  <2>2. h \in holders /\ \A k \in holders : k = h
    BY <2>1
  <2>3. QED
    BY <2>1, <2>2 DEF IInv, TypeOK
<1>10. ASSUME NEW h \in Handles, SyncDir(h)
       PROVE  OwnerInv'
  <2>1. /\ pc[h] = "dirsync" /\ pc' = [pc EXCEPT ![h] = "ready"]
        /\ recoverable' = {cur} /\ cur' = cur
        /\ undo' = [undo EXCEPT ![h] = Closed] /\ known' = [known EXCEPT ![h] = "synced"]
        /\ UNCHANGED <<holders, mem, tmp>>
    BY <1>10 DEF SyncDir, Goto
  <2>2. h \in holders /\ \A k \in holders : k = h
    BY <2>1
  <2>3. mem[h] \in Stores /\ cur = Image(mem[h])
    BY <2>1, <2>2 DEF IInv, TypeOK
  <2>4. Content(cur) = Content(mem[h])
    BY <2>3, ContentOfImage
  <2>5. QED
    BY <2>1, <2>2, <2>3, <2>4 DEF IInv, TypeOK
<1>11. CASE Restart
  BY <1>11 DEF Restart
<1>12. CASE Remount \/ UNCHANGED vars
  BY <1>12 DEF Remount, vars, disk
<1>13. QED
  BY <1>1, <1>2, <1>3, <1>4, <1>5, <1>6, <1>7, <1>8, <1>9, <1>10, <1>11, <1>12 DEF Next, Step

LEMMA OwnerInvariance == Spec /\ OnlyOwnerWrites => []JInv
<1>1. Init => LockInv /\ OpInv /\ OwnerInv
  BY DEF Init, LockInv, OpInv, OwnerInv, Persisting
<1>2. IInv /\ JInv /\ [Next]_vars /\ [OwnerWrites]_vars => LockInv' /\ OpInv' /\ OwnerInv'
  BY LockStep, OpStep, OwnerStep DEF JInv, IInv
<1>3. JInv <=> IInv /\ LockInv /\ OpInv /\ OwnerInv
  BY DEF JInv
<1>4. QED
  BY <1>1, <1>2, <1>3, Invariance, PTL DEF Spec, OnlyOwnerWrites

\* While directories stay as they are under live handles, a handle that could not
\* have the lock cannot write either (store.rs:71-73).
THEOREM OwnerTheorem == ASSUME ~LiveRemount PROVE Spec => OnlyOwnerWrites
<1>1. Init => LockInv /\ DirInv
  BY DEF Init, LockInv, DirInv
<1>2. TypeOK /\ LockInv /\ DirInv /\ [Next]_vars => LockInv' /\ DirInv' /\ [OwnerWrites]_vars
  BY LockStep, DirStep
<1>3. QED
  BY <1>1, <1>2, TypeTheorem, PTL DEF Spec, OnlyOwnerWrites

\* The owner of the lock holds in memory what the file is, until a write of it fails
\* behind the rename; and what a put, a delete or a rotation has written and returned
\* Ok for is all that can come back, whatever restarts.
THEOREM DurableTheorem == Spec /\ OnlyOwnerWrites => []OkIsDurable
<1>1. JInv => OkIsDurable
  BY DEF JInv, OwnerInv, OkIsDurable
<1>2. QED
  BY <1>1, OwnerInvariance, PTL

\* Also after a write that failed, the owner serves what the disk may hold.
THEOREM ServesTheorem == Spec /\ OnlyOwnerWrites => []ServesWhatDiskMayHold
<1>1. JInv => ServesWhatDiskMayHold
  BY DEF JInv, OwnerInv, ServesWhatDiskMayHold
<1>2. QED
  BY <1>1, OwnerInvariance, PTL

-----------------------------------------------------------------------------
\* What a handle holds opens under its master.  This needs no lock: the store
\* checks nothing when it opens a file, so the history variable `strayed` does.

ReadInv ==
  /\ \A h \in holders : pc[h] # "closed"
  /\ ~strayed => \A h \in Handles :
       /\ mem[h] # Closed => ReadableAll(mem[h])
       /\ undo[h] # Closed => ReadableAll(undo[h])

LEMMA ReadableFresh ==
  ASSUME NEW s, s.entries = NoEntries
  PROVE  ReadableAll(s)
BY DEF ReadableAll, Present, NoEntries

LEMMA ReadableSet ==
  ASSUME NEW s \in Stores, NEW n \in Names, NEW b \in Blobs \cup {NoBlob}, ReadableAll(s),
         b # NoBlob => \E v \in Vals : b = Seal(s, n, v)
  PROVE  ReadableAll([s EXCEPT !.entries[n] = b])
<1> DEFINE t == [s EXCEPT !.entries[n] = b]
<1>1. /\ t.master = s.master /\ t.kid = s.kid /\ t.salt = s.salt
      /\ t.entries = [s.entries EXCEPT ![n] = b] /\ DOMAIN s.entries = Names
  BY DEF Stores, Entries
<1> HIDE DEF t
<1>2. ASSUME NEW k \in Names, t.entries[k] # NoBlob
      PROVE  Readable(t, k)
  <2>1. CASE k = n
    BY <1>1, <1>2, <2>1 DEF Readable, Seal
  <2>2. CASE k # n
    <3>1. t.entries[k] = s.entries[k] /\ Readable(s, k)
      BY <1>1, <1>2, <2>2 DEF ReadableAll, Present
    <3>2. QED
      BY <1>1, <3>1 DEF Readable
  <2>3. QED
    BY <2>1, <2>2
<1>3. ReadableAll(t)
  BY <1>2 DEF ReadableAll, Present
<1>4. QED
  BY <1>3 DEF t

LEMMA ReadableReseal ==
  ASSUME NEW s \in Stores, NEW new \in Stores
  PROVE  ReadableAll([new EXCEPT !.entries =
                       [n \in Names |-> IF n \in Present(s)
                                        THEN Seal(new, n, s.entries[n].val) ELSE NoBlob]])
<1> DEFINE e == [n \in Names |-> IF n \in Present(s)
                                 THEN Seal(new, n, s.entries[n].val) ELSE NoBlob]
           t == [new EXCEPT !.entries = e]
<1>1. t.master = new.master /\ t.kid = new.kid /\ t.salt = new.salt /\ t.entries = e
  BY DEF Stores
<1>2. \A n \in Names : e[n] # NoBlob => e[n] = Seal(new, n, s.entries[n].val)
  OBVIOUS
<1> HIDE DEF e, t
<1>3. ASSUME NEW n \in Names, t.entries[n] # NoBlob
      PROVE  Readable(t, n)
  <2>1. t.entries[n] = Seal(new, n, s.entries[n].val)
    BY <1>1, <1>2, <1>3
  <2>2. QED
    BY <1>1, <2>1 DEF Readable, Seal
<1>4. ReadableAll(t)
  BY <1>3 DEF ReadableAll, Present
<1>5. QED
  BY <1>4 DEF t, e

LEMMA ReadableStep ==
  ASSUME IInv, ReadInv, [Next]_vars
  PROVE  ReadInv'
<1> USE DEF IInv, TypeOK, ReadInv
<1>1. ASSUME NEW h \in Handles, NEW m \in Masters, TakeLock(h, m) \/ SkipLock(h, m)
      PROVE  ReadInv'
  <2> DEFINE s == [master |-> m, salt |-> 0, kid |-> 0, entries |-> NoEntries]
  <2>1. /\ mem' = [mem EXCEPT ![h] = s] /\ UNCHANGED <<undo, strayed>>
        /\ pc' = [pc EXCEPT ![h] = "read"] /\ holders' \subseteq holders \cup {h}
    BY <1>1 DEF TakeLock, SkipLock, Lock!Acquire, Goto
  <2>2. ReadableAll(s)
    BY ReadableFresh
  <2> HIDE DEF s
  <2>3. QED
    BY <2>1, <2>2
<1>2. ASSUME NEW h \in Handles, Ends(h), strayed' = strayed
      PROVE  ReadInv'
  BY <1>2 DEF Ends, Drop, RollBack, Goto
<1>3. ASSUME NEW h \in Handles,
             ReadFails(h) \/ RotateAuth(h) \/ Close(h) \/ CreateFails(h) \/ SyncDirFails(h)
               \/ RemoveTmp(h) \/ Die(h)
      PROVE  ReadInv'
  <2>1. Ends(h) /\ strayed' = strayed
    BY <1>3, EndsOf DEF ReadFails, RotateAuth, Close, CreateFails, SyncDirFails, RemoveTmp, Die
  <2>2. QED
    BY <1>2, <2>1
<1>4. ASSUME NEW h \in Handles, ReadFile(h)
      PROVE  ReadInv'
  <2>1. CASE Loads(cur)
    <3> DEFINE s == Load(cur, mem[h].master)
    <3>1. /\ mem' = [mem EXCEPT ![h] = s] /\ UNCHANGED <<undo, holders>>
          /\ pc' = [pc EXCEPT ![h] = "ready"]
      BY <1>4, <2>1 DEF ReadFile, Goto
    <3>2. strayed' = (strayed \/ ~ReadableAll(s))
      BY <1>4, <2>1 DEF ReadFile
    <3> HIDE DEF s
    <3>3. QED
      BY <3>1, <3>2
  <2>2. CASE ~Loads(cur)
    BY <1>2, <1>4, <2>2 DEF ReadFile, Ends
  <2>3. QED
    BY <2>1, <2>2
<1>5. ASSUME NEW h \in Handles, CreateStore(h)
      PROVE  ReadInv'
  <2> DEFINE s == Fresh(mem[h].master, NoEntries)
  <2>1. /\ mem' = [mem EXCEPT ![h] = s] /\ UNCHANGED <<undo, strayed, holders>>
        /\ pc' = [pc EXCEPT ![h] = "persist"]
    BY <1>5 DEF CreateStore, Goto
  <2>2. ReadableAll(s)
    BY ReadableFresh DEF Fresh
  <2> HIDE DEF s
  <2>3. QED
    BY <2>1, <2>2
<1>6. ASSUME NEW h \in Handles, NEW n \in Names, (\E v \in Vals : Put(h, n, v)) \/ Delete(h, n)
      PROVE  ReadInv'
  <2>1. /\ pc[h] = "ready" /\ pc' = [pc EXCEPT ![h] = "persist"]
        /\ undo' = [undo EXCEPT ![h] = mem[h]] /\ UNCHANGED <<strayed, holders>>
    BY <1>6 DEF Put, Delete, Goto
  <2>2. mem[h] \in Stores /\ mem[h] # Closed
    BY <2>1
  <2>3. PICK b \in Blobs \cup {NoBlob} :
          /\ mem' = [mem EXCEPT ![h] = [mem[h] EXCEPT !.entries[n] = b]]
          /\ b # NoBlob => \E v \in Vals : b = Seal(mem[h], n, v)
    <3>1. CASE Delete(h, n)
      BY <3>1 DEF Delete
    <3>2. CASE \E v \in Vals : Put(h, n, v)
      BY <2>2, <3>2, SealIsBlob DEF Put
    <3>3. QED
      BY <1>6, <3>1, <3>2
  <2>4. ReadableAll(mem[h]) => ReadableAll([mem[h] EXCEPT !.entries[n] = b])
    <3>1. /\ b \in Blobs \cup {NoBlob}
          /\ b # NoBlob => \E v \in Vals : b = Seal(mem[h], n, v)
      BY <2>3
    <3>2. QED
      BY ONLY <2>2, <3>1, ReadableSet
  <2>5. QED
    BY <2>1, <2>2, <2>3, <2>4
<1>7. ASSUME NEW h \in Handles, NEW m \in Masters, Rotate(h, m)
      PROVE  ReadInv'
  <2> DEFINE new == Fresh(m, NoEntries)
             t == [new EXCEPT !.entries =
                    [n \in Names |-> IF n \in Present(mem[h])
                                     THEN Seal(new, n, mem[h].entries[n].val) ELSE NoBlob]]
  <2>1. /\ mem' = [mem EXCEPT ![h] = t] /\ UNCHANGED <<undo, strayed, holders>>
        /\ pc' = [pc EXCEPT ![h] = "persist"]
    BY <1>7 DEF Rotate, Goto
  <2>2. ReadableAll(t)
    <3>1. mem[h] \in Stores /\ gen' \in 0..MaxGen
      BY <1>7, BoundAssumption DEF Rotate
    <3>2. new \in Stores
      BY <3>1, FreshIsStore
    <3>3. QED
      BY <3>1, <3>2, ReadableReseal
  <2> HIDE DEF t
  <2>3. QED
    BY <2>1, <2>2
<1>8. ASSUME NEW h \in Handles, WriteTmp(h) \/ SyncTmp(h) \/ Rename(h) \/ SyncDir(h) \/ WriteFails(h)
      PROVE  ReadInv'
  BY <1>8 DEF WriteTmp, SyncTmp, Rename, SyncDir, WriteFails, Goto
<1>9. CASE Restart
  BY <1>9 DEF Restart
<1>10. CASE Remount \/ UNCHANGED vars
  BY <1>10 DEF Remount, vars
<1>11. ASSUME NEW h \in Handles, NEW n \in Names, DeleteNothing(h, n)
       PROVE  ReadInv'
  BY <1>11 DEF DeleteNothing
<1>12. QED
  BY <1>1, <1>3, <1>4, <1>5, <1>6, <1>7, <1>8, <1>9, <1>10, <1>11 DEF Next, Step

\* As long as every file was opened with a master that reads it, whatever failed or
\* was rolled back since, get finds every entry of a handle readable.
THEOREM ReadsBackTheorem == Spec => []ReadsBackWhatItHolds
<1>1. Init => ReadInv
  BY DEF Init, ReadInv
<1>2. IInv /\ ReadInv => ReadsBackWhatItHolds
  <2> SUFFICES ASSUME IInv, ReadInv, ~strayed, NEW h \in holders, pc[h] # "read"
               PROVE  ReadableAll(mem[h])
    BY DEF ReadsBackWhatItHolds
  <2>1. QED
    BY DEF IInv, TypeOK, ReadInv
<1>3. QED
  BY <1>1, <1>2, ReadableStep, Invariance, PTL DEF Spec

-----------------------------------------------------------------------------
\* The refinement: the map's contents are what the owner of the lock answers with.

LEMMA TheOnly ==
  ASSUME NEW S, NEW h \in S, \A g \in S : g = h
  PROVE  (CHOOSE g \in S : TRUE) = h
OBVIOUS

\* The substitutions, told of the one handle that may be the owner.
LEMMA Views ==
  ASSUME LockInv, LockInv'
  PROVE  /\ Owners = {} => Data = Content(cur) /\ Ask = NoOp /\ Told = "none"
         /\ Owners' = {} => Data' = Content(cur') /\ Ask' = NoOp /\ Told' = "none"
         /\ \A h \in Owners : Data = Content(View(h)) /\ Ask = AskOf(h) /\ Told = res[h]
         /\ \A h \in Owners' : Data' = Content(View(h))' /\ Ask' = AskOf(h)' /\ Told' = res'[h]
<1>1. \A h \in Owners : Owners # {} /\ Owner = h
  <2>1. \A h \in Owners : \A g \in Owners : g = h
    BY DEF LockInv, Owners
  <2>2. QED
    BY <2>1, TheOnly DEF Owner
<1>2. \A h \in Owners' : Owners' # {} /\ Owner' = h
  <2>1. \A h \in Owners' : \A g \in Owners' : g = h
    BY DEF LockInv, Owners
  <2>2. QED
    BY <2>1, TheOnly DEF Owner
<1>3. Owners = {} => Data = Content(cur) /\ Ask = NoOp /\ Told = "none"
  BY DEF Data, Ask, Told
<1>4. Owners' = {} => Data' = Content(cur') /\ Ask' = NoOp /\ Told' = "none"
  BY DEF Data, Ask, Told, Content
<1>5. \A h \in Owners : Data = Content(View(h)) /\ Ask = AskOf(h) /\ Told = res[h]
  BY <1>1 DEF Data, Ask, Told
<1>6. \A h \in Owners' : Data' = Content(View(h))' /\ Ask' = AskOf(h)' /\ Told' = res'[h]
  BY <1>2 DEF Data, Ask, Told
<1>7. QED
  BY <1>3, <1>4, <1>5, <1>6

\* A change is in progress exactly when there is a copy to go back to; what was
\* asked for is then what memory holds.
LEMMA AskMeans ==
  ASSUME JInv, NEW h \in Handles
  PROVE  /\ undo[h] = Closed => AskOf(h) = NoOp /\ View(h) = mem[h]
         /\ undo[h] # Closed =>
              /\ View(h) = undo[h] /\ AskOf(h) \in Map!Ops /\ AskOf(h) # NoOp
              /\ Content(mem[h]) = [Content(View(h)) EXCEPT ![AskOf(h).name] = AskOf(h).val]
<1>1. CASE undo[h] = Closed
  <2>1. op[h] \in {Idle, Opening, Rotating}
    BY <1>1 DEF JInv, OpInv
  <2>2. op[h].kind # "set"
    BY <2>1 DEF Idle, Opening, Rotating
  <2>3. QED
    BY <1>1, <2>2 DEF AskOf, View
<1>2. CASE undo[h] # Closed
  <2>1. PICK n \in Names, v \in Vals \cup {NoVal} : op[h] = Setting(n, v)
    <3>1. op[h] \in Changes
      BY <1>2 DEF JInv, OpInv
    <3>2. QED
      BY <3>1 DEF Changes
  <2>2. AskOf(h) = [name |-> n, val |-> v] /\ op[h].name = n /\ op[h].val = v
    BY <2>1 DEF AskOf, Setting
  <2>3. AskOf(h) \in Map!Ops /\ AskOf(h) # NoOp
    BY <2>2, DistinctAssumption DEF Map!Ops
  <2>4. AskOf(h).name = n /\ AskOf(h).val = v
    BY <2>2
  <2>5. QED
    BY <1>2, <2>2, <2>3, <2>4 DEF JInv, OpInv, View
<1>3. QED
  BY <1>1, <1>2

\* A handle without the lock leaves the map alone.
LEMMA OutsiderStutters ==
  ASSUME JInv, JInv', NEW h \in Handles \ holders, h \notin holders' \/ pc'[h] = "read",
         holders' \ {h} = holders, UNCHANGED disk,
         \A k \in Handles \ {h} : /\ pc'[k] = pc[k] /\ mem'[k] = mem[k] /\ undo'[k] = undo[k]
                                  /\ op'[k] = op[k] /\ res'[k] = res[k]
  PROVE  UNCHANGED <<Data, Safe, Ask, Told>>
<1>1. holders \subseteq Handles \ {h}
  BY DEF JInv, IInv, TypeOK
<1>2. Owners' = Owners
  BY <1>1 DEF Owners
<1>3. \A k \in Owners : View(k)' = View(k) /\ AskOf(k)' = AskOf(k) /\ res'[k] = res[k]
  BY <1>1 DEF Owners, View, AskOf
<1>4. Content(cur)' = Content(cur) /\ Safe' = Safe
  BY DEF disk, Safe, Content
<1>5. \A k \in Owners : Content(View(k))' = Content(View(k))
  BY <1>3 DEF Content
<1>6. QED
  BY <1>2, <1>3, <1>4, <1>5, Views DEF JInv

\* A step of the handle that owns the lock before and after it, told of that handle.
LEMMA OwnerMoves ==
  ASSUME JInv, JInv', NEW h \in holders, holders' = holders,
         pc[h] # "read", pc'[h] # "read"
  PROVE  /\ Data = Content(View(h)) /\ Data' = Content(View(h)')
         /\ Ask = AskOf(h) /\ Ask' = AskOf(h)'
         /\ Told = res[h] /\ Told' = res'[h]
<1>1. h \in Owners /\ h \in Owners'
  BY DEF Owners, JInv, LockInv
<1>2. QED
  BY <1>1, Views DEF JInv, Content

\* The end of an operation, for the handle with the lock: the map fails, or is
\* left for what the file holds.
LEMMA OwnerEndsMap ==
  ASSUME JInv, JInv', NEW h \in holders, UNCHANGED disk,
         Ends(h), pc[h] = "read" => Drop(h)
  PROVE  Map!Restart \/ Map!Fail
<1>1. h \in Handles
  BY DEF JInv, IInv, TypeOK
<1>2. CASE Drop(h)
  <2>1. holders' = {}
    BY <1>2 DEF JInv, LockInv, Drop
  <2>2. Owners' = {}
    BY <2>1 DEF Owners
  <2>3. Safe' = Safe /\ Content(cur) \in Safe /\ cur' = cur
    BY DEF Safe, disk, Content, JInv, IInv, DiskInv
  <2>4. Data' = Content(cur) /\ Ask' = NoOp /\ Told' = "none"
    BY <2>2, <2>3, Views DEF JInv
  <2>5. QED
    BY <2>3, <2>4 DEF Map!Restart
<1>3. ASSUME NEW k \in Knowledge, pc[h] # "read", undo[h] # Closed, RollBack(h, k)
      PROVE  Map!Fail
  <2>1. /\ mem' = [mem EXCEPT ![h] = undo[h]] /\ undo' = [undo EXCEPT ![h] = Closed]
        /\ op' = [op EXCEPT ![h] = Idle] /\ pc' = [pc EXCEPT ![h] = "ready"]
        /\ res' = [res EXCEPT ![h] = "error"] /\ holders' = holders
    BY <1>3 DEF RollBack, Goto
  <2>2. /\ mem'[h] = undo[h] /\ undo'[h] = Closed /\ pc'[h] = "ready" /\ op'[h] = Idle
        /\ res'[h] = "error"
    BY <1>1, <2>1 DEF JInv, IInv, TypeOK
  <2>3. /\ Data = Content(View(h)) /\ Data' = Content(View(h)')
        /\ Ask = AskOf(h) /\ Ask' = AskOf(h)' /\ Told' = "error"
    BY <1>3, <2>1, <2>2, OwnerMoves
  <2>4. View(h) = undo[h] /\ View(h)' = undo[h] /\ AskOf(h) # NoOp
    BY <1>1, <1>3, <2>2, AskMeans DEF View
  <2>5. AskOf(h)' = NoOp
    BY <2>2 DEF AskOf, Idle
  <2>6. Safe' = Safe
    BY DEF Safe, disk, Content
  <2>7. QED
    BY <2>3, <2>4, <2>5, <2>6 DEF Map!Fail
<1>4. QED
  BY <1>2, <1>3 DEF Ends, RollBack

\* put and delete are requests.
LEMMA SetRequests ==
  ASSUME JInv, JInv', NEW h \in holders, NEW n \in Names,
         (\E v \in Vals : Put(h, n, v)) \/ Delete(h, n)
  PROVE  Map!Request
<1>1. PICK v \in Vals \cup {NoVal} :
        /\ pc[h] = "ready" /\ pc' = [pc EXCEPT ![h] = "persist"]
        /\ op' = [op EXCEPT ![h] = Setting(n, v)]
        /\ undo' = [undo EXCEPT ![h] = mem[h]]
        /\ v = NoVal => n \in Present(mem[h])
        /\ UNCHANGED <<disk, holders, res>>
  BY ValsAssumption DEF Put, Delete, Goto
<1>2. h \in Handles /\ mem[h] # Closed /\ undo[h] = Closed
  BY <1>1 DEF JInv, IInv, TypeOK, OpInv, Persisting
<1>3. pc'[h] = "persist" /\ undo'[h] = mem[h] /\ op'[h] = Setting(n, v)
  BY <1>1, <1>2 DEF JInv, IInv, TypeOK
<1>4. /\ Data = Content(View(h)) /\ Data' = Content(View(h)')
      /\ Ask = AskOf(h) /\ Ask' = AskOf(h)' /\ Told' = Told
  BY <1>1, <1>3, OwnerMoves
<1>5. View(h) = mem[h] /\ View(h)' = mem[h] /\ AskOf(h) = NoOp
  BY <1>2, <1>3, AskMeans DEF View
<1>6. AskOf(h)' = [name |-> n, val |-> v]
  BY <1>3 DEF AskOf, Setting
<1>7. AskOf(h)' \in Map!Ops /\ AskOf(h)'.name = n /\ AskOf(h)'.val = v
  BY <1>6 DEF Map!Ops
<1>8. v = NoVal => Content(mem[h])[n] # NoVal
  BY <1>1, <1>2, PresentIsContent DEF JInv, IInv, TypeOK
<1>9. Safe' = Safe
  BY <1>1 DEF Safe, disk, Content
<1>10. QED
  BY <1>4, <1>5, <1>7, <1>8, <1>9 DEF Map!Request

\* A delete of a name that is not in memory is one of a name that is not in the map.
LEMMA NothingIsDeleted ==
  ASSUME JInv, JInv', NEW h \in holders, NEW n \in Names, DeleteNothing(h, n)
  PROVE  Map!DeleteNothing
<1>1. /\ pc[h] = "ready" /\ n \notin Present(mem[h]) /\ res' = [res EXCEPT ![h] = "ok"]
      /\ UNCHANGED <<disk, holders, pc, mem, undo, op>>
  BY DEF DeleteNothing
<1>2. h \in Handles /\ mem[h] \in Stores /\ undo[h] = Closed /\ res'[h] = "ok"
  BY <1>1 DEF JInv, IInv, TypeOK, OpInv, Persisting
<1>3. View(h) = mem[h] /\ View(h)' = mem[h] /\ AskOf(h) = NoOp /\ AskOf(h)' = NoOp
  BY <1>1, <1>2, AskMeans DEF View, AskOf
<1>4. /\ Data = Content(mem[h]) /\ Data' = Content(mem[h])
      /\ Ask = NoOp /\ Ask' = NoOp /\ Told' = "ok"
  BY <1>1, <1>2, <1>3, OwnerMoves
<1>5. Data[n] = NoVal
  BY <1>1, <1>2, <1>4, PresentIsContent
<1>6. Safe' = Safe
  BY <1>1 DEF Safe, disk, Content
<1>7. QED
  BY <1>4, <1>5, <1>6 DEF Map!DeleteNothing

\* The rename exposes what was asked for; that of a rotation or a new file, nothing.
LEMMA RenameExposes ==
  ASSUME JInv, JInv', NEW h \in holders, Rename(h)
  PROVE  Map!Expose \/ UNCHANGED <<Data, Safe, Ask, Told>>
<1>1. /\ pc[h] = "rename" /\ pc' = [pc EXCEPT ![h] = "dirsync"] /\ cur' = tmp[h].image
      /\ recoverable' = recoverable \cup {tmp[h].image}
      /\ UNCHANGED <<holders, mem, undo, op, res>>
  BY DEF Rename, Goto, JInv, IInv, TmpInv, TypeOK
<1>2. h \in Handles /\ mem[h] \in Stores /\ tmp[h].image = Image(mem[h])
  BY <1>1 DEF JInv, IInv, TypeOK, OwnerInv
<1>3. pc'[h] = "dirsync"
  BY <1>1, <1>2 DEF JInv, IInv, TypeOK
<1>4. View(h)' = View(h) /\ AskOf(h)' = AskOf(h)
  BY <1>1 DEF View, AskOf
<1>5. /\ Data = Content(View(h)) /\ Data' = Data
      /\ Ask = AskOf(h) /\ Ask' = Ask /\ Told' = Told
  BY <1>1, <1>3, <1>4, OwnerMoves
<1>6. Safe' = Safe \cup {Content(mem[h])}
  <2>1. Content(tmp[h].image) = Content(mem[h])
    BY <1>2, ContentOfImage
  <2>2. Safe' = {Content(f) : f \in recoverable'}
    BY DEF Safe, Content
  <2>3. QED
    BY <1>1, <2>1, <2>2 DEF Safe
<1>7. CASE undo[h] = Closed
  <2>1. Content(mem[h]) \in Safe
    BY <1>1, <1>2, <1>7 DEF Safe, JInv, OwnerInv, View
  <2>2. QED
    BY <1>5, <1>6, <2>1
<1>8. CASE undo[h] # Closed
  <2>1. AskOf(h) # NoOp /\ Content(mem[h]) = [Data EXCEPT ![Ask.name] = Ask.val]
    BY <1>2, <1>5, <1>8, AskMeans
  <2>2. QED
    BY <1>5, <1>6, <2>1 DEF Map!Expose, Map!Asked
<1>9. QED
  BY <1>7, <1>8

\* The sync of the directory is where a put or delete succeeds.
LEMMA SyncSucceeds ==
  ASSUME JInv, JInv', NEW h \in holders, SyncDir(h)
  PROVE  Map!Succeed \/ Map!Settle
<1>1. /\ pc[h] = "dirsync" /\ pc' = [pc EXCEPT ![h] = "ready"] /\ cur' = cur
      /\ recoverable' = {cur} /\ undo' = [undo EXCEPT ![h] = Closed]
      /\ op' = [op EXCEPT ![h] = Idle] /\ res' = [res EXCEPT ![h] = "ok"]
      /\ UNCHANGED <<holders, mem>>
  BY DEF SyncDir, Goto
<1>2. h \in Handles /\ mem[h] \in Stores /\ cur = Image(mem[h])
  BY <1>1 DEF JInv, IInv, TypeOK, OwnerInv
<1>3. pc'[h] = "ready" /\ undo'[h] = Closed /\ op'[h] = Idle /\ res'[h] = "ok"
  BY <1>1, <1>2 DEF JInv, IInv, TypeOK
<1>4. View(h)' = mem[h] /\ AskOf(h)' = NoOp
  BY <1>1, <1>3 DEF View, AskOf, Idle
<1>5. /\ Data = Content(View(h)) /\ Data' = Content(mem[h])
      /\ Ask = AskOf(h) /\ Ask' = NoOp /\ Told' = "ok"
  BY <1>1, <1>3, <1>4, OwnerMoves
<1>6. Safe' = {Content(mem[h])}
  <2>1. Content(cur) = Content(mem[h])
    BY <1>2, ContentOfImage
  <2>2. Safe' = {Content(f) : f \in recoverable'}
    BY DEF Safe, Content
  <2>3. QED
    BY <1>1, <2>1, <2>2
<1>7. CASE undo[h] = Closed
  <2>1. View(h) = mem[h] /\ AskOf(h) = NoOp
    BY <1>2, <1>7, AskMeans
  <2>2. QED
    BY <1>5, <1>6, <2>1 DEF Map!Settle
<1>8. CASE undo[h] # Closed
  <2>1. AskOf(h) # NoOp /\ Content(mem[h]) = [Data EXCEPT ![Ask.name] = Ask.val]
    BY <1>2, <1>5, <1>8, AskMeans
  <2>2. QED
    BY <1>5, <1>6, <2>1 DEF Map!Succeed, Map!Asked
<1>9. QED
  BY <1>7, <1>8

\* Reading or creating the file, and a rotation up to its rename, are not seen.
LEMMA OwnerStutters ==
  ASSUME JInv, JInv', NEW h \in holders,
         \/ ReadFile(h) /\ Loads(cur)
         \/ CreateStore(h) \/ (\E m \in Masters : Rotate(h, m))
         \/ WriteTmp(h) \/ SyncTmp(h) \/ WriteFails(h)
  PROVE  UNCHANGED <<Data, Safe, Ask, Told>>
<1>1. /\ h \in Handles /\ UNCHANGED <<disk, holders, undo, res>>
      /\ pc'[h] \notin {"closed", "read"}
  BY DEF ReadFile, CreateStore, Rotate, WriteTmp, SyncTmp, WriteFails, Goto, JInv, IInv, TypeOK
<1>2. Safe' = Safe /\ Content(cur)' = Content(cur)
  BY <1>1 DEF Safe, disk, Content
<1>3. h \in Owners'
  BY <1>1 DEF Owners
<1>4. Data' = Content(View(h))' /\ Ask' = AskOf(h)' /\ Told' = res[h]
  BY <1>1, <1>3, Views DEF JInv
<1>5. CASE pc[h] = "read"
  <2>1. Owners = {}
    BY <1>5 DEF Owners, JInv, LockInv
  <2>2. undo'[h] = Closed /\ View(h)' = mem'[h]
    BY <1>1, <1>5 DEF JInv, OpInv, Persisting, View
  <2>3. Content(mem'[h]) = Content(cur)
    <3>1. CASE ReadFile(h) /\ Loads(cur)
      <4>1. mem'[h] = Load(cur, mem[h].master)
        BY <1>1, <3>1 DEF ReadFile, JInv, IInv, TypeOK
      <4>2. QED
        BY <1>1, <3>1, <4>1, ReadIsContent DEF JInv
    <3>2. CASE CreateStore(h)
      <4>1. cur = NoFile /\ mem'[h] = Fresh(mem[h].master, NoEntries)
        BY <1>1, <3>2 DEF CreateStore, JInv, IInv, TypeOK
      <4>2. QED
        BY <1>1, <3>2, <4>1, CreateIsEmpty DEF JInv
    <3>3. QED
      BY <1>5, <3>1, <3>2 DEF Rotate, WriteTmp, SyncTmp, WriteFails
  <2>4. AskOf(h)' = NoOp
    <3>1. op'[h] \in {Idle, Opening, Rotating}
      BY <1>1, <2>2 DEF JInv, OpInv
    <3>2. QED
      BY <3>1 DEF AskOf, Idle, Opening, Rotating
  <2>5. Content(View(h))' = Content(cur)
    BY <2>2, <2>3 DEF Content
  <2>6. res[h] = "none"
    BY <1>1, <1>5 DEF JInv, OpInv
  <2>7. QED
    BY <1>2, <1>4, <2>1, <2>4, <2>5, <2>6, Views DEF JInv
<1>6. CASE pc[h] # "read"
  <2>1. h \in Owners
    BY <1>6 DEF Owners, JInv, LockInv
  <2>2. Data = Content(View(h)) /\ Ask = AskOf(h) /\ Told = res[h]
    BY <2>1, Views DEF JInv
  <2>3. CASE \E m \in Masters : Rotate(h, m)
    <3>1. undo[h] = Closed /\ undo'[h] = Closed
      BY <1>1, <2>3 DEF Rotate, JInv, OpInv, Persisting
    <3>2. Content(mem'[h]) = Content(mem[h])
      BY <1>1, <2>3, RotateKeeps DEF JInv
    <3>3. Content(View(h))' = Content(View(h))
      BY <3>1, <3>2 DEF View, Content
    <3>4. AskOf(h)' = NoOp
      BY <1>1, <2>3 DEF Rotate, JInv, IInv, TypeOK, AskOf, Rotating
    <3>5. AskOf(h) = NoOp
      BY <1>1, <3>1, AskMeans
    <3>6. QED
      BY <1>2, <1>4, <2>2, <3>3, <3>4, <3>5
  <2>4. CASE WriteTmp(h) \/ SyncTmp(h) \/ WriteFails(h)
    <3>1. UNCHANGED <<mem, undo, op>>
      BY <2>4 DEF WriteTmp, SyncTmp, WriteFails
    <3>2. Content(View(h))' = Content(View(h)) /\ AskOf(h)' = AskOf(h)
      BY <3>1 DEF View, AskOf, Content
    <3>3. QED
      BY <1>2, <1>4, <2>2, <3>2
  <2>5. QED
    BY <1>6, <2>3, <2>4 DEF ReadFile, CreateStore
<1>7. QED
  BY <1>5, <1>6

\* What the handles do, by the one that has the lock and by the others.
LEMMA HandleMapStep ==
  ASSUME JInv, JInv', NEW h \in Handles, Step(h)
  PROVE  [Map!Next]_<<Data, Safe, Ask, Told>>
<1>1. CASE h \in holders
  <2>1. ASSUME NEW m \in Masters, TakeLock(h, m) \/ SkipLock(h, m)
        PROVE  FALSE
    BY <1>1, <2>1 DEF TakeLock, SkipLock, JInv, LockInv
  <2>2. CASE \/ ReadFile(h) /\ Loads(cur)
             \/ CreateStore(h) \/ (\E m \in Masters : Rotate(h, m))
             \/ WriteTmp(h) \/ SyncTmp(h) \/ WriteFails(h)
    BY <1>1, <2>2, OwnerStutters
  <2>3. CASE ReadFile(h) /\ ~Loads(cur)
    BY <1>1, <2>3, OwnerEndsMap DEF ReadFile, Ends, Map!Next
  <2>4. CASE ReadFails(h) \/ RotateAuth(h) \/ Close(h) \/ CreateFails(h) \/ SyncDirFails(h)
               \/ RemoveTmp(h) \/ Die(h)
    <3>1. Ends(h) /\ UNCHANGED disk
      BY <2>4, EndsOf DEF JInv, IInv
    <3>2. pc[h] = "read" => Drop(h)
      BY <2>4 DEF ReadFails, RotateAuth, Close, CreateFails, SyncDirFails, RemoveTmp, Die
    <3>3. QED
      BY <1>1, <3>1, <3>2, OwnerEndsMap DEF Map!Next
  <2>5. ASSUME NEW n \in Names, (\E v \in Vals : Put(h, n, v)) \/ Delete(h, n)
        PROVE  Map!Next
    BY <1>1, <2>5, SetRequests DEF Map!Next
  <2>6. CASE Rename(h)
    BY <1>1, <2>6, RenameExposes DEF Map!Next
  <2>7. CASE SyncDir(h)
    BY <1>1, <2>7, SyncSucceeds DEF Map!Next
  <2>8. ASSUME NEW n \in Names, DeleteNothing(h, n)
        PROVE  Map!Next
    BY <1>1, <2>8, NothingIsDeleted DEF Map!Next
  <2>9. QED
    BY <2>1, <2>2, <2>3, <2>4, <2>5, <2>6, <2>7, <2>8 DEF Step
<1>2. CASE h \notin holders
  <2> DEFINE Out == /\ h \notin holders' \/ pc'[h] = "read"
                    /\ holders' \ {h} = holders /\ UNCHANGED disk
                    /\ \A k \in Handles \ {h} : /\ pc'[k] = pc[k] /\ mem'[k] = mem[k]
                                                /\ undo'[k] = undo[k] /\ op'[k] = op[k]
                                                /\ res'[k] = res[k]
  <2> USE DEF JInv, IInv, TypeOK, Goto
  <2>1. ASSUME NEW m \in Masters, TakeLock(h, m)
        PROVE  Out
    BY <1>2, <2>1 DEF TakeLock, Lock!Acquire
  <2>2. ASSUME NEW m \in Masters, SkipLock(h, m) \/ Rotate(h, m)
        PROVE  Out
    BY <1>2, <2>2 DEF SkipLock, Rotate
  <2>3. ASSUME Ends(h), UNCHANGED disk
        PROVE  Out
    BY <1>2, <2>3 DEF Ends, Drop, RollBack
  <2>4. ASSUME ReadFails(h) \/ RotateAuth(h) \/ Close(h) \/ CreateFails(h) \/ Die(h)
                 \/ SyncDirFails(h) \/ RemoveTmp(h)
        PROVE  Out
    BY <2>3, <2>4, EndsOf
  <2>5. ASSUME ReadFile(h)
        PROVE  Out
    <3>1. CASE Loads(cur)
      BY <1>2, <2>5, <3>1 DEF ReadFile
    <3>2. CASE ~Loads(cur)
      BY <2>3, <2>5, <3>2 DEF ReadFile, Ends
    <3>3. QED
      BY <3>1, <3>2
  <2>6. ASSUME NEW n \in Names, (\E v \in Vals : Put(h, n, v)) \/ Delete(h, n) \/ DeleteNothing(h, n)
        PROVE  Out
    BY <1>2, <2>6 DEF Put, Delete, DeleteNothing
  <2>7. ASSUME CreateStore(h) \/ WriteTmp(h) \/ SyncTmp(h) \/ WriteFails(h)
        PROVE  Out
    BY <1>2, <2>7 DEF CreateStore, WriteTmp, SyncTmp, WriteFails
  <2>8. ASSUME Rename(h) \/ SyncDir(h)
        PROVE  Out
    BY <1>2, <2>8 DEF Rename, SyncDir, LockInv
  <2>9. Out
    BY <2>1, <2>2, <2>4, <2>5, <2>6, <2>7, <2>8 DEF Step
  <2>10. UNCHANGED <<Data, Safe, Ask, Told>>
    BY <1>2, <2>9, OutsiderStutters
  <2>11. QED
    BY <2>10
<1>3. QED
  BY <1>1, <1>2

LEMMA MapStep ==
  ASSUME JInv, JInv', [Next]_vars
  PROVE  [Map!Next]_<<Data, Safe, Ask, Told>>
<1>1. CASE \E h \in Handles : Step(h)
  BY <1>1, HandleMapStep
<1>2. CASE Restart
  <2>1. cur' \in recoverable /\ recoverable' = {cur'} /\ Owners' = {}
    BY <1>2 DEF Restart, Owners
  <2>2. Data' = Content(cur') /\ Ask' = NoOp /\ Told' = "none"
    BY <2>1, Views DEF JInv
  <2>3. Safe' = {Content(f) : f \in recoverable'}
    BY DEF Safe, Content
  <2>4. Data' \in Safe /\ Safe' = {Data'}
    BY <2>1, <2>2, <2>3 DEF Safe
  <2>5. QED
    BY <2>2, <2>4 DEF Map!Next, Map!Restart
<1>3. CASE Remount \/ UNCHANGED vars
  <2>1. UNCHANGED <<disk, holders, pc, mem, undo, op, res>>
    BY <1>3 DEF Remount, vars, disk
  <2>2. Owners' = Owners /\ Content(cur)' = Content(cur) /\ Safe' = Safe
    BY <2>1 DEF Owners, Content, Safe, disk
  <2>3. \A h \in Owners : /\ Content(View(h))' = Content(View(h)) /\ AskOf(h)' = AskOf(h)
                         /\ res'[h] = res[h]
    BY <2>1 DEF View, AskOf, Content
  <2>4. QED
    BY <2>2, <2>3, Views DEF JInv
<1>4. QED
  BY <1>1, <1>2, <1>3 DEF Next

\* The store implements the map: what a put, or a delete of a name it holds, reported
\* as done is never undone, what failed or died comes back only whole and only at a
\* restart, no change of one name costs another, and a delete that finds no name is
\* told Ok without a change of anything.
THEOREM MapTheorem == Spec /\ OnlyOwnerWrites => ImplementsMap
<1>1. Init => Map!Init
  <2> SUFFICES ASSUME Init PROVE Map!Init
    OBVIOUS
  <2>1. Owners = {} /\ cur = NoFile /\ recoverable = {NoFile}
    BY DEF Init, Owners
  <2>2. Data = Content(NoFile) /\ Safe = {Content(NoFile)} /\ Ask = NoOp /\ Told = "none"
    BY <2>1 DEF Data, Safe, Ask, Told
  <2>3. QED
    BY <2>2, ContentOfNoFile DEF Map!Init
<1>2. JInv /\ JInv' /\ [Next]_vars => [Map!Next]_<<Data, Safe, Ask, Told>>
  BY MapStep
<1>3. QED
  BY <1>1, <1>2, OwnerInvariance, PTL DEF Spec, ImplementsMap, Map!Spec, Map!vars
===============================================================================
