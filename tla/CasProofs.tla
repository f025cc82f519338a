----------------------------- MODULE CasProofs ------------------------------
(***************************************************************************)
(* Proofs about Cas, for any number of writers, readers, digests, inodes,  *)
(* chunks, kills and power cuts.                                           *)
(***************************************************************************)
EXTENDS Cas, TLAPS

\* The control points and constant contents the actions assign are well typed.
LEMMA Members ==
  /\ "idle" \in Phases /\ "has" \in Phases /\ "remove" \in Phases
  /\ "clone" \in Phases /\ "ioctl" \in Phases /\ "copyopen" \in Phases
  /\ "copy" \in Phases /\ "fallback" \in Phases /\ "open" \in Phases
  /\ "write" \in Phases /\ "fsync" \in Phases /\ "seal" \in Phases
  /\ "rename" \in Phases /\ "dirsync" \in Phases
  /\ Empty \in [Chunks -> Digests \cup {Hole}]
  /\ \A d \in Digests : Whole(d) \in [Chunks -> Digests \cup {Hole}]
  /\ 1 \in 1 .. NChunks + 1
BY NumberAssumption DEF Phases, Empty, Whole

\* Whichever way a step leaves its control point, control stays well typed.
LEMMA ControlType ==
  ASSUME TypeOK, NEW w \in Writers, NEW from, NEW to \in Phases,
         Goto(w, from, to) \/ ReturnOk(w, from) \/ ReturnErr(w, from)
  PROVE  ControlTypeOK'
<1>1. pc' \in [Writers -> Phases]
  BY Members DEF TypeOK, ControlTypeOK, Goto, ReturnOk, ReturnErr
<1>2. failed' \subseteq Writers
  BY DEF TypeOK, ControlTypeOK, Goto, ReturnOk, ReturnErr
<1>3. acked' \subseteq Digests
  BY DEF TypeOK, ControlTypeOK, WriterTypeOK, Goto, ReturnOk, ReturnErr
<1>. QED
  BY <1>1, <1>2, <1>3 DEF ControlTypeOK

\* Every object has a first chunk.
LEMMA FirstChunk == 1 \in Chunks
BY NumberAssumption DEF Chunks

\* Every system call of every writer and reader, every kill and power loss
\* keeps the state well formed.
LEMMA TypeStep == TypeOK /\ [Next]_vars => TypeOK'
<1> SUFFICES ASSUME TypeOK, [Next]_vars PROVE TypeOK'
  OBVIOUS
<1> USE DEF TypeOK, inodeVars, nameVars, opVars, readVars, envVars
<1>1. ASSUME NEW w \in Writers, NEW k \in Kinds, NEW d \in Owns[w], Start(w, k, d)
      PROVE  TypeOK'
  BY <1>1, Members, OwnsAssumption, KindsAssumption
     DEF Start, FsTypeOK, ControlTypeOK, WriterTypeOK, ReaderTypeOK
<1>2. ASSUME NEW w \in Writers, Has(w) PROVE TypeOK'
  <2>1. ControlTypeOK'
    BY <1>2, Members, ControlType DEF Has
  <2>2. FsTypeOK'
    BY <1>2, Members DEF Has, FsTypeOK, WriterTypeOK
  <2>3. WriterTypeOK'
    BY <1>2, Members DEF Has, WriterTypeOK
  <2>. QED
    BY <1>2, <2>1, <2>2, <2>3 DEF Has, ReaderTypeOK
<1>3. ASSUME NEW w \in Writers, RemoveStaged(w) PROVE TypeOK'
  <2>1. ControlTypeOK'
    BY <1>3, Members, ControlType DEF RemoveStaged
  <2>2. FsTypeOK'
    BY <1>3, Members DEF RemoveStaged, Unlink, FsTypeOK, WriterTypeOK
  <2>3. WriterTypeOK'
    BY <1>3, Members DEF RemoveStaged, Unlink, WriterTypeOK
  <2>. QED
    BY <1>3, <2>1, <2>2, <2>3 DEF RemoveStaged, ReaderTypeOK
<1>4. ASSUME NEW w \in Writers, CloneCreate(w) PROVE TypeOK'
  <2>1. ControlTypeOK'
    BY <1>4, Members, ControlType DEF CloneCreate
  <2>2. FsTypeOK'
    <3>1. CASE UNCHANGED <<inodeVars, staging>>
      BY <1>4, <3>1 DEF CloneCreate, FsTypeOK
    <3>2. CASE ~UNCHANGED <<inodeVars, staging>>
      <4>1. PICK i \in Inodes :
              /\ staging' = [staging EXCEPT ![dig[w]] = i]
              /\ data' = [data EXCEPT ![i] = Empty]
              /\ sealed' = [sealed EXCEPT ![i] = FALSE]
              /\ flushed' = [flushed EXCEPT ![i] = FALSE]
        BY <1>4, <3>2 DEF CloneCreate
      <4>2. object' = object /\ durable' = durable
        BY <1>4 DEF CloneCreate
      <4>. QED
        BY <4>1, <4>2, Members DEF FsTypeOK
    <3>. QED
      BY <3>1, <3>2
  <2>3. WriterTypeOK'
    <3>1. fd' \in [Writers -> Inodes \cup {None}]
      BY <1>4 DEF CloneCreate, WriterTypeOK
    <3>. QED
      BY <1>4, <3>1 DEF CloneCreate, WriterTypeOK
  <2>. QED
    BY <1>4, <2>1, <2>2, <2>3 DEF CloneCreate, ReaderTypeOK
<1>5. ASSUME NEW w \in Writers, CloneIoctl(w) PROVE TypeOK'
  <2>1. ControlTypeOK'
    BY <1>5, Members, ControlType DEF CloneIoctl
  <2>2. FsTypeOK'
    <3>1. data' \in [Inodes -> [Chunks -> Digests \cup {Hole}]]
      BY <1>5, Members DEF CloneIoctl, FsTypeOK, WriterTypeOK
    <3>2. staging' \in [Digests -> Inodes \cup {None}]
      BY <1>5 DEF CloneIoctl, Unlink, FsTypeOK
    <3>. QED
      BY <1>5, <3>1, <3>2 DEF CloneIoctl, FsTypeOK
  <2>3. WriterTypeOK'
    BY <1>5, Members DEF CloneIoctl, Unlink, Close, WriterTypeOK
  <2>. QED
    BY <1>5, <2>1, <2>2, <2>3 DEF CloneIoctl, ReaderTypeOK
<1>6. ASSUME NEW w \in Writers, Fallback(w) PROVE TypeOK'
  <2>1. ControlTypeOK'
    BY <1>6, Members, ControlType DEF Fallback
  <2>2. FsTypeOK'
    BY <1>6, Members DEF Fallback, Unlink, FsTypeOK, WriterTypeOK
  <2>3. WriterTypeOK'
    BY <1>6, Members DEF Fallback, Unlink, WriterTypeOK
  <2>. QED
    BY <1>6, <2>1, <2>2, <2>3 DEF Fallback, ReaderTypeOK
<1>7. ASSUME NEW w \in Writers, OpenStaged(w) PROVE TypeOK'
  <2>1. ControlTypeOK'
    BY <1>7, Members, ControlType DEF OpenStaged
  <2>2. FsTypeOK'
    <3>1. CASE UNCHANGED <<inodeVars, staging>>
      BY <1>7, <3>1 DEF OpenStaged, FsTypeOK
    <3>2. CASE ~UNCHANGED <<inodeVars, staging>>
      <4>1. PICK i \in Inodes :
              /\ staging' = [staging EXCEPT ![dig[w]] = i]
              /\ data' = [data EXCEPT ![i] = Empty]
              /\ sealed' = [sealed EXCEPT ![i] =
                              IF staging[dig[w]] = i THEN @ ELSE FALSE]
              /\ flushed' = [flushed EXCEPT ![i] = FALSE]
        BY <1>7, <3>2 DEF OpenStaged, OpenTruncate
      <4>2. object' = object /\ durable' = durable
        BY <1>7 DEF OpenStaged
      <4>. QED
        BY <4>1, <4>2, Members DEF FsTypeOK
    <3>. QED
      BY <3>1, <3>2
  <2>3. WriterTypeOK'
    <3>1. fd' \in [Writers -> Inodes \cup {None}]
      BY <1>7 DEF OpenStaged, OpenTruncate, WriterTypeOK
    <3>. QED
      BY <1>7, <3>1 DEF OpenStaged, WriterTypeOK
  <2>. QED
    BY <1>7, <2>1, <2>2, <2>3 DEF OpenStaged, ReaderTypeOK
<1>8. ASSUME NEW w \in Writers, WriteChunk(w) PROVE TypeOK'
  <2>1. ControlTypeOK'
    BY <1>8 DEF WriteChunk, ControlTypeOK
  <2>2. FsTypeOK'
    BY <1>8, Members DEF WriteChunk, FsTypeOK, WriterTypeOK
  <2>3. WriterTypeOK'
    BY <1>8, NumberAssumption DEF WriteChunk, WriterTypeOK, Chunks
  <2>. QED
    BY <1>8, <2>1, <2>2, <2>3 DEF WriteChunk, ReaderTypeOK
<1>9. ASSUME NEW w \in Writers, WriteFails(w) PROVE TypeOK'
  <2>1. ControlTypeOK'
    BY <1>9, Members, ControlType DEF WriteFails
  <2>2. FsTypeOK'
    BY <1>9, Members DEF WriteFails, Close, FsTypeOK, WriterTypeOK
  <2>3. WriterTypeOK'
    BY <1>9, Members DEF WriteFails, Close, WriterTypeOK
  <2>. QED
    BY <1>9, <2>1, <2>2, <2>3 DEF WriteFails, ReaderTypeOK
<1>10. ASSUME NEW w \in Writers, WriteDone(w) PROVE TypeOK'
  <2>1. ControlTypeOK'
    BY <1>10, Members, ControlType DEF WriteDone
  <2>2. FsTypeOK'
    BY <1>10, Members DEF WriteDone, Close, FsTypeOK, WriterTypeOK
  <2>3. WriterTypeOK'
    BY <1>10, Members DEF WriteDone, Close, WriterTypeOK
  <2>. QED
    BY <1>10, <2>1, <2>2, <2>3 DEF WriteDone, ReaderTypeOK
<1>11. ASSUME NEW w \in Writers, Fsync(w) PROVE TypeOK'
  <2>1. ControlTypeOK'
    BY <1>11, Members, ControlType DEF Fsync
  <2>2. FsTypeOK'
    BY <1>11, Members DEF Fsync, Close, FsTypeOK, WriterTypeOK
  <2>3. WriterTypeOK'
    BY <1>11, Members DEF Fsync, Close, WriterTypeOK
  <2>. QED
    BY <1>11, <2>1, <2>2, <2>3 DEF Fsync, ReaderTypeOK
<1>12. ASSUME NEW w \in Writers, Seal(w) PROVE TypeOK'
  <2>1. ControlTypeOK'
    BY <1>12, Members, ControlType DEF Seal
  <2>2. FsTypeOK'
    BY <1>12, Members DEF Seal, FsTypeOK, WriterTypeOK
  <2>3. WriterTypeOK'
    BY <1>12, Members DEF Seal, WriterTypeOK
  <2>. QED
    BY <1>12, <2>1, <2>2, <2>3 DEF Seal, ReaderTypeOK
<1>13. ASSUME NEW w \in Writers, Rename(w) PROVE TypeOK'
  <2>1. ControlTypeOK'
    BY <1>13, Members, ControlType DEF Rename
  <2>2. FsTypeOK'
    BY <1>13, Members DEF Rename, Unlink, FsTypeOK, WriterTypeOK
  <2>3. WriterTypeOK'
    BY <1>13, Members DEF Rename, Unlink, WriterTypeOK
  <2>. QED
    BY <1>13, <2>1, <2>2, <2>3 DEF Rename, ReaderTypeOK
<1>14. ASSUME NEW w \in Writers, DirSync(w) PROVE TypeOK'
  <2>1. ControlTypeOK'
    BY <1>14, Members, ControlType DEF DirSync
  <2>2. FsTypeOK'
    BY <1>14, Members DEF DirSync, FsTypeOK, WriterTypeOK
  <2>3. WriterTypeOK'
    BY <1>14, Members DEF DirSync, WriterTypeOK
  <2>. QED
    BY <1>14, <2>1, <2>2, <2>3 DEF DirSync, ReaderTypeOK
<1>15. ASSUME NEW w \in Writers, NEW d \in Digests, Edit(w, d) PROVE TypeOK'
  BY <1>15, Members, NumberAssumption
     DEF Edit, Close, FsTypeOK, ControlTypeOK, WriterTypeOK, ReaderTypeOK
<1>16. ASSUME NEW w \in Writers, Kill(w) PROVE TypeOK'
  BY <1>16, Members, NumberAssumption
     DEF Kill, Close, FsTypeOK, ControlTypeOK, WriterTypeOK, ReaderTypeOK
<1>17. ASSUME NEW r \in Readers, NEW d \in Digests, ReadOpen(r, d) PROVE TypeOK'
  BY <1>17, FirstChunk DEF ReadOpen, FsTypeOK, ControlTypeOK, WriterTypeOK, ReaderTypeOK
<1>18. ASSUME NEW r \in Readers, ReadData(r) PROVE TypeOK'
  <2>1. roff' \in [Readers -> Chunks]
    <3>1. CASE UNCHANGED roff
      BY <3>1 DEF ReaderTypeOK
    <3>2. CASE roff[r] < NChunks /\ roff' = [roff EXCEPT ![r] = @ + 1]
      <4>1. roff[r] + 1 \in Chunks
        BY <3>2, NumberAssumption DEF ReaderTypeOK, Chunks
      <4>. QED
        BY <3>2, <4>1 DEF ReaderTypeOK
    <3>. QED
      BY <1>18, <3>1, <3>2 DEF ReadData
  <2>2. ReaderTypeOK'
    BY <1>18, <2>1 DEF ReadData, ReaderTypeOK
  <2>. QED
    BY <1>18, <2>2 DEF ReadData, FsTypeOK, ControlTypeOK, WriterTypeOK
<1>19. CASE PowerLoss
  <2>1. FsTypeOK'
    BY <1>19, Members DEF PowerLoss, FsTypeOK
  <2>2. ControlTypeOK' /\ WriterTypeOK' /\ ReaderTypeOK'
    BY <1>19, Members DEF PowerLoss, ControlTypeOK, WriterTypeOK, ReaderTypeOK
  <2>. QED
    BY <1>19, <2>1, <2>2, NumberAssumption DEF PowerLoss
<1>20. CASE UNCHANGED vars
  BY <1>20 DEF vars, FsTypeOK, ControlTypeOK, WriterTypeOK, ReaderTypeOK
<1>. QED
  BY <1>1, <1>2, <1>3, <1>4, <1>5, <1>6, <1>7, <1>8, <1>9, <1>10, <1>11,
     <1>12, <1>13, <1>14, <1>15, <1>16, <1>17, <1>18, <1>19, <1>20
     DEF Next, Writer, Step, Reader

\* Type correctness, whatever the configuration: every system call of every
\* writer and reader, every kill and power loss keeps the state well formed.
THEOREM TypeCorrect == Spec => []TypeOK
<1>1. Init => TypeOK
  BY Members, FirstChunk, NumberAssumption
     DEF Init, TypeOK, FsTypeOK, ControlTypeOK, WriterTypeOK, ReaderTypeOK, AllKinds
<1>. QED
  BY <1>1, TypeStep, PTL DEF Spec

-----------------------------------------------------------------------------
(***************************************************************************)
(* The store is sound when each digest has one writer, files do not change *)
(* while they are ingested, and power is only cut under stores that sync   *)
(* and insert from memory.  Each condition is needed: without it, TLC has  *)
(* a counterexample.                                                       *)
(***************************************************************************)
Sound ==
  /\ Exclusive
  /\ ~EditSources
  /\ MaxPowerCuts > 0 => Synced /\ Kinds \subseteq {"bytes"}

\* Control points between has and the end of rename, at which the file is
\* open, and at which the staged file is complete.
Pending == Phases \ {"idle", "has", "dirsync"}
Holding == {"ioctl", "copy", "write", "fsync"}
Complete == {"fsync", "seal", "rename"}

\* What a writer in mid-insert knows of its operation,
OperationInv(w) ==
  pc[w] # "idle" => /\ dig[w] \in Owns[w]
                    /\ kind[w] \in Kinds
                    /\ source[w] = dig[w]

\* of its descriptor,
DescriptorInv(w) ==
  /\ pc[w] \in Holding => fd[w] # None /\ staging[dig[w]] = fd[w]
  /\ pc[w] \notin Holding => fd[w] = None /\ off[w] = 1

\* of what it has written: the object is not there yet, the chunks before off
\* are, and all of them once the file is complete,
ContentInv(w) ==
  /\ pc[w] \in Pending => object[dig[w]] = None
  /\ pc[w] \in {"copy", "write"} =>
       \A c \in Chunks : c < off[w] => data[fd[w]][c] = dig[w]
  /\ pc[w] \in Complete => /\ staging[dig[w]] # None
                           /\ data[staging[dig[w]]] = Whole(dig[w])

\* and, where power may be lost, that it is not on put_file's unsynced path
\* and that what it has sealed is on stable storage.
FlushInv(w) ==
  MaxPowerCuts > 0 =>
    /\ pc[w] \notin {"remove", "clone", "ioctl", "copyopen", "copy", "fallback"}
    /\ pc[w] \in {"seal", "rename"} => flushed[staging[dig[w]]]

WriterInv(w) == OperationInv(w) /\ DescriptorInv(w) /\ ContentInv(w) /\ FlushInv(w)

\* No inode has two names.
NamesInv ==
  \A d, e \in Digests :
    /\ staging[d] # None => /\ staging[d] # object[e]
                            /\ d # e => staging[d] # staging[e]
    /\ object[d] # None /\ d # e => object[d] # object[e]

\* Where power may be lost, objects are on stable storage.
ObjectsFlushed ==
  MaxPowerCuts > 0 => \A d \in Digests : object[d] # None => flushed[object[d]]

\* A reader in mid-read reads the object it opened, which is still in place.
ReaderInv(r) ==
  /\ rpc[r] = "opened" => rfd[r] # None /\ object[want[r]] = rfd[r]
  /\ reply[r] # "torn"

ObjectsInv == ObjectIntegrity /\ ObjectsFlushed /\ \A r \in Readers : ReaderInv(r)

IInv ==
  /\ TypeOK
  /\ \A w \in Writers : WriterInv(w)
  /\ NamesInv
  /\ ObjectsInv

-----------------------------------------------------------------------------
(***************************************************************************)
(* Frames.  A step of one writer leaves the locals of the others alone,    *)
(* and touches at most the staging file of its own digest.                 *)
(***************************************************************************)
SameLocals(v) ==
  /\ pc'[v] = pc[v] /\ kind'[v] = kind[v] /\ dig'[v] = dig[v]
  /\ source'[v] = source[v] /\ off'[v] = off[v] /\ fd'[v] = fd[v]

SameStaging(d) ==
  /\ staging'[d] = staging[d]
  /\ staging[d] # None => /\ data'[staging[d]] = data[staging[d]]
                          /\ flushed'[staging[d]] = flushed[staging[d]]

SameObject(d) ==
  object[d] # None => /\ data'[object[d]] = data[object[d]]
                      /\ flushed'[object[d]] = flushed[object[d]]

\* Two writers in mid-insert work on different digests.
LEMMA DistinctDigests ==
  ASSUME IInv, Exclusive, NEW v \in Writers, NEW w \in Writers, v # w,
         pc[v] # "idle", pc[w] # "idle"
  PROVE  dig[v] # dig[w]
BY DEF IInv, WriterInv, OperationInv, Exclusive

\* What a writer knows only depends on its locals, its staging file and the
\* absence of its object.
LEMMA WriterFrame ==
  ASSUME IInv, NEW v \in Writers, SameLocals(v),
         pc[v] # "idle" => SameStaging(dig[v]) /\ object'[dig[v]] = object[dig[v]]
  PROVE  WriterInv(v)'
<1> USE DEF IInv, SameLocals, WriterInv
<1>1. OperationInv(v)'
  BY DEF OperationInv
<1>2. DescriptorInv(v)'
  BY DEF DescriptorInv, SameStaging, Holding
<1>3. ContentInv(v)'
  BY DEF ContentInv, DescriptorInv, SameStaging, Holding, Pending, Complete
<1>4. FlushInv(v)'
  BY DEF FlushInv, ContentInv, SameStaging, Complete
<1>. QED
  BY <1>1, <1>2, <1>3, <1>4

\* A reader finds the chunk it reads to be its object's.
LEMMA ChunkRead ==
  ASSUME IInv, NEW r \in Readers, rpc[r] = "opened"
  PROVE  data[rfd[r]][roff[r]] = want[r]
<1>1. want[r] \in Digests /\ roff[r] \in Chunks
  BY DEF IInv, TypeOK, ReaderTypeOK
<1>2. data[rfd[r]] = Whole(want[r])
  BY <1>1 DEF IInv, ObjectsInv, ReaderInv, ObjectIntegrity
<1>. QED
  BY <1>1, <1>2 DEF Whole

\* Objects and readers are safe as long as the objects' files stay as they are.
LEMMA ObjectsFrame ==
  ASSUME IInv, object' = object, UNCHANGED <<rpc, want, rfd, reply>>,
         \A d \in Digests : SameObject(d)
  PROVE  ObjectsInv'
BY DEF IInv, ObjectsInv, ObjectIntegrity, ObjectsFlushed, ReaderInv, SameObject, Whole

\* A step that only changes one writer's locals.
LEMMA LocalStep ==
  ASSUME IInv, TypeOK', NEW w \in Writers, WriterInv(w)',
         \A v \in Writers : v # w => SameLocals(v),
         UNCHANGED <<data, flushed, staging, object, rpc, want, rfd, reply>>
  PROVE  IInv'
<1>1. \A d \in Digests : SameStaging(d) /\ SameObject(d)
  BY DEF SameStaging, SameObject
<1>2. \A v \in Writers : WriterInv(v)'
  BY <1>1, WriterFrame DEF IInv, TypeOK, WriterTypeOK
<1>3. NamesInv'
  BY DEF IInv, NamesInv
<1>. QED
  BY <1>1, <1>2, <1>3, ObjectsFrame DEF IInv

\* A step of a writer in mid-insert that also works on its staging file.
LEMMA StagingStep ==
  ASSUME IInv, TypeOK', Exclusive, NEW w \in Writers, WriterInv(w)', pc[w] # "idle",
         \A v \in Writers : v # w => SameLocals(v),
         UNCHANGED <<object, rpc, want, rfd, reply>>,
         \A d \in Digests : SameObject(d) /\ (d # dig[w] => SameStaging(d)),
         NamesInv'
  PROVE  IInv'
<1>1. \A v \in Writers : WriterInv(v)'
  BY WriterFrame, DistinctDigests DEF IInv, TypeOK, WriterTypeOK
<1>. QED
  BY <1>1, ObjectsFrame DEF IInv

\* Dropping a staging name leaves no inode with two names.
LEMMA UnlinkNames ==
  ASSUME TypeOK, NamesInv, NEW d \in Digests, UNCHANGED object,
         UNCHANGED staging \/ staging' = [staging EXCEPT ![d] = None]
  PROVE  NamesInv'
BY DEF NamesInv, TypeOK, FsTypeOK

\* Nor does giving a staging file its object name.
LEMMA RenameNames ==
  ASSUME TypeOK, NamesInv, NEW d \in Digests, object[d] = None, staging[d] # None,
         object' = [object EXCEPT ![d] = staging[d]],
         staging' = [staging EXCEPT ![d] = None]
  PROVE  NamesInv'
BY DEF NamesInv, TypeOK, FsTypeOK

-----------------------------------------------------------------------------
\* IInv is inductive.
LEMMA InvStep ==
  ASSUME Sound, IInv, [Next]_vars
  PROVE  IInv'
<1> USE DEF inodeVars, nameVars, opVars, readVars, envVars
<1>0. TypeOK /\ TypeOK' /\ Exclusive
  BY TypeStep DEF IInv, Sound
<1>1. ASSUME NEW w \in Writers, NEW k \in Kinds, NEW d \in Owns[w], Start(w, k, d)
      PROVE  IInv'
  <2>1. UNCHANGED <<data, flushed, staging, object, rpc, want, rfd, reply>>
    BY <1>1 DEF Start
  <2>2. \A v \in Writers : v # w => SameLocals(v)
    BY <1>0, <1>1 DEF Start, SameLocals, SameLocals, TypeOK, ControlTypeOK, WriterTypeOK
  <2>3. OperationInv(w)'
    BY <1>0, <1>1, OwnsAssumption
       DEF IInv, WriterInv, Start, SameLocals, OperationInv, TypeOK, ControlTypeOK,
           WriterTypeOK
  <2>4. DescriptorInv(w)'
    BY <1>0, <1>1
       DEF IInv, WriterInv, Start, SameLocals, DescriptorInv, Holding, TypeOK,
           ControlTypeOK, WriterTypeOK, FsTypeOK
  <2>5. ContentInv(w)'
    BY <1>0, <1>1
       DEF IInv, WriterInv, Start, SameLocals, ContentInv, DescriptorInv, OperationInv,
           Holding, Pending, Complete, Phases, TypeOK, ControlTypeOK, WriterTypeOK,
           FsTypeOK
  <2>6. FlushInv(w)'
    BY <1>0, <1>1
       DEF IInv, WriterInv, Start, SameLocals, FlushInv, DescriptorInv, OperationInv,
           Holding, Sound, TypeOK, ControlTypeOK, WriterTypeOK, FsTypeOK
  <2>. QED
    BY <1>0, <2>1, <2>2, <2>3, <2>4, <2>5, <2>6, LocalStep DEF WriterInv
<1>2. ASSUME NEW w \in Writers, Has(w) PROVE IInv'
  <2>1. UNCHANGED <<data, flushed, staging, object, rpc, want, rfd, reply>>
    BY <1>2 DEF Has
  <2>2. \A v \in Writers : v # w => SameLocals(v)
    BY <1>0, <1>2
       DEF Has, Goto, ReturnOk, ReturnErr, SameLocals, TypeOK, ControlTypeOK,
           WriterTypeOK
  <2>3. OperationInv(w)'
    BY <1>0, <1>2
       DEF IInv, WriterInv, Has, Goto, ReturnOk, ReturnErr, OperationInv, TypeOK,
           ControlTypeOK, WriterTypeOK
  <2>4. DescriptorInv(w)'
    BY <1>0, <1>2
       DEF IInv, WriterInv, Has, Goto, ReturnOk, ReturnErr, DescriptorInv, Holding,
           TypeOK, ControlTypeOK, WriterTypeOK, FsTypeOK
  <2>5. ContentInv(w)'
    BY <1>0, <1>2
       DEF IInv, WriterInv, Has, Goto, ReturnOk, ReturnErr, ContentInv, DescriptorInv,
           OperationInv, Holding, Pending, Complete, Phases, TypeOK, ControlTypeOK,
           WriterTypeOK, FsTypeOK
  <2>6. FlushInv(w)'
    <3>1. MaxPowerCuts > 0 /\ pc[w] # "idle" => kind[w] = "bytes"
      BY DEF IInv, WriterInv, OperationInv, Sound
    <3>2. \/ pc[w] = "has" /\ pc' = [pc EXCEPT ![w] = "idle"]
          \/ pc[w] = "has" /\ pc' = [pc EXCEPT ![w] = IF kind[w] = "file" THEN "remove" ELSE "open"]
      BY <1>2 DEF Has, Goto, ReturnOk
    <3>. QED
      BY <1>0, <3>1, <3>2 DEF FlushInv, TypeOK, ControlTypeOK, WriterTypeOK
  <2>. QED
    BY <1>0, <2>1, <2>2, <2>3, <2>4, <2>5, <2>6, LocalStep DEF WriterInv
<1>3. ASSUME NEW w \in Writers, WriteFails(w) PROVE IInv'
  <2>1. UNCHANGED <<data, flushed, staging, object, rpc, want, rfd, reply>>
    BY <1>3 DEF WriteFails
  <2>2. \A v \in Writers : v # w => SameLocals(v)
    BY <1>0, <1>3
       DEF WriteFails, Goto, ReturnOk, ReturnErr, Close, SameLocals, TypeOK,
           ControlTypeOK, WriterTypeOK
  <2>3. OperationInv(w)'
    BY <1>0, <1>3
       DEF IInv, WriterInv, WriteFails, Goto, ReturnOk, ReturnErr, Close, OperationInv,
           TypeOK, ControlTypeOK, WriterTypeOK
  <2>4. DescriptorInv(w)'
    BY <1>0, <1>3
       DEF IInv, WriterInv, WriteFails, Goto, ReturnOk, ReturnErr, Close, DescriptorInv,
           Holding, TypeOK, ControlTypeOK, WriterTypeOK, FsTypeOK
  <2>5. ContentInv(w)'
    BY <1>0, <1>3
       DEF IInv, WriterInv, WriteFails, Goto, ReturnOk, ReturnErr, Close, ContentInv,
           DescriptorInv, OperationInv, Holding, Pending, Complete, Phases, TypeOK,
           ControlTypeOK, WriterTypeOK, FsTypeOK
  <2>6. FlushInv(w)'
    BY <1>0, <1>3
       DEF IInv, WriterInv, WriteFails, Goto, ReturnOk, ReturnErr, Close, FlushInv,
           DescriptorInv, OperationInv, Holding, Sound, TypeOK, ControlTypeOK,
           WriterTypeOK, FsTypeOK
  <2>. QED
    BY <1>0, <2>1, <2>2, <2>3, <2>4, <2>5, <2>6, LocalStep DEF WriterInv
<1>4. ASSUME NEW w \in Writers, WriteDone(w) PROVE IInv'
  <2>1. UNCHANGED <<data, flushed, staging, object, rpc, want, rfd, reply>>
    BY <1>4 DEF WriteDone
  <2>2. \A v \in Writers : v # w => SameLocals(v)
    BY <1>0, <1>4
       DEF WriteDone, Goto, Close, Whole, Chunks, SameLocals, TypeOK, ControlTypeOK,
           WriterTypeOK
  <2>3. OperationInv(w)'
    BY <1>0, <1>4
       DEF IInv, WriterInv, WriteDone, Goto, Close, Whole, Chunks, OperationInv, TypeOK,
           ControlTypeOK, WriterTypeOK
  <2>4. DescriptorInv(w)'
    BY <1>0, <1>4
       DEF IInv, WriterInv, WriteDone, Goto, Close, Whole, Chunks, DescriptorInv,
           Holding, TypeOK, ControlTypeOK, WriterTypeOK, FsTypeOK
  <2>5. ContentInv(w)'
    <3>1. /\ pc[w] \in {"write", "copy"} /\ off[w] = NChunks + 1
          /\ pc' = [pc EXCEPT ![w] = pc'[w]] /\ pc'[w] \in {"fsync", "seal"}
          /\ dig' = dig
      BY <1>0, <1>4 DEF WriteDone, Goto, TypeOK, ControlTypeOK, WriterTypeOK
    <3>2. /\ object[dig[w]] = None
          /\ fd[w] \in Inodes /\ staging[dig[w]] = fd[w]
          /\ \A c \in Chunks : c < off[w] => data[fd[w]][c] = dig[w]
      BY <1>0, <3>1
         DEF IInv, WriterInv, ContentInv, DescriptorInv, Holding, Pending, Phases, TypeOK, ControlTypeOK, WriterTypeOK
    <3>3. \A c \in Chunks : data[fd[w]][c] = dig[w]
      BY <3>1, <3>2, NumberAssumption DEF Chunks
    <3>4. data[fd[w]] = Whole(dig[w])
      BY <1>0, <3>2, <3>3 DEF Whole, TypeOK, FsTypeOK
    <3>. QED
      BY <1>0, <2>1, <3>1, <3>2, <3>4, DomainAssumption
         DEF ContentInv, Complete, Whole, TypeOK, ControlTypeOK, WriterTypeOK
  <2>6. FlushInv(w)'
    BY <1>0, <1>4
       DEF IInv, WriterInv, WriteDone, Goto, Close, Whole, Chunks, FlushInv,
           DescriptorInv, OperationInv, Holding, Sound, TypeOK, ControlTypeOK,
           WriterTypeOK, FsTypeOK
  <2>. QED
    BY <1>0, <2>1, <2>2, <2>3, <2>4, <2>5, <2>6, LocalStep DEF WriterInv
<1>5. ASSUME NEW w \in Writers, Seal(w) PROVE IInv'
  <2>1. UNCHANGED <<data, flushed, staging, object, rpc, want, rfd, reply>>
    BY <1>5 DEF Seal
  <2>2. \A v \in Writers : v # w => SameLocals(v)
    BY <1>0, <1>5
       DEF Seal, Goto, ReturnOk, ReturnErr, SameLocals, TypeOK, ControlTypeOK,
           WriterTypeOK
  <2>3. OperationInv(w)'
    BY <1>0, <1>5
       DEF IInv, WriterInv, Seal, Goto, ReturnOk, ReturnErr, OperationInv, TypeOK,
           ControlTypeOK, WriterTypeOK
  <2>4. DescriptorInv(w)'
    BY <1>0, <1>5
       DEF IInv, WriterInv, Seal, Goto, ReturnOk, ReturnErr, DescriptorInv, Holding,
           TypeOK, ControlTypeOK, WriterTypeOK, FsTypeOK
  <2>5. ContentInv(w)'
    BY <1>0, <1>5
       DEF IInv, WriterInv, Seal, Goto, ReturnOk, ReturnErr, ContentInv, DescriptorInv,
           OperationInv, Holding, Pending, Complete, Phases, TypeOK, ControlTypeOK,
           WriterTypeOK, FsTypeOK
  <2>6. FlushInv(w)'
    BY <1>0, <1>5
       DEF IInv, WriterInv, Seal, Goto, ReturnOk, ReturnErr, FlushInv, DescriptorInv,
           OperationInv, Holding, Sound, TypeOK, ControlTypeOK, WriterTypeOK, FsTypeOK
  <2>. QED
    BY <1>0, <2>1, <2>2, <2>3, <2>4, <2>5, <2>6, LocalStep DEF WriterInv
<1>6. ASSUME NEW w \in Writers, DirSync(w) PROVE IInv'
  <2>1. UNCHANGED <<data, flushed, staging, object, rpc, want, rfd, reply>>
    BY <1>6 DEF DirSync
  <2>2. \A v \in Writers : v # w => SameLocals(v)
    BY <1>0, <1>6 DEF DirSync, ReturnOk, SameLocals, TypeOK, ControlTypeOK, WriterTypeOK
  <2>3. OperationInv(w)'
    BY <1>0, <1>6
       DEF IInv, WriterInv, DirSync, ReturnOk, OperationInv, TypeOK, ControlTypeOK,
           WriterTypeOK
  <2>4. DescriptorInv(w)'
    BY <1>0, <1>6
       DEF IInv, WriterInv, DirSync, ReturnOk, DescriptorInv, Holding, TypeOK,
           ControlTypeOK, WriterTypeOK, FsTypeOK
  <2>5. ContentInv(w)'
    BY <1>0, <1>6
       DEF IInv, WriterInv, DirSync, ReturnOk, ContentInv, DescriptorInv, OperationInv,
           Holding, Pending, Complete, Phases, TypeOK, ControlTypeOK, WriterTypeOK,
           FsTypeOK
  <2>6. FlushInv(w)'
    BY <1>0, <1>6
       DEF IInv, WriterInv, DirSync, ReturnOk, FlushInv, DescriptorInv, OperationInv,
           Holding, Sound, TypeOK, ControlTypeOK, WriterTypeOK, FsTypeOK
  <2>. QED
    BY <1>0, <2>1, <2>2, <2>3, <2>4, <2>5, <2>6, LocalStep DEF WriterInv
<1>7. ASSUME NEW w \in Writers, Kill(w) PROVE IInv'
  <2>1. UNCHANGED <<data, flushed, staging, object, rpc, want, rfd, reply>>
    BY <1>7 DEF Kill
  <2>2. \A v \in Writers : v # w => SameLocals(v)
    BY <1>0, <1>7 DEF Kill, Close, SameLocals, TypeOK, ControlTypeOK, WriterTypeOK
  <2>3. OperationInv(w)'
    BY <1>0, <1>7
       DEF IInv, WriterInv, Kill, Close, OperationInv, TypeOK, ControlTypeOK,
           WriterTypeOK
  <2>4. DescriptorInv(w)'
    BY <1>0, <1>7
       DEF IInv, WriterInv, Kill, Close, DescriptorInv, Holding, TypeOK, ControlTypeOK,
           WriterTypeOK, FsTypeOK
  <2>5. ContentInv(w)'
    BY <1>0, <1>7
       DEF IInv, WriterInv, Kill, Close, ContentInv, DescriptorInv, OperationInv,
           Holding, Pending, Complete, Phases, TypeOK, ControlTypeOK, WriterTypeOK,
           FsTypeOK
  <2>6. FlushInv(w)'
    BY <1>0, <1>7
       DEF IInv, WriterInv, Kill, Close, FlushInv, DescriptorInv, OperationInv, Holding,
           Sound, TypeOK, ControlTypeOK, WriterTypeOK, FsTypeOK
  <2>. QED
    BY <1>0, <2>1, <2>2, <2>3, <2>4, <2>5, <2>6, LocalStep DEF WriterInv
<1>8. ASSUME NEW w \in Writers, RemoveStaged(w) PROVE IInv'
  <2>1. pc[w] # "idle" /\ UNCHANGED <<object, rpc, want, rfd, reply>>
    BY <1>8 DEF RemoveStaged, Goto, Unlink
  <2>2. \A v \in Writers : v # w => SameLocals(v)
    BY <1>0, <1>8
       DEF RemoveStaged, Goto, Unlink, SameLocals, TypeOK, ControlTypeOK, WriterTypeOK
  <2>7. \A d \in Digests : SameObject(d) /\ (d # dig[w] => SameStaging(d))
    BY <1>0, <1>8
       DEF IInv, RemoveStaged, Goto, Unlink, NamesInv, WriterInv, DescriptorInv,
           Holding, SameObject, SameStaging, TypeOK, ControlTypeOK, WriterTypeOK,
           FsTypeOK
  <2>9. UNCHANGED object /\ (UNCHANGED staging \/ staging' = [staging EXCEPT ![dig[w]] = None])
    BY <1>8 DEF RemoveStaged, Unlink
  <2>8. NamesInv'
    BY <1>0, <2>9, UnlinkNames DEF IInv, TypeOK, WriterTypeOK
  <2>3. OperationInv(w)'
    BY <1>0, <1>8
       DEF IInv, WriterInv, RemoveStaged, Goto, Unlink, OperationInv, TypeOK,
           ControlTypeOK, WriterTypeOK
  <2>4. DescriptorInv(w)'
    BY <1>0, <1>8
       DEF IInv, WriterInv, RemoveStaged, Goto, Unlink, DescriptorInv, Holding, TypeOK,
           ControlTypeOK, WriterTypeOK, FsTypeOK
  <2>5. ContentInv(w)'
    BY <1>0, <1>8
       DEF IInv, WriterInv, RemoveStaged, Goto, Unlink, ContentInv, DescriptorInv,
           OperationInv, Holding, Pending, Complete, Phases, TypeOK, ControlTypeOK,
           WriterTypeOK, FsTypeOK
  <2>6. FlushInv(w)'
    BY <1>0, <1>8
       DEF IInv, WriterInv, RemoveStaged, Goto, Unlink, FlushInv, DescriptorInv,
           OperationInv, Holding, Sound, TypeOK, ControlTypeOK, WriterTypeOK, FsTypeOK
  <2>. QED
    BY <1>0, <2>1, <2>2, <2>3, <2>4, <2>5, <2>6, <2>7, <2>8, StagingStep DEF WriterInv
<1>9. ASSUME NEW w \in Writers, Fallback(w) PROVE IInv'
  <2>0. /\ UNCHANGED <<data, flushed, object, fd, off, dig, kind, source>>
        /\ UNCHANGED staging \/ staging' = [staging EXCEPT ![dig[w]] = None]
        /\ pc[w] = "fallback"
        /\ pc' = [pc EXCEPT ![w] = "open"] \/ pc' = [pc EXCEPT ![w] = "idle"]
    BY <1>9 DEF Fallback, Goto, ReturnErr, Unlink
  <2>1. pc[w] # "idle" /\ UNCHANGED <<object, rpc, want, rfd, reply>>
    BY <1>9, <2>0 DEF Fallback
  <2>2. \A v \in Writers : v # w => SameLocals(v)
    BY <1>0, <2>0 DEF SameLocals, TypeOK, ControlTypeOK, WriterTypeOK
  <2>7. \A d \in Digests : SameObject(d) /\ (d # dig[w] => SameStaging(d))
    BY <1>0, <2>0 DEF SameObject, SameStaging, TypeOK, WriterTypeOK, FsTypeOK
  <2>8. NamesInv'
    BY <1>0, <2>0, UnlinkNames DEF IInv, TypeOK, WriterTypeOK
  <2>3. OperationInv(w)'
    BY <1>0, <2>0
       DEF IInv, WriterInv, OperationInv, TypeOK, ControlTypeOK, WriterTypeOK
  <2>4. DescriptorInv(w)'
    BY <1>0, <2>0
       DEF IInv, WriterInv, DescriptorInv, Holding, TypeOK, ControlTypeOK
  <2>5. ContentInv(w)'
    BY <1>0, <2>0
       DEF IInv, WriterInv, ContentInv, Pending, Complete, Phases, TypeOK,
           ControlTypeOK
  <2>6. FlushInv(w)'
    BY <1>0, <2>0 DEF IInv, WriterInv, FlushInv, TypeOK, ControlTypeOK
  <2>. QED
    BY <1>0, <2>1, <2>2, <2>3, <2>4, <2>5, <2>6, <2>7, <2>8, StagingStep DEF WriterInv
<1>10. ASSUME NEW w \in Writers, CloneIoctl(w) PROVE IInv'
  <2>1. pc[w] # "idle" /\ UNCHANGED <<object, rpc, want, rfd, reply>>
    BY <1>10 DEF CloneIoctl, Goto, Unlink, Close
  <2>2. \A v \in Writers : v # w => SameLocals(v)
    BY <1>0, <1>10
       DEF CloneIoctl, Goto, Unlink, Close, SameLocals, TypeOK, ControlTypeOK,
           WriterTypeOK
  <2>7. \A d \in Digests : SameObject(d) /\ (d # dig[w] => SameStaging(d))
    BY <1>0, <1>10
       DEF IInv, CloneIoctl, Goto, Unlink, Close, NamesInv, WriterInv, DescriptorInv,
           Holding, SameObject, SameStaging, TypeOK, ControlTypeOK, WriterTypeOK,
           FsTypeOK
  <2>8. NamesInv'
    <3>1. staging' = staging \/ staging' = [staging EXCEPT ![dig[w]] = None]
      BY <1>10 DEF CloneIoctl, Unlink
    <3>. QED
      BY <1>0, <2>1, <3>1 DEF IInv, NamesInv, TypeOK, ControlTypeOK, WriterTypeOK, FsTypeOK
  <2>3. OperationInv(w)'
    BY <1>0, <1>10
       DEF IInv, WriterInv, CloneIoctl, Goto, Unlink, Close, OperationInv, TypeOK,
           ControlTypeOK, WriterTypeOK
  <2>4. DescriptorInv(w)'
    BY <1>0, <1>10
       DEF IInv, WriterInv, CloneIoctl, Goto, Unlink, Close, DescriptorInv, Holding,
           TypeOK, ControlTypeOK, WriterTypeOK, FsTypeOK
  <2>5. ContentInv(w)'
    <3>1. /\ pc[w] = "ioctl"
          /\ pc' = [pc EXCEPT ![w] = pc'[w]] /\ pc'[w] \in {"seal", "copyopen", "fallback"}
          /\ dig' = dig
      BY <1>0, <1>10 DEF CloneIoctl, Goto, TypeOK, ControlTypeOK, WriterTypeOK
    <3>2. /\ object[dig[w]] = None
          /\ fd[w] \in Inodes /\ staging[dig[w]] = fd[w]
          /\ source[w] = dig[w]
      BY <1>0, <3>1
         DEF IInv, WriterInv, OperationInv, ContentInv, DescriptorInv, Holding, Pending,
             Phases, TypeOK, ControlTypeOK, WriterTypeOK
    <3>3. pc'[w] = "seal" => /\ staging' = staging
                            /\ data' = [data EXCEPT ![fd[w]] = Whole(source[w])]
      BY <1>0, <1>10 DEF CloneIoctl, Goto, TypeOK, ControlTypeOK, WriterTypeOK
    <3>. QED
      BY <1>0, <2>1, <3>1, <3>2, <3>3, DomainAssumption
         DEF ContentInv, Complete, Whole, TypeOK, ControlTypeOK, WriterTypeOK, FsTypeOK
  <2>6. FlushInv(w)'
    BY <1>0, <1>10
       DEF IInv, WriterInv, CloneIoctl, Goto, Unlink, Close, FlushInv, DescriptorInv,
           OperationInv, Holding, Sound, TypeOK, ControlTypeOK, WriterTypeOK, FsTypeOK
  <2>. QED
    BY <1>0, <2>1, <2>2, <2>3, <2>4, <2>5, <2>6, <2>7, <2>8, StagingStep DEF WriterInv
<1>11. ASSUME NEW w \in Writers, WriteChunk(w) PROVE IInv'
  <2>1. pc[w] # "idle" /\ UNCHANGED <<object, rpc, want, rfd, reply>>
    BY <1>11 DEF WriteChunk, Chunks
  <2>2. \A v \in Writers : v # w => SameLocals(v)
    BY <1>0, <1>11 DEF WriteChunk, Chunks, SameLocals, TypeOK, ControlTypeOK, WriterTypeOK
  <2>7. \A d \in Digests : SameObject(d) /\ (d # dig[w] => SameStaging(d))
    <3>1. /\ staging' = staging
          /\ fd[w] \in Inodes /\ staging[dig[w]] = fd[w]
      BY <1>0, <1>11 DEF IInv, WriteChunk, WriterInv, DescriptorInv, Holding, TypeOK, ControlTypeOK, WriterTypeOK
    <3>2. \A i \in Inodes : i # fd[w] => data'[i] = data[i] /\ flushed'[i] = flushed[i]
      BY <1>0, <1>11 DEF WriteChunk, TypeOK, FsTypeOK
    <3>. QED
      BY <1>0, <3>1, <3>2 DEF IInv, NamesInv, SameObject, SameStaging, TypeOK, ControlTypeOK, WriterTypeOK, FsTypeOK
  <2>8. NamesInv'
    BY <1>0, <1>11
       DEF IInv, WriteChunk, Chunks, NamesInv, TypeOK, ControlTypeOK, WriterTypeOK,
           FsTypeOK
  <2>3. OperationInv(w)'
    BY <1>0, <1>11
       DEF IInv, WriterInv, WriteChunk, Chunks, OperationInv, TypeOK, ControlTypeOK,
           WriterTypeOK
  <2>4. DescriptorInv(w)'
    BY <1>0, <1>11
       DEF IInv, WriterInv, WriteChunk, Chunks, DescriptorInv, Holding, TypeOK,
           ControlTypeOK, WriterTypeOK, FsTypeOK
  <2>5. ContentInv(w)'
    <3>1. /\ pc[w] \in {"write", "copy"} /\ pc' = pc /\ dig' = dig /\ fd' = fd
          /\ off[w] \in Chunks /\ off'[w] = off[w] + 1
      BY <1>0, <1>11 DEF WriteChunk, TypeOK, ControlTypeOK, WriterTypeOK
    <3>2. /\ object[dig[w]] = None
          /\ fd[w] \in Inodes
          /\ \A c \in Chunks : c < off[w] => data[fd[w]][c] = dig[w]
          /\ source[w] = dig[w]
      BY <1>0, <3>1
         DEF IInv, WriterInv, OperationInv, ContentInv, DescriptorInv, Holding, Pending,
             Phases, TypeOK, ControlTypeOK, WriterTypeOK
    <3>3. data'[fd[w]] = [data[fd[w]] EXCEPT ![off[w]] = dig[w]]
      BY <1>0, <1>11, <3>2 DEF WriteChunk, TypeOK, FsTypeOK
    <3>4. ASSUME NEW c \in Chunks, c < off'[w] PROVE data'[fd[w]][c] = dig[w]
      <4>1. data[fd[w]] \in [Chunks -> Digests \cup {Hole}]
        BY <1>0, <3>2 DEF TypeOK, FsTypeOK
      <4>2. c < off[w] \/ c = off[w]
        BY <3>1, <3>4, NumberAssumption DEF Chunks
      <4>. QED
        BY <3>2, <3>3, <4>1, <4>2
    <3>. QED
      BY <2>1, <3>1, <3>2, <3>4 DEF ContentInv, Complete
  <2>6. FlushInv(w)'
    BY <1>0, <1>11
       DEF IInv, WriterInv, WriteChunk, Chunks, FlushInv, DescriptorInv, OperationInv,
           Holding, Sound, TypeOK, ControlTypeOK, WriterTypeOK, FsTypeOK
  <2>. QED
    BY <1>0, <2>1, <2>2, <2>3, <2>4, <2>5, <2>6, <2>7, <2>8, StagingStep DEF WriterInv
<1>12. ASSUME NEW w \in Writers, Fsync(w) PROVE IInv'
  <2>1. pc[w] # "idle" /\ UNCHANGED <<object, rpc, want, rfd, reply>>
    BY <1>12 DEF Fsync, Goto, Close
  <2>2. \A v \in Writers : v # w => SameLocals(v)
    BY <1>0, <1>12 DEF Fsync, Goto, Close, SameLocals, TypeOK, ControlTypeOK, WriterTypeOK
  <2>7. \A d \in Digests : SameObject(d) /\ (d # dig[w] => SameStaging(d))
    <3>1. /\ staging' = staging /\ data' = data
          /\ fd[w] \in Inodes /\ staging[dig[w]] = fd[w]
      BY <1>0, <1>12 DEF IInv, Fsync, Goto, WriterInv, DescriptorInv, Holding, TypeOK, ControlTypeOK, WriterTypeOK
    <3>2. \A i \in Inodes : i # fd[w] => flushed'[i] = flushed[i]
      BY <1>0, <1>12 DEF Fsync, TypeOK, FsTypeOK
    <3>. QED
      BY <1>0, <3>1, <3>2 DEF IInv, NamesInv, SameObject, SameStaging, TypeOK, ControlTypeOK, WriterTypeOK, FsTypeOK
  <2>8. NamesInv'
    BY <1>0, <1>12
       DEF IInv, Fsync, Goto, Close, NamesInv, TypeOK, ControlTypeOK, WriterTypeOK,
           FsTypeOK
  <2>3. OperationInv(w)'
    BY <1>0, <1>12
       DEF IInv, WriterInv, Fsync, Goto, Close, OperationInv, TypeOK, ControlTypeOK,
           WriterTypeOK
  <2>4. DescriptorInv(w)'
    BY <1>0, <1>12
       DEF IInv, WriterInv, Fsync, Goto, Close, DescriptorInv, Holding, TypeOK,
           ControlTypeOK, WriterTypeOK, FsTypeOK
  <2>5. ContentInv(w)'
    BY <1>0, <1>12
       DEF IInv, WriterInv, Fsync, Goto, Close, ContentInv, DescriptorInv, OperationInv,
           Holding, Pending, Complete, Phases, TypeOK, ControlTypeOK, WriterTypeOK,
           FsTypeOK
  <2>6. FlushInv(w)'
    BY <1>0, <1>12
       DEF IInv, WriterInv, Fsync, Goto, Close, FlushInv, DescriptorInv, OperationInv,
           Holding, Sound, TypeOK, ControlTypeOK, WriterTypeOK, FsTypeOK
  <2>. QED
    BY <1>0, <2>1, <2>2, <2>3, <2>4, <2>5, <2>6, <2>7, <2>8, StagingStep DEF WriterInv
<1>13. ASSUME NEW w \in Writers, CloneCreate(w) PROVE IInv'
  <2>1. CASE Goto(w, "clone", "fallback") /\ UNCHANGED <<inodeVars, staging, fd>>
    <3>1. UNCHANGED <<data, flushed, staging, object, fd, off, dig, kind, source, rpc, want, rfd, reply>>
      BY <1>13, <2>1 DEF CloneCreate
    <3>2. pc[w] = "clone" /\ pc' = [pc EXCEPT ![w] = "fallback"]
      BY <2>1 DEF Goto
    <3>3. \A v \in Writers : v # w => SameLocals(v)
      BY <1>0, <3>1, <3>2 DEF SameLocals, TypeOK, ControlTypeOK, WriterTypeOK
    <3>4. WriterInv(w)'
      BY <1>0, <3>1, <3>2
         DEF IInv, WriterInv, OperationInv, DescriptorInv, ContentInv, FlushInv,
             Holding, Pending, Complete, Phases, TypeOK, ControlTypeOK, WriterTypeOK
    <3>. QED
      BY <1>0, <3>1, <3>3, <3>4, LocalStep
  <2>2. CASE ~(Goto(w, "clone", "fallback") /\ UNCHANGED <<inodeVars, staging, fd>>)
    <3>1. PICK i \in Inodes :
            /\ Free(i)
            /\ staging' = [staging EXCEPT ![dig[w]] = i]
            /\ fd' = [fd EXCEPT ![w] = i]
            /\ data' = [data EXCEPT ![i] = Empty]
            /\ flushed' = [flushed EXCEPT ![i] = FALSE]
      BY <1>13, <2>2 DEF CloneCreate
    <3>2. UNCHANGED <<object, off, dig, kind, source, rpc, want, rfd, reply>>
      BY <1>13 DEF CloneCreate
    <3>3. pc[w] = "clone" /\ pc' = [pc EXCEPT ![w] = "ioctl"]
      BY <1>13, <2>2 DEF CloneCreate, Goto
    <3>4. \A v \in Writers : v # w => SameLocals(v)
      BY <1>0, <3>1, <3>2, <3>3 DEF SameLocals, TypeOK, ControlTypeOK, WriterTypeOK
    <3>5. \A d \in Digests : i # object[d] /\ (d # dig[w] => i # staging[d])
      BY <1>0, <3>1, DomainAssumption
         DEF IInv, NamesInv, Free, Named, TypeOK, ControlTypeOK, WriterTypeOK,
             FsTypeOK
    <3>6. \A d \in Digests : SameObject(d) /\ (d # dig[w] => SameStaging(d))
      BY <1>0, <3>1, <3>2, <3>5
         DEF SameObject, SameStaging, TypeOK, ControlTypeOK, WriterTypeOK, FsTypeOK
    <3>7. NamesInv'
      BY <1>0, <3>1, <3>2, <3>5
         DEF IInv, NamesInv, TypeOK, ControlTypeOK, WriterTypeOK, FsTypeOK
    <3>8. WriterInv(w)'
      <4>1. staging'[dig[w]] = i /\ fd'[w] = i /\ i # None
        BY <1>0, <3>1, DomainAssumption DEF TypeOK, ControlTypeOK, WriterTypeOK, FsTypeOK
      <4>2. OperationInv(w)'
        BY <1>0, <3>2, <3>3 DEF IInv, WriterInv, OperationInv, TypeOK, ControlTypeOK, WriterTypeOK
      <4>3. DescriptorInv(w)'
        BY <1>0, <3>2, <3>3, <4>1 DEF DescriptorInv, Holding, TypeOK, ControlTypeOK, WriterTypeOK
      <4>4. off[w] = 1
        BY <3>3 DEF IInv, WriterInv, DescriptorInv, Holding
      <4>5. object[dig[w]] = None
        BY <3>3 DEF IInv, WriterInv, ContentInv, Pending, Phases
      <4>6. ContentInv(w)'
        BY <1>0, <3>2, <3>3, <4>4, <4>5 DEF ContentInv, Complete, Chunks, TypeOK, ControlTypeOK, WriterTypeOK
      <4>7. FlushInv(w)'
        BY <1>0, <3>3 DEF IInv, WriterInv, FlushInv, TypeOK, ControlTypeOK, WriterTypeOK
      <4>. QED
        BY <4>2, <4>3, <4>6, <4>7 DEF WriterInv
    <3>. QED
      BY <1>0, <3>2, <3>3, <3>4, <3>6, <3>7, <3>8, StagingStep
  <2>. QED
    BY <2>1, <2>2
<1>14. ASSUME NEW w \in Writers, OpenStaged(w) PROVE IInv'
  <2>1. CASE /\ ReturnErr(w, "open") \/ Goto(w, "copyopen", "fallback")
             /\ UNCHANGED <<inodeVars, staging, fd>>
    <3>1. UNCHANGED <<data, flushed, staging, object, fd, off, dig, kind, source, rpc, want, rfd, reply>>
      BY <1>14, <2>1 DEF OpenStaged
    <3>2. /\ pc[w] \in {"open", "copyopen"}
          /\ pc' = [pc EXCEPT ![w] = IF pc[w] = "open" THEN "idle" ELSE "fallback"]
      BY <2>1 DEF Goto, ReturnErr
    <3>3. \A v \in Writers : v # w => SameLocals(v)
      BY <1>0, <3>1, <3>2 DEF SameLocals, TypeOK, ControlTypeOK, WriterTypeOK
    <3>4. WriterInv(w)'
      BY <1>0, <3>1, <3>2
         DEF IInv, WriterInv, OperationInv, DescriptorInv, ContentInv, FlushInv,
             Holding, Pending, Complete, Phases, TypeOK, ControlTypeOK, WriterTypeOK
    <3>. QED
      BY <1>0, <3>1, <3>3, <3>4, LocalStep
  <2>2. CASE /\ Goto(w, "open", "write") \/ Goto(w, "copyopen", "copy")
             /\ OpenTruncate(w)
    <3>1. PICK i \in Inodes :
            /\ staging[dig[w]] = i \/ Free(i)
            /\ staging' = [staging EXCEPT ![dig[w]] = i]
            /\ fd' = [fd EXCEPT ![w] = i]
            /\ data' = [data EXCEPT ![i] = Empty]
            /\ flushed' = [flushed EXCEPT ![i] = FALSE]
      BY <2>2 DEF OpenTruncate
    <3>2. UNCHANGED <<object, off, dig, kind, source, rpc, want, rfd, reply>>
      BY <1>14 DEF OpenStaged
    <3>3. /\ pc[w] \in {"open", "copyopen"}
          /\ pc' = [pc EXCEPT ![w] = IF pc[w] = "open" THEN "write" ELSE "copy"]
      BY <2>2 DEF Goto
    <3>4. \A v \in Writers : v # w => SameLocals(v)
      BY <1>0, <3>1, <3>2, <3>3 DEF SameLocals, TypeOK, ControlTypeOK, WriterTypeOK
    <3>5. \A d \in Digests : i # object[d] /\ (d # dig[w] => i # staging[d])
      BY <1>0, <3>1, DomainAssumption
         DEF IInv, NamesInv, Free, Named, TypeOK, ControlTypeOK, WriterTypeOK,
             FsTypeOK
    <3>6. \A d \in Digests : SameObject(d) /\ (d # dig[w] => SameStaging(d))
      BY <1>0, <3>1, <3>2, <3>5
         DEF SameObject, SameStaging, TypeOK, ControlTypeOK, WriterTypeOK, FsTypeOK
    <3>7. NamesInv'
      BY <1>0, <3>1, <3>2, <3>5
         DEF IInv, NamesInv, TypeOK, ControlTypeOK, WriterTypeOK, FsTypeOK
    <3>8. WriterInv(w)'
      <4>1. staging'[dig[w]] = i /\ fd'[w] = i /\ i # None
        BY <1>0, <3>1, DomainAssumption DEF TypeOK, ControlTypeOK, WriterTypeOK, FsTypeOK
      <4>2. OperationInv(w)'
        BY <1>0, <3>2, <3>3 DEF IInv, WriterInv, OperationInv, TypeOK, ControlTypeOK, WriterTypeOK
      <4>3. DescriptorInv(w)'
        BY <1>0, <3>2, <3>3, <4>1 DEF DescriptorInv, Holding, TypeOK, ControlTypeOK, WriterTypeOK
      <4>4. off[w] = 1
        BY <3>3 DEF IInv, WriterInv, DescriptorInv, Holding
      <4>5. object[dig[w]] = None
        BY <3>3 DEF IInv, WriterInv, ContentInv, Pending, Phases
      <4>6. ContentInv(w)'
        BY <1>0, <3>2, <3>3, <4>4, <4>5 DEF ContentInv, Complete, Chunks, TypeOK, ControlTypeOK, WriterTypeOK
      <4>7. FlushInv(w)'
        BY <1>0, <3>3 DEF IInv, WriterInv, FlushInv, TypeOK, ControlTypeOK, WriterTypeOK
      <4>. QED
        BY <4>2, <4>3, <4>6, <4>7 DEF WriterInv
    <3>. QED
      BY <1>0, <3>2, <3>3, <3>4, <3>6, <3>7, <3>8, StagingStep
  <2>. QED
    BY <1>14, <2>1, <2>2 DEF OpenStaged
<1>15. ASSUME NEW w \in Writers, Rename(w) PROVE IInv'
  <2>1. /\ pc[w] = "rename"
        /\ pc' = [pc EXCEPT ![w] = pc'[w]] /\ pc'[w] \in {"dirsync", "idle"}
        /\ UNCHANGED staging \/ staging' = [staging EXCEPT ![dig[w]] = None]
        /\ UNCHANGED <<data, flushed, fd, off, dig, kind, source, rpc, want, rfd, reply>>
    BY <1>0, <1>15
       DEF Rename, Goto, ReturnOk, ReturnErr, Unlink, TypeOK, ControlTypeOK,
           WriterTypeOK, FsTypeOK
  <2>2. /\ object[dig[w]] = None
        /\ staging[dig[w]] # None
        /\ data[staging[dig[w]]] = Whole(dig[w])
        /\ MaxPowerCuts > 0 => flushed[staging[dig[w]]]
    BY <1>0, <2>1
       DEF IInv, WriterInv, OperationInv, DescriptorInv, ContentInv, FlushInv, Holding,
           Pending, Complete, Phases
  <2>3. \/ /\ object' = object
           /\ pc'[w] = "idle"
        \/ /\ object' = [object EXCEPT ![dig[w]] = staging[dig[w]]]
           /\ staging' = [staging EXCEPT ![dig[w]] = None]
    BY <1>0, <1>15 DEF Rename, ReturnErr, Unlink, TypeOK, ControlTypeOK
  <2>4. ASSUME NEW v \in Writers PROVE WriterInv(v)'
    <3>1. CASE v = w
      BY <1>0, <2>1, <3>1
         DEF IInv, WriterInv, OperationInv, DescriptorInv, ContentInv, FlushInv,
             Holding, Pending, Complete, Phases, TypeOK, ControlTypeOK, WriterTypeOK,
             FsTypeOK
    <3>2. CASE v # w
      <4>1. SameLocals(v)
        BY <1>0, <2>1, <3>2 DEF SameLocals, TypeOK, ControlTypeOK, WriterTypeOK
      <4>2. pc[v] # "idle" => SameStaging(dig[v]) /\ object'[dig[v]] = object[dig[v]]
        BY <1>0, <2>1, <2>3, <3>2, DistinctDigests
           DEF SameStaging, TypeOK, ControlTypeOK, WriterTypeOK, FsTypeOK
      <4>. QED
        BY <4>1, <4>2, WriterFrame
    <3>. QED
      BY <3>1, <3>2
  <2>5. NamesInv'
    BY <1>0, <2>1, <2>2, <2>3, UnlinkNames, RenameNames DEF IInv, TypeOK, WriterTypeOK
  <2>6. ObjectIntegrity' /\ ObjectsFlushed'
    <3>1. ASSUME NEW d \in Digests, object'[d] # None
          PROVE  /\ data'[object'[d]] = Whole(d)
                 /\ MaxPowerCuts > 0 => flushed'[object'[d]]
      <4>1. CASE object'[d] = object[d]
        BY <2>1, <3>1, <4>1 DEF IInv, ObjectsInv, ObjectIntegrity, ObjectsFlushed
      <4>2. CASE object'[d] # object[d]
        <5>1. d = dig[w] /\ object'[d] = staging[d]
          BY <1>0, <2>3, <4>2 DEF TypeOK, ControlTypeOK, WriterTypeOK, FsTypeOK
        <5>. QED
          BY <2>1, <2>2, <5>1
      <4>. QED
        BY <4>1, <4>2
    <3>. QED
      BY <3>1 DEF ObjectIntegrity, ObjectsFlushed, Whole
  <2>7. \A r \in Readers : ReaderInv(r)'
    BY <1>0, <2>1, <2>2, <2>3
       DEF IInv, ObjectsInv, ReaderInv, ReaderTypeOK, TypeOK, ControlTypeOK,
           WriterTypeOK, FsTypeOK
  <2>. QED
    BY <1>0, <2>4, <2>5, <2>6, <2>7 DEF IInv, ObjectsInv
<1>16. ASSUME NEW w \in Writers, NEW d \in Digests, Edit(w, d) PROVE IInv'
  BY <1>16 DEF Edit, Sound
<1>17. ASSUME NEW r \in Readers, (\E d \in Digests : ReadOpen(r, d)) \/ ReadData(r) PROVE IInv'
  <2>1. UNCHANGED <<data, flushed, staging, object, pc, fd, off, dig, kind, source>>
    BY <1>17 DEF ReadOpen, ReadData
  <2>2. \A v \in Writers : WriterInv(v)'
    BY <2>1, WriterFrame DEF SameLocals, SameStaging
  <2>3. NamesInv' /\ ObjectIntegrity' /\ ObjectsFlushed'
    BY <2>1 DEF IInv, NamesInv, ObjectsInv, ObjectIntegrity, ObjectsFlushed, Whole
  <2>4. ASSUME NEW s \in Readers PROVE ReaderInv(s)'
    <3>1. CASE \E d \in Digests : ReadOpen(r, d)
      BY <1>0, <2>1, <3>1 DEF IInv, ObjectsInv, ReadOpen, ReaderInv, ReaderTypeOK, TypeOK
    <3>2. CASE ReadData(r)
      <4>1. /\ UNCHANGED want /\ rpc[r] = "opened"
            /\ \A q \in Readers : q # r => rpc'[q] = rpc[q] /\ rfd'[q] = rfd[q]
                                          /\ reply'[q] = reply[q]
            /\ rpc'[r] = "opened" => rfd'[r] = rfd[r]
            /\ reply'[r] = "torn" => reply[r] = "torn" \/ data[rfd[r]][roff[r]] # want[r]
        BY <1>0, <3>2 DEF ReadData, TypeOK, ReaderTypeOK
      <4>2. data[rfd[r]][roff[r]] = want[r]
        BY <1>0, <4>1, ChunkRead
      <4>. QED
        BY <2>1, <4>1, <4>2 DEF IInv, ObjectsInv, ReaderInv
    <3>. QED
      BY <1>17, <3>1, <3>2
  <2>. QED
    BY <1>0, <2>2, <2>3, <2>4 DEF IInv, ObjectsInv
<1>18. CASE PowerLoss
  <2>1. MaxPowerCuts > 0
    BY <1>0, <1>18, NumberAssumption DEF PowerLoss, TypeOK
  <2>2. \A v \in Writers : WriterInv(v)'
    BY <1>0, <1>18
       DEF PowerLoss, WriterInv, OperationInv, DescriptorInv, ContentInv, FlushInv,
           Holding, Pending, Complete, Phases, TypeOK, ControlTypeOK, WriterTypeOK,
           FsTypeOK
  <2>3. NamesInv'
    BY <1>0, <1>18 DEF IInv, PowerLoss, NamesInv, TypeOK, ControlTypeOK, WriterTypeOK, FsTypeOK
  <2>4. ASSUME NEW d \in Digests, object'[d] # None
        PROVE  data'[object'[d]] = Whole(d) /\ flushed'[object'[d]]
    <3>1. object'[d] = object[d] /\ flushed[object[d]] /\ object[d] \in Inodes
      BY <1>0, <1>18, <2>1, <2>4
         DEF IInv, PowerLoss, ObjectsInv, ObjectsFlushed, TypeOK, ControlTypeOK,
             WriterTypeOK, FsTypeOK
    <3>2. data'[object[d]] = data[object[d]] /\ flushed'[object[d]]
      BY <1>18, <3>1 DEF PowerLoss
    <3>. QED
      BY <2>4, <3>1, <3>2 DEF IInv, ObjectsInv, ObjectIntegrity
  <2>5. ObjectsInv'
    BY <1>0, <1>18, <2>4
       DEF IInv, PowerLoss, ObjectsInv, ObjectIntegrity, ObjectsFlushed, ReaderInv,
           Whole, TypeOK, ReaderTypeOK
  <2>. QED
    BY <1>0, <2>2, <2>3, <2>5 DEF IInv
<1>19. CASE UNCHANGED vars
  <2>1. UNCHANGED <<data, flushed, staging, object, pc, fd, off, dig, kind, source, rpc, want, rfd, reply>>
    BY <1>19 DEF vars
  <2>2. \A v \in Writers : WriterInv(v)'
    BY <2>1, WriterFrame DEF SameLocals, SameStaging
  <2>3. NamesInv'
    BY <2>1 DEF IInv, NamesInv
  <2>4. ObjectsInv'
    BY <2>1, ObjectsFrame DEF SameObject
  <2>. QED
    BY <1>0, <2>2, <2>3, <2>4 DEF IInv
<1>. QED
  BY <1>1, <1>2, <1>3, <1>4, <1>5, <1>6, <1>7, <1>8, <1>9, <1>10, <1>11,
     <1>12, <1>13, <1>14, <1>15, <1>16, <1>17, <1>18, <1>19
     DEF Next, Writer, Step, Reader

\* The inductive invariant holds in every reachable state of a sound store.
THEOREM InvHolds == ASSUME Sound PROVE Spec => []IInv
<1>1. Init => IInv
  <2> SUFFICES ASSUME Init PROVE IInv
    OBVIOUS
  <2>1. TypeOK
    BY Members, FirstChunk, NumberAssumption
       DEF Init, TypeOK, FsTypeOK, ControlTypeOK, WriterTypeOK, ReaderTypeOK, AllKinds
  <2>2. ASSUME NEW w \in Writers PROVE WriterInv(w)
    BY DEF Init, WriterInv, OperationInv, DescriptorInv, ContentInv, FlushInv, Holding,
           Pending, Complete
  <2>3. NamesInv /\ ObjectsInv
    BY DEF Init, NamesInv, ObjectsInv, ObjectIntegrity, ObjectsFlushed, ReaderInv
  <2>. QED
    BY <2>1, <2>2, <2>3 DEF IInv
<1>2. IInv /\ [Next]_vars => IInv'
  BY InvStep
<1>. QED
  BY <1>1, <1>2, PTL DEF Spec

\* Every visible object holds the content its digest names.
THEOREM StoreIntegrity == ASSUME Sound PROVE Spec => []ObjectIntegrity
<1>1. IInv => ObjectIntegrity
  BY DEF IInv, ObjectsInv
<1>. QED
  BY <1>1, InvHolds, PTL

\* No writer can still write to a committed object.
THEOREM CommittedUnreachable == ASSUME Sound PROVE Spec => []NoWriteReachesObject
<1>1. IInv => NoWriteReachesObject
  BY DEF IInv, TypeOK, WriterTypeOK, WriterInv, DescriptorInv, NamesInv, NoWriteReachesObject
<1>. QED
  BY <1>1, InvHolds, PTL

\* No read returns a partial or wrong object.
THEOREM ReadsWhole == ASSUME Sound PROVE Spec => []ReadsAreWhole
<1>1. IInv => ReadsAreWhole
  BY DEF IInv, ObjectsInv, ReaderInv, ReadsAreWhole
<1>. QED
  BY <1>1, InvHolds, PTL

\* A step writes to no file but the writer's own staging file, and names no
\* object but the one whose insert it completes.
LEMMA ObjectsKept ==
  ASSUME IInv, [Next]_vars, powerCuts' = powerCuts, NEW d \in Digests, object[d] # None
  PROVE  object'[d] = object[d] /\ data'[object[d]] = data[object[d]]
<1> USE DEF inodeVars, nameVars, opVars, readVars, envVars
<1>0. TypeOK /\ object[d] \in Inodes
  BY DEF IInv, TypeOK, FsTypeOK
<1>1. ASSUME NEW w \in Writers, Has(w) \/ RemoveStaged(w) \/ Fallback(w) \/ WriteFails(w)
               \/ WriteDone(w) \/ Fsync(w) \/ Seal(w) \/ DirSync(w) \/ Kill(w)
               \/ (\E k \in Kinds, e \in Owns[w] : Start(w, k, e))
               \/ (\E e \in Digests : Edit(w, e))
      PROVE  data' = data /\ object' = object
  BY <1>1 DEF Has, RemoveStaged, Fallback, WriteFails, WriteDone, Fsync, Seal, DirSync, Kill,
              Start, Edit
<1>2. ASSUME NEW w \in Writers, CloneCreate(w) \/ OpenStaged(w)
      PROVE  object' = object /\ data'[object[d]] = data[object[d]]
  <2>1. \/ data' = data
        \/ \E i \in Inodes : /\ staging[dig[w]] = i \/ Free(i)
                             /\ data' = [data EXCEPT ![i] = Empty]
    BY <1>2 DEF CloneCreate, OpenStaged, OpenTruncate
  <2>2. object' = object
    BY <1>2 DEF CloneCreate, OpenStaged
  <2>3. ASSUME NEW i \in Inodes, staging[dig[w]] = i \/ Free(i) PROVE i # object[d]
    BY <1>0, <2>3, DomainAssumption
       DEF IInv, NamesInv, Free, Named, TypeOK, WriterTypeOK
  <2>. QED
    BY <1>0, <2>1, <2>2, <2>3 DEF TypeOK, FsTypeOK
<1>3. ASSUME NEW w \in Writers, CloneIoctl(w) \/ WriteChunk(w)
      PROVE  object' = object /\ data'[object[d]] = data[object[d]]
  <2>1. pc[w] \in {"ioctl", "write", "copy"} /\ object' = object
    BY <1>3 DEF CloneIoctl, WriteChunk, Goto
  <2>2. fd[w] # object[d]
    BY <1>0, <2>1
       DEF IInv, WriterInv, DescriptorInv, Holding, NamesInv, TypeOK, WriterTypeOK
  <2>. QED
    BY <1>0, <1>3, <2>1, <2>2 DEF CloneIoctl, WriteChunk, TypeOK, FsTypeOK
<1>4. ASSUME NEW w \in Writers, Rename(w)
      PROVE  object'[d] = object[d] /\ data' = data
  <2>1. pc[w] = "rename" /\ data' = data
    BY <1>4 DEF Rename, Goto, ReturnOk, ReturnErr
  <2>2. object[dig[w]] = None
    BY <2>1 DEF IInv, WriterInv, ContentInv, Pending, Phases
  <2>. QED
    BY <1>0, <1>4, <2>1, <2>2 DEF Rename, TypeOK, FsTypeOK
<1>5. ASSUME NEW r \in Readers, Reader(r) PROVE data' = data /\ object' = object
  BY <1>5 DEF Reader, ReadOpen, ReadData
<1>6. ~PowerLoss
  BY <1>0, NumberAssumption DEF PowerLoss, TypeOK
<1>7. CASE UNCHANGED vars
  BY <1>7 DEF vars
<1>. QED
  BY <1>1, <1>2, <1>3, <1>4, <1>5, <1>6, <1>7 DEF Next, Writer, Step

\* Inserts never replace, remove or rewrite a committed object.
THEOREM CommittedImmutable == ASSUME Sound PROVE Spec => ObjectsImmutable
<1>1. IInv /\ [Next]_vars =>
        [\A d \in Digests : object[d] # None /\ powerCuts' = powerCuts =>
           /\ object'[d] = object[d]
           /\ data'[object[d]] = data[object[d]]]_vars
  BY ObjectsKept
<1>. QED
  BY <1>1, InvHolds, PTL DEF Spec, ObjectsImmutable
-----------------------------------------------------------------------------
(***************************************************************************)
(* What was acknowledged.  A sound store keeps it through a power loss if  *)
(* the fsync of a directory does not fail, as its error is ignored, and no *)
(* process is killed before it, as the next insert finds the object there  *)
(* and returns Ok.                                                         *)
(***************************************************************************)
Lasting == Sound /\ (MaxPowerCuts > 0 => ~Faults /\ MaxKills = 0)

\* A writer that is about to sync the directory of d's object
Syncing(w, d) == pc[w] = "dirsync" /\ dig[w] = d

\* What is acknowledged is visible, and where power may be lost a name that is
\* not on stable storage is one whose writer has yet to return.
AckInv ==
  /\ \A d \in acked : object[d] # None
  /\ \A w \in Writers : pc[w] = "dirsync" => object[dig[w]] # None
  /\ MaxPowerCuts > 0 =>
       /\ \A d \in acked : durable[d]
       /\ \A d \in Digests :
            object[d] # None /\ ~durable[d] => \E w \in Writers : Syncing(w, d)
  /\ \A r \in Readers : rpc[r] = "opened" => reply[r] = "none"

\* A step that neither names nor acknowledges an object
Plain(w) ==
  /\ UNCHANGED <<object, durable, acked, rpc, reply>>
  /\ pc[w] # "dirsync" /\ pc'[w] # "dirsync"

LEMMA PlainSteps ==
  ASSUME TypeOK, NEW w \in Writers,
         \/ \E k \in Kinds, d \in Owns[w] : Start(w, k, d)
         \/ RemoveStaged(w) \/ CloneCreate(w) \/ CloneIoctl(w) \/ Fallback(w) \/ OpenStaged(w)
         \/ WriteChunk(w) \/ WriteFails(w) \/ WriteDone(w) \/ Fsync(w) \/ Seal(w)
  PROVE  /\ Plain(w)
         /\ \A v \in Writers : v # w => pc'[v] = pc[v] /\ dig'[v] = dig[v]
<1> USE DEF TypeOK, ControlTypeOK, WriterTypeOK, inodeVars, nameVars, opVars, readVars, envVars,
            Goto, ReturnErr
<1>1. CASE \E k \in Kinds, d \in Owns[w] : Start(w, k, d)
  BY <1>1 DEF Start, Plain
<1>2. CASE RemoveStaged(w) \/ Fallback(w)
  BY <1>2 DEF RemoveStaged, Fallback, Plain
<1>3. CASE CloneCreate(w) \/ OpenStaged(w)
  BY <1>3 DEF CloneCreate, OpenStaged, Plain
<1>4. CASE CloneIoctl(w) \/ Fsync(w)
  BY <1>4 DEF CloneIoctl, Fsync, Plain
<1>5. CASE WriteChunk(w)
  BY <1>5 DEF WriteChunk, Plain
<1>6. CASE WriteFails(w)
  BY <1>6 DEF WriteFails, Plain
<1>7. CASE WriteDone(w)
  BY <1>7, FlagAssumption DEF WriteDone, Plain
<1>8. CASE Seal(w)
  BY <1>8 DEF Seal, Plain
<1>. QED
  BY <1>1, <1>2, <1>3, <1>4, <1>5, <1>6, <1>7, <1>8

\* Where power may be lost, no writer is killed
LEMMA NobodyKilled ==
  ASSUME Lasting, TypeOK, NEW w \in Writers, Kill(w)
  PROVE  ~(MaxPowerCuts > 0)
BY NumberAssumption DEF Lasting, TypeOK, Kill

LEMMA AckStep ==
  ASSUME Lasting, IInv, IInv', AckInv, [Next]_vars
  PROVE  AckInv'
<1> USE DEF inodeVars, nameVars, opVars, readVars, envVars
<1>0. TypeOK /\ Sound /\ Exclusive /\ MaxPowerCuts \in Nat
  BY NumberAssumption DEF IInv, Lasting, Sound
<1>1. ASSUME NEW w \in Writers,
             \/ \E k \in Kinds, d \in Owns[w] : Start(w, k, d)
             \/ RemoveStaged(w) \/ CloneCreate(w) \/ CloneIoctl(w) \/ Fallback(w)
             \/ OpenStaged(w) \/ WriteChunk(w) \/ WriteFails(w) \/ WriteDone(w) \/ Fsync(w)
             \/ Seal(w)
      PROVE  AckInv'
  <2>1. Plain(w) /\ \A v \in Writers : v # w => pc'[v] = pc[v] /\ dig'[v] = dig[v]
    BY <1>0, <1>1, PlainSteps
  <2>. QED
    BY <2>1 DEF Plain, AckInv, Syncing
<1>2. ASSUME NEW w \in Writers, Has(w) PROVE AckInv'
  <2>1. /\ UNCHANGED <<object, durable, dig, rpc, reply>> /\ pc[w] = "has"
        /\ \A v \in Writers : v # w => pc'[v] = pc[v]
        /\ pc'[w] # "dirsync"
        /\ acked' = acked \/ (object[dig[w]] # None /\ acked' = acked \cup {dig[w]})
    BY <1>0, <1>2 DEF Has, Goto, ReturnOk, TypeOK, ControlTypeOK
  <2>2. dig[w] \in Digests
    BY <1>0 DEF TypeOK, WriterTypeOK
  <2>3. \A v \in Writers : ~Syncing(v, dig[w])
    BY <1>0, <2>1, DistinctDigests DEF Syncing
  <2>4. \A v \in Writers, d \in Digests : Syncing(v, d) => Syncing(v, d)'
    BY <2>1 DEF Syncing
  <2>. QED
    BY <2>1, <2>2, <2>3, <2>4 DEF AckInv
<1>3. ASSUME NEW w \in Writers, Rename(w) PROVE AckInv'
  <2>1. /\ UNCHANGED <<dig, rpc, reply>> /\ pc[w] = "rename"
        /\ \A v \in Writers : v # w => pc'[v] = pc[v]
    BY <1>0, <1>3 DEF Rename, Goto, ReturnOk, ReturnErr, TypeOK, ControlTypeOK
  <2>2. dig[w] \in Digests /\ object[dig[w]] = None /\ dig[w] \notin acked
    BY <1>0, <2>1 DEF IInv, WriterInv, ContentInv, Pending, Phases, TypeOK, WriterTypeOK, AckInv
  <2>3. CASE UNCHANGED <<object, durable, acked>> /\ pc'[w] = "idle"
    BY <2>1, <2>3 DEF AckInv, Syncing
  <2>4. CASE /\ staging[dig[w]] # None
             /\ object' = [object EXCEPT ![dig[w]] = staging[dig[w]]]
             /\ durable' = [durable EXCEPT ![dig[w]] = FALSE]
             /\ IF Synced THEN Goto(w, "rename", "dirsync") ELSE ReturnOk(w, "rename")
    <3>1. /\ object'[dig[w]] # None
          /\ \A d \in Digests : d # dig[w] => object'[d] = object[d] /\ durable'[d] = durable[d]
      BY <1>0, <2>2, <2>4 DEF TypeOK, FsTypeOK
    <3>2. \/ Synced /\ acked' = acked /\ pc'[w] = "dirsync"
          \/ ~Synced /\ acked' = acked \cup {dig[w]} /\ pc'[w] = "idle"
      BY <1>0, <2>4 DEF Goto, ReturnOk, TypeOK, ControlTypeOK
    <3>3. MaxPowerCuts > 0 => Synced
      BY <1>0 DEF Sound
    <3>4. \A v \in Writers, d \in Digests : Syncing(v, d) => Syncing(v, d)'
      BY <2>1 DEF Syncing
    <3>5. MaxPowerCuts > 0 => Syncing(w, dig[w])'
      BY <2>1, <3>2, <3>3 DEF Syncing
    <3>6. acked \subseteq Digests /\ \A v \in Writers : dig[v] \in Digests
      BY <1>0 DEF TypeOK, ControlTypeOK, WriterTypeOK
    <3>7. /\ \A d \in acked' : object'[d] # None
          /\ \A v \in Writers : pc'[v] = "dirsync" => object'[dig'[v]] # None
      BY <2>1, <3>1, <3>2, <3>6 DEF AckInv
    <3>8. MaxPowerCuts > 0 =>
            /\ \A d \in acked' : durable'[d]
            /\ \A d \in Digests :
                 object'[d] # None /\ ~durable'[d] => \E v \in Writers : Syncing(v, d)'
      BY <2>1, <2>2, <3>1, <3>2, <3>3, <3>4, <3>5, <3>6 DEF AckInv
    <3>. QED
      BY <2>1, <3>7, <3>8 DEF AckInv
  <2>. QED
    BY <1>0, <1>3, <2>3, <2>4 DEF Rename, ReturnErr, TypeOK, ControlTypeOK
<1>4. ASSUME NEW w \in Writers, DirSync(w) PROVE AckInv'
  <2>1. /\ UNCHANGED <<object, dig, rpc, reply>> /\ pc[w] = "dirsync" /\ pc'[w] = "idle"
        /\ \A v \in Writers : v # w => pc'[v] = pc[v]
        /\ acked' = acked \cup {dig[w]}
        /\ durable' = [durable EXCEPT ![dig[w]] = TRUE] \/ (Faults /\ durable' = durable)
    BY <1>0, <1>4 DEF DirSync, ReturnOk, TypeOK, ControlTypeOK
  <2>2. dig[w] \in Digests /\ acked \subseteq Digests /\ object[dig[w]] # None
    BY <1>0, <2>1 DEF TypeOK, WriterTypeOK, ControlTypeOK, AckInv
  <2>3. MaxPowerCuts > 0 => /\ durable'[dig[w]]
                            /\ \A d \in Digests : d # dig[w] => durable'[d] = durable[d]
    BY <1>0, <2>1, <2>2 DEF Lasting, TypeOK, FsTypeOK
  <2>4. \A v \in Writers, d \in Digests : Syncing(v, d) /\ d # dig[w] => Syncing(v, d)'
    BY <2>1 DEF Syncing
  <2>. QED
    BY <2>1, <2>2, <2>3, <2>4 DEF AckInv
<1>5. ASSUME NEW w \in Writers, Kill(w) PROVE AckInv'
  <2>1. /\ UNCHANGED <<object, acked, dig, rpc, reply>> /\ ~(MaxPowerCuts > 0)
        /\ \A v \in Writers : pc'[v] \in {pc[v], "idle"}
    BY <1>0, <1>5, NobodyKilled DEF Kill, TypeOK, ControlTypeOK
  <2>. QED
    BY <2>1 DEF AckInv
<1>6. ASSUME NEW w \in Writers, NEW d \in Digests, Edit(w, d) PROVE AckInv'
  BY <1>0, <1>6 DEF Edit, Sound
<1>7. ASSUME NEW r \in Readers, Reader(r) PROVE AckInv'
  <2>1. /\ UNCHANGED <<object, durable, acked, pc, dig>>
        /\ \A q \in Readers : q # r => rpc'[q] = rpc[q] /\ reply'[q] = reply[q]
        /\ rpc'[r] = "opened" => reply'[r] = "none" \/ (rpc[r] = "opened" /\ reply'[r] = reply[r])
    BY <1>0, <1>7 DEF Reader, ReadOpen, ReadData, TypeOK, ReaderTypeOK
  <2>. QED
    BY <2>1 DEF AckInv, Syncing
<1>8. ASSUME PowerLoss PROVE AckInv'
  <2>1. PICK undone \in SUBSET {d \in Digests : ~durable[d]} :
          object' = [d \in Digests |-> IF d \in undone THEN None ELSE object[d]]
    BY <1>8 DEF PowerLoss
  <2>2. /\ durable' = [d \in Digests |-> TRUE] /\ pc' = [w \in Writers |-> "idle"]
        /\ rpc' = [r \in Readers |-> "idle"] /\ acked' = acked /\ powerCuts < MaxPowerCuts
    BY <1>8 DEF PowerLoss
  <2>3. MaxPowerCuts > 0 /\ acked \subseteq Digests
    BY <1>0, <2>2 DEF TypeOK, ControlTypeOK
  <2>. QED
    BY <2>1, <2>2, <2>3 DEF AckInv
<1>9. CASE UNCHANGED vars
  BY <1>9 DEF vars, AckInv, Syncing
<1>. QED
  BY <1>1, <1>2, <1>3, <1>4, <1>5, <1>6, <1>7, <1>8, <1>9 DEF Next, Writer, Step


LEMMA AckHolds == ASSUME Lasting PROVE Spec => [](IInv /\ AckInv)
<1>1. Sound
  BY DEF Lasting
<1>2. Init => AckInv
  BY DEF Init, AckInv
<1>3. IInv /\ IInv' /\ AckInv /\ [Next]_vars => AckInv'
  BY AckStep
<1>4. Spec => []IInv
  BY <1>1, InvHolds
<1>. QED
  BY <1>2, <1>3, <1>4, PTL DEF Spec

\* An insert that returned Ok has its object in place, whole, through every power
\* loss (Durability::Synced, store.rs:53-54).
THEOREM AcknowledgedSurvives == ASSUME Lasting PROVE Spec => []CompletedInsertSurvives
<1>1. IInv /\ AckInv => CompletedInsertSurvives
  BY DEF IInv, TypeOK, ControlTypeOK, ObjectsInv, ObjectIntegrity, AckInv,
         CompletedInsertSurvives
<1>. QED
  BY <1>1, AckHolds, PTL

-----------------------------------------------------------------------------
(***************************************************************************)
(* The refinement: each system call is a step of the atomic store, or none *)
(***************************************************************************)
Stored == {d \in Digests : object[d] # None}
Answer == [r \in Readers |-> IF rpc[r] = "opened" THEN "pending" ELSE reply[r]]

\* A step that changes none of what the atomic store sees
LEMMA Stutters ==
  ASSUME UNCHANGED <<object, acked, rpc, reply>>
  PROVE  UNCHANGED Abstract!vars
BY DEF Abstract!vars

LEMMA RefinesInit == Init => Abstract!Init
<1> SUFFICES ASSUME Init PROVE Abstract!Init
  OBVIOUS
<1>1. Stored = {} /\ acked = {} /\ Answer = [r \in Readers |-> "none"]
  BY DEF Init, Stored, Answer
<1>. QED
  BY <1>1 DEF Abstract!Init, Stored, Answer

LEMMA RefinesStep ==
  ASSUME Lasting, IInv, AckInv, AckInv', [Next]_vars
  PROVE  [Abstract!Next]_(Abstract!vars)
<1> USE DEF inodeVars, nameVars, opVars, readVars, envVars
<1>0. /\ TypeOK /\ \A w \in Writers : dig[w] \in Digests
      /\ acked \subseteq Digests
  BY DEF IInv, TypeOK, WriterTypeOK, ControlTypeOK
<1>1. ASSUME NEW d \in Digests, object[d] # None, acked' = acked \cup {d},
             UNCHANGED <<object, rpc, reply>>
      PROVE  Abstract!Next
  <2>1. Abstract!Acknowledge(d)
    BY <1>1 DEF Abstract!Acknowledge
  <2>. QED
    BY <2>1 DEF Abstract!Next
<1>2. ASSUME NEW w \in Writers,
             \/ \E k \in Kinds, d \in Owns[w] : Start(w, k, d)
             \/ RemoveStaged(w) \/ CloneCreate(w) \/ CloneIoctl(w) \/ Fallback(w)
             \/ OpenStaged(w) \/ WriteChunk(w) \/ WriteFails(w) \/ WriteDone(w) \/ Fsync(w)
             \/ Seal(w) \/ Kill(w) \/ \E d \in Digests : Edit(w, d)
      PROVE  UNCHANGED Abstract!vars
  <2>1. Kill(w) \/ (\E d \in Digests : Edit(w, d)) => UNCHANGED <<object, acked, rpc, reply>>
    BY DEF Kill, Edit
  <2>2. UNCHANGED <<object, acked, rpc, reply>>
    BY <1>0, <1>2, <2>1, PlainSteps DEF Plain
  <2>. QED
    BY <2>2, Stutters
<1>3. ASSUME NEW w \in Writers, Has(w) PROVE [Abstract!Next]_(Abstract!vars)
  <2>1. /\ UNCHANGED <<object, rpc, reply>>
        /\ acked' = acked \/ (object[dig[w]] # None /\ acked' = acked \cup {dig[w]})
    BY <1>3 DEF Has, Goto, ReturnOk
  <2>. QED
    BY <1>0, <1>1, <2>1, Stutters
<1>4. ASSUME NEW w \in Writers, DirSync(w) PROVE Abstract!Next
  <2>1. UNCHANGED <<object, rpc, reply>> /\ acked' = acked \cup {dig[w]} /\ pc[w] = "dirsync"
    BY <1>4 DEF DirSync, ReturnOk
  <2>2. object[dig[w]] # None
    BY <2>1 DEF AckInv
  <2>. QED
    BY <1>0, <1>1, <2>1, <2>2
<1>5. ASSUME NEW w \in Writers, Rename(w) PROVE [Abstract!Next]_(Abstract!vars)
  <2>1. CASE UNCHANGED <<object, acked, rpc, reply>>
    BY <2>1, Stutters
  <2>2. CASE /\ staging[dig[w]] # None
             /\ object' = [object EXCEPT ![dig[w]] = staging[dig[w]]]
             /\ acked' \in {acked, acked \cup {dig[w]}} /\ UNCHANGED <<rpc, reply>>
    <3>0. PICK d \in Digests : d = dig[w]
      BY <1>0
    <3>1. Stored' = Stored \cup {d}
      BY <1>0, <2>2, <3>0 DEF Stored, TypeOK, FsTypeOK
    <3>2. Answer' = Answer
      BY <2>2 DEF Answer
    <3>3. Abstract!Insert(d)
      BY <2>2, <3>0, <3>1, <3>2 DEF Abstract!Insert, Stored, Answer
    <3>. QED
      BY <3>3 DEF Abstract!Next
  <2>. QED
    BY <1>5, <2>1, <2>2 DEF Rename, Goto, ReturnOk, ReturnErr
<1>6. ASSUME NEW r \in Readers, NEW d \in Digests, ReadOpen(r, d) PROVE Abstract!Next
  <2>1. /\ UNCHANGED <<object, acked>> /\ rpc[r] = "idle"
        /\ \A q \in Readers : q # r => rpc'[q] = rpc[q] /\ reply'[q] = reply[q]
        /\ \/ object[d] = None /\ rpc'[r] = "idle" /\ reply'[r] = "missing"
           \/ object[d] # None /\ rpc'[r] = "opened"
    BY <1>0, <1>6 DEF ReadOpen, TypeOK, ReaderTypeOK
  <2>2. Answer[r] # "pending"
    BY <1>0, <2>1 DEF Answer, TypeOK, ReaderTypeOK
  <2>3. Answer' = [Answer EXCEPT ![r] = IF d \in Stored THEN "pending" ELSE "missing"]
    BY <2>1 DEF Answer, Stored
  <2>4. Stored' = Stored
    BY <2>1 DEF Stored
  <2>5. Abstract!Lookup(r, d)
    BY <2>1, <2>2, <2>3, <2>4 DEF Abstract!Lookup, Stored, Answer
  <2>. QED
    BY <2>5 DEF Abstract!Next
<1>7. ASSUME NEW r \in Readers, ReadData(r) PROVE [Abstract!Next]_(Abstract!vars)
  <2>1. data[rfd[r]][roff[r]] = want[r]
    BY <1>7, ChunkRead DEF ReadData
  <2>2. CASE UNCHANGED <<rpc, reply>>
    <3>1. UNCHANGED <<object, acked, rpc, reply>>
      BY <1>7, <2>2 DEF ReadData
    <3>. QED
      BY <3>1, Stutters
  <2>3. CASE ~UNCHANGED <<rpc, reply>>
    <3>1. /\ UNCHANGED <<object, acked>> /\ rpc[r] = "opened" /\ rpc'[r] = "idle"
          /\ \A q \in Readers : q # r => rpc'[q] = rpc[q] /\ reply'[q] = reply[q]
          /\ reply'[r] = "whole"
      BY <1>0, <1>7, <2>1, <2>3 DEF ReadData, TypeOK, ReaderTypeOK
    <3>2. Answer[r] = "pending" /\ Answer' = [Answer EXCEPT ![r] = "whole"]
      BY <3>1 DEF Answer
    <3>3. Stored' = Stored
      BY <3>1 DEF Stored
    <3>4. Abstract!Deliver(r)
      BY <3>1, <3>2, <3>3 DEF Abstract!Deliver, Stored, Answer
    <3>. QED
      BY <3>4 DEF Abstract!Next
  <2>. QED
    BY <2>2, <2>3
<1>8. ASSUME PowerLoss PROVE Abstract!Next
  <2>1. PICK undone \in SUBSET {d \in Digests : ~durable[d]} :
          object' = [d \in Digests |-> IF d \in undone THEN None ELSE object[d]]
    BY <1>8 DEF PowerLoss
  <2>2. acked' = acked /\ reply' = reply /\ rpc' = [r \in Readers |-> "idle"]
    BY <1>8 DEF PowerLoss
  <2>3. Stored' \subseteq Stored
    BY <2>1 DEF Stored
  <2>4. acked \subseteq Stored'
    BY <1>0, <2>2 DEF Stored, AckInv
  <2>5. Answer' = [r \in Readers |-> IF Answer[r] = "pending" THEN "none" ELSE Answer[r]]
    <3>1. \A r \in Readers : rpc[r] = "opened" => reply[r] = "none"
      BY DEF AckInv
    <3>2. \A r \in Readers : reply[r] # "pending"
      BY <1>0 DEF TypeOK, ReaderTypeOK
    <3>. QED
      BY <2>2, <3>1, <3>2 DEF Answer
  <2>6. Abstract!Lose
    BY <2>2, <2>3, <2>4, <2>5 DEF Abstract!Lose, Stored, Answer
  <2>. QED
    BY <2>6 DEF Abstract!Next
<1>9. CASE UNCHANGED vars
  BY <1>9, Stutters DEF vars
<1>. QED
  BY <1>2, <1>3, <1>4, <1>5, <1>6, <1>7, <1>8, <1>9 DEF Next, Writer, Step, Reader

\* The store implements the atomic store: every system call of an insert or a read,
\* every fault, kill and power loss is a step of AtomicStore or none. An insert takes
\* effect when it renames, a read when it opens the object.
THEOREM StoreIsAtomic == ASSUME Lasting PROVE Spec => ImplementsAtomicStore
<1>1. IInv /\ AckInv /\ AckInv' /\ [Next]_vars => [Abstract!Next]_(Abstract!vars)
  BY RefinesStep
<1>. QED
  BY <1>1, RefinesInit, AckHolds, PTL DEF Spec, ImplementsAtomicStore, Abstract!Spec
=============================================================================
