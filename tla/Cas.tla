-------------------------------- MODULE Cas ---------------------------------
(***************************************************************************)
(* The insert and read paths of jet-cas's ObjectStore, one action per      *)
(* system call that another process can observe.                           *)
(*                                                                         *)
(* A file is an inode; objects/<ab>/<hex> and tmp/<hex>.staging are names  *)
(* for inodes.  Contents are identified with the digest that names them,   *)
(* so a file is whole for d when every one of its chunks is d's chunk.     *)
(* Writers run put_bytes / put_tree ("bytes") or put_file ("file"),        *)
(* readers run get_bytes or the verifying reads.                           *)
(***************************************************************************)
EXTENDS Naturals

CONSTANTS
  Digests,       \* digests (and the contents they name)
  Inodes,        \* inodes the filesystem can allocate: bounds the model
  Writers,       \* processes or threads that insert
  Readers,       \* processes or threads that read
  NChunks,       \* calls of write(2), or read(2), that one object takes
  None,          \* "no inode"
  Hole,          \* a chunk never written, or lost
  Owns,          \* Owns[w]: the digests writer w inserts
  Kinds,         \* the insert operations in use, a subset of AllKinds
  Synced,        \* Durability::Synced rather than Relaxed
  Privileged,    \* the process may open a 0444 file for writing (root)
  FsClones,      \* the filesystem supports FICLONE
  EditSources,   \* files being ingested may be edited meanwhile
  Faults,        \* ENOSPC and EIO may happen
  MaxKills,      \* bound: processes killed
  MaxPowerCuts   \* bound: power losses

AllKinds == {"bytes", "file"}
Chunks == 1 .. NChunks

ASSUME DomainAssumption ==
  /\ None \notin Inodes
  /\ Hole \notin Digests
ASSUME OwnsAssumption == Owns \in [Writers -> SUBSET Digests]
ASSUME KindsAssumption == Kinds \subseteq AllKinds
ASSUME NumberAssumption ==
  /\ NChunks \in Nat \ {0}
  /\ MaxKills \in Nat
  /\ MaxPowerCuts \in Nat
ASSUME FlagAssumption ==
  /\ Synced \in BOOLEAN
  /\ Privileged \in BOOLEAN
  /\ FsClones \in BOOLEAN
  /\ EditSources \in BOOLEAN
  /\ Faults \in BOOLEAN

VARIABLES
  \* the filesystem
  data,          \* data[i]: the chunks of inode i
  sealed,        \* sealed[i]: mode is OBJECT_MODE
  flushed,       \* flushed[i]: the contents are on stable storage
  staging,       \* staging[d]: inode named tmp/<d>.staging
  object,        \* object[d]: inode named objects/<ab>/<d>
  durable,       \* durable[d]: that name is on stable storage
  \* the writers
  pc,
  kind,          \* which operation
  dig,           \* the digest computed from the bytes or the source file
  fd,            \* the inode open for writing
  off,           \* and the next chunk to write
  source,        \* content of the file given to put_file
  reflink,       \* Capabilities.reflink
  failed,        \* writers whose last insert returned an error
  \* the readers
  rpc,
  want,          \* digest being read
  rfd,           \* inode open for reading
  roff,          \* and the next chunk to read
  reply,         \* what the last read returned
  \* history and bounds
  acked,         \* digests for which some insert returned Ok
  kills,
  powerCuts

inodeVars == <<data, sealed, flushed>>
nameVars  == <<staging, object, durable>>
opVars    == <<kind, dig, source>>
readVars  == <<rpc, want, rfd, roff, reply>>
envVars   == <<kills, powerCuts>>
vars == <<data, sealed, flushed, staging, object, durable, pc, kind, dig, off,
          fd, source, reflink, failed, rpc, want, rfd, roff, reply, acked,
          kills, powerCuts>>

-----------------------------------------------------------------------------

Whole(d) == [c \in Chunks |-> d]
Empty == [c \in Chunks |-> Hole]

Named(i) == \E d \in Digests : staging[d] = i \/ object[d] = i
Open(i) == (\E w \in Writers : fd[w] = i) \/ (\E r \in Readers : rfd[r] = i)
Free(i) == ~Named(i) /\ ~Open(i)

Phases == {"idle", "has", "remove", "clone", "ioctl", "copyopen", "copy",
           "fallback", "open", "write", "fsync", "seal", "rename", "dirsync"}

FsTypeOK ==
  /\ data \in [Inodes -> [Chunks -> Digests \cup {Hole}]]
  /\ sealed \in [Inodes -> BOOLEAN]
  /\ flushed \in [Inodes -> BOOLEAN]
  /\ staging \in [Digests -> Inodes \cup {None}]
  /\ object \in [Digests -> Inodes \cup {None}]
  /\ durable \in [Digests -> BOOLEAN]

ControlTypeOK ==
  /\ pc \in [Writers -> Phases]
  /\ failed \subseteq Writers
  /\ acked \subseteq Digests

WriterTypeOK ==
  /\ kind \in [Writers -> AllKinds]
  /\ dig \in [Writers -> Digests]
  /\ fd \in [Writers -> Inodes \cup {None}]
  /\ off \in [Writers -> 1 .. NChunks + 1]
  /\ source \in [Writers -> Digests]
  /\ reflink \in {"unknown", "yes", "no"}

ReaderTypeOK ==
  /\ rpc \in [Readers -> {"idle", "opened"}]
  /\ want \in [Readers -> Digests]
  /\ rfd \in [Readers -> Inodes \cup {None}]
  /\ roff \in [Readers -> Chunks]
  /\ reply \in [Readers -> {"none", "missing", "whole", "torn"}]

\* Files, writers, readers and history have their types.
TypeOK ==
  /\ FsTypeOK
  /\ ControlTypeOK
  /\ WriterTypeOK
  /\ ReaderTypeOK
  /\ kills \in 0 .. MaxKills
  /\ powerCuts \in 0 .. MaxPowerCuts

\* open_with on an empty directory: the probe settles reflink, or fails and
\* leaves it unknown.
Init ==
  /\ data = [i \in Inodes |-> Empty]
  /\ sealed = [i \in Inodes |-> FALSE]
  /\ flushed = [i \in Inodes |-> FALSE]
  /\ staging = [d \in Digests |-> None]
  /\ object = [d \in Digests |-> None]
  /\ durable = [d \in Digests |-> FALSE]
  /\ pc = [w \in Writers |-> "idle"]
  /\ kind = [w \in Writers |-> "bytes"]
  /\ dig \in [Writers -> Digests]
  /\ off = [w \in Writers |-> 1]
  /\ fd = [w \in Writers |-> None]
  /\ source = dig
  /\ reflink \in {"unknown", IF FsClones THEN "yes" ELSE "no"}
  /\ failed = {}
  /\ rpc = [r \in Readers |-> "idle"]
  /\ want \in [Readers -> Digests]
  /\ rfd = [r \in Readers |-> None]
  /\ roff = [r \in Readers |-> 1]
  /\ reply = [r \in Readers |-> "none"]
  /\ acked = {}
  /\ kills = 0
  /\ powerCuts = 0

-----------------------------------------------------------------------------
(* Control helpers *)

Goto(w, from, to) ==
  /\ pc[w] = from
  /\ pc' = [pc EXCEPT ![w] = to]
  /\ UNCHANGED <<failed, acked>>

ReturnOk(w, from) ==
  /\ pc[w] = from
  /\ pc' = [pc EXCEPT ![w] = "idle"]
  /\ failed' = failed \ {w}
  /\ acked' = acked \cup {dig[w]}

ReturnErr(w, from) ==
  /\ pc[w] = from
  /\ pc' = [pc EXCEPT ![w] = "idle"]
  /\ failed' = failed \cup {w}
  /\ UNCHANGED acked

\* The position goes with the open file.
Close(w) ==
  /\ fd' = [fd EXCEPT ![w] = None]
  /\ off' = [off EXCEPT ![w] = 1]

Unlink(d) == staging' = [staging EXCEPT ![d] = None]

-----------------------------------------------------------------------------
(* put_bytes, put_tree, put_file *)

\* Compute the digest: of the bytes given, or of the source file as it is now.
Start(w, k, d) ==
  /\ pc[w] = "idle"
  /\ pc' = [pc EXCEPT ![w] = "has"]
  /\ kind' = [kind EXCEPT ![w] = k]
  /\ dig' = [dig EXCEPT ![w] = d]
  /\ source' = [source EXCEPT ![w] = d]
  /\ failed' = failed \ {w}
  /\ UNCHANGED <<inodeVars, nameVars, off, fd, reflink, readVars, acked, envVars>>

\* Mutant of Has: the existing object is not looked for.
HasNever(w) ==
  /\ Goto(w, "has", IF kind[w] = "file" THEN "remove" ELSE "open")
  /\ UNCHANGED <<inodeVars, nameVars, opVars, off, fd, reflink, readVars, envVars>>

\* Mutant of Has: a staging file counts as an insert in progress.
HasStaged(w) ==
  /\ \/ /\ object[dig[w]] # None \/ staging[dig[w]] # None
        /\ ReturnOk(w, "has")
     \/ /\ object[dig[w]] = None /\ staging[dig[w]] = None
        /\ Goto(w, "has", IF kind[w] = "file" THEN "remove" ELSE "open")
  /\ UNCHANGED <<inodeVars, nameVars, opVars, off, fd, reflink, readVars, envVars>>

\* if self.has(&digest) return Ok: the dedupe.
Has(w) ==
  /\ \/ /\ object[dig[w]] # None
        /\ ReturnOk(w, "has")
     \/ /\ object[dig[w]] = None
        /\ Goto(w, "has", IF kind[w] = "file" THEN "remove" ELSE "open")
  /\ UNCHANGED <<inodeVars, nameVars, opVars, off, fd, reflink, readVars, envVars>>

(* link::materialize(path, staged, PrivateInode): reflink, else fs::copy *)

RemoveStaged(w) ==
  /\ \/ /\ Goto(w, "remove", IF reflink # "no" THEN "clone" ELSE "copyopen")
        /\ Unlink(dig[w])
     \/ /\ Faults
        /\ Goto(w, "remove", "fallback")
        /\ UNCHANGED staging
  /\ UNCHANGED <<inodeVars, object, durable, opVars, off, fd, reflink, readVars, envVars>>

\* raw_reflink opens with create_new: an existing file is EEXIST, which is not
\* "unsupported", so materialize returns Err.
CloneCreate(w) ==
  /\ \/ /\ staging[dig[w]] # None \/ Faults
        /\ Goto(w, "clone", "fallback")
        /\ UNCHANGED <<inodeVars, staging, fd>>
     \/ /\ staging[dig[w]] = None
        /\ Goto(w, "clone", "ioctl")
        /\ \E i \in Inodes :
             /\ Free(i)
             /\ staging' = [staging EXCEPT ![dig[w]] = i]
             /\ fd' = [fd EXCEPT ![w] = i]
             /\ data' = [data EXCEPT ![i] = Empty]
             /\ sealed' = [sealed EXCEPT ![i] = FALSE]
             /\ flushed' = [flushed EXCEPT ![i] = FALSE]
  /\ UNCHANGED <<object, durable, opVars, off, reflink, readVars, envVars>>

\* FICLONE succeeds, is unsupported (noted, try the copy), or fails otherwise.
\* A failed clone removes its file; an error of that is ignored.
CloneIoctl(w) ==
  /\ \/ /\ FsClones
        /\ Goto(w, "ioctl", "seal")
        /\ data' = [data EXCEPT ![fd[w]] = Whole(source[w])]
        /\ reflink' = "yes"
        /\ UNCHANGED staging
     \/ /\ ~FsClones
        /\ Goto(w, "ioctl", "copyopen")
        /\ Unlink(dig[w]) \/ (Faults /\ UNCHANGED staging)
        /\ reflink' = "no"
        /\ UNCHANGED data
     \/ /\ Faults
        /\ Goto(w, "ioctl", "fallback")
        /\ Unlink(dig[w]) \/ UNCHANGED staging
        /\ UNCHANGED <<data, reflink>>
  /\ Close(w)
  /\ UNCHANGED <<sealed, flushed, object, durable, opVars, readVars, envVars>>

\* put_file's fallback: drop whatever is staged (an error is ignored), open
\* the source (an error is returned), then insert_staged.
Fallback(w) ==
  /\ Goto(w, "fallback", "open") \/ (Faults /\ ReturnErr(w, "fallback"))
  /\ Unlink(dig[w]) \/ (Faults /\ UNCHANGED staging)
  /\ UNCHANGED <<inodeVars, object, durable, opVars, off, fd, reflink, readVars, envVars>>

(* insert_staged ("open", "write") and fs::copy ("copyopen", "copy") *)

\* Opening a sealed leftover for writing is EACCES unless privileged.
Denied(d) ==
  /\ staging[d] # None
  /\ sealed[staging[d]]
  /\ ~Privileged

\* O_WRONLY | O_CREAT | O_TRUNC on the staging path.
OpenTruncate(w) ==
  /\ ~Denied(dig[w])
  /\ \E i \in Inodes :
       /\ \/ staging[dig[w]] = i
          \/ staging[dig[w]] = None /\ Free(i)
       /\ staging' = [staging EXCEPT ![dig[w]] = i]
       /\ fd' = [fd EXCEPT ![w] = i]
       /\ data' = [data EXCEPT ![i] = Empty]
       /\ sealed' = [sealed EXCEPT ![i] = IF staging[dig[w]] = i THEN @ ELSE FALSE]
       /\ flushed' = [flushed EXCEPT ![i] = FALSE]

OpenStaged(w) ==
  /\ \/ /\ Goto(w, "open", "write") \/ Goto(w, "copyopen", "copy")
        /\ OpenTruncate(w)
     \/ /\ Denied(dig[w]) \/ Faults
        /\ ReturnErr(w, "open") \/ Goto(w, "copyopen", "fallback")
        /\ UNCHANGED <<inodeVars, staging, fd>>
  /\ UNCHANGED <<object, durable, opVars, off, reflink, readVars, envVars>>

\* Mutant of WriteChunk: one write too many.
WriteChunkBeyond(w) ==
  /\ pc[w] \in {"write", "copy"}
  /\ off[w] \in 1 .. NChunks + 1
  /\ data' = [data EXCEPT ![fd[w]][off[w]] = dig[w]]
  /\ flushed' = [flushed EXCEPT ![fd[w]] = FALSE]
  /\ off' = [off EXCEPT ![w] = @ + 1]
  /\ UNCHANGED <<sealed, nameVars, pc, opVars, fd, reflink, failed, readVars, acked, envVars>>

\* One write(2).  put_file copies whatever the source file holds now.
WriteChunk(w) ==
  /\ pc[w] \in {"write", "copy"}
  /\ off[w] \in Chunks
  /\ data' = [data EXCEPT ![fd[w]][off[w]] =
                IF kind[w] = "file" THEN source[w] ELSE dig[w]]
  /\ flushed' = [flushed EXCEPT ![fd[w]] = FALSE]
  /\ off' = [off EXCEPT ![w] = @ + 1]
  /\ UNCHANGED <<sealed, nameVars, pc, opVars, fd, reflink, failed, readVars, acked, envVars>>

\* Mutant of WriteFails: the error of the write is dropped.
WriteFailsIgnored(w) ==
  /\ Faults
  /\ Goto(w, "write", "seal") \/ Goto(w, "copy", "seal")
  /\ Close(w)
  /\ UNCHANGED <<inodeVars, nameVars, opVars, reflink, readVars, envVars>>

\* A failed write or fsync leaves the staging file where it is.
WriteFails(w) ==
  /\ Faults
  /\ ReturnErr(w, "write") \/ ReturnErr(w, "fsync") \/ Goto(w, "copy", "fallback")
  /\ Close(w)
  /\ UNCHANGED <<inodeVars, nameVars, opVars, reflink, readVars, envVars>>

\* Mutant of WriteDone: write instead of write_all, a short write passes.
WriteDoneShort(w) ==
  /\ \/ Goto(w, "write", IF Synced THEN "fsync" ELSE "seal")
     \/ Goto(w, "copy", "seal")
  /\ IF pc'[w] = "fsync" THEN UNCHANGED <<fd, off>> ELSE Close(w)
  /\ UNCHANGED <<inodeVars, nameVars, opVars, reflink, readVars, envVars>>

\* Mutant of WriteDone: the file stays open past the rename.
WriteDoneOpen(w) ==
  /\ off[w] = NChunks + 1
  /\ \/ Goto(w, "write", IF Synced THEN "fsync" ELSE "seal")
     \/ Goto(w, "copy", "seal")
  /\ UNCHANGED <<fd, off, inodeVars, nameVars, opVars, reflink, readVars, envVars>>

\* fs::copy never syncs; insert_staged syncs when Synced.
WriteDone(w) ==
  /\ off[w] = NChunks + 1
  /\ \/ Goto(w, "write", IF Synced THEN "fsync" ELSE "seal")
     \/ Goto(w, "copy", "seal")
  /\ IF pc'[w] = "fsync" THEN UNCHANGED <<fd, off>> ELSE Close(w)
  /\ UNCHANGED <<inodeVars, nameVars, opVars, reflink, readVars, envVars>>

Fsync(w) ==
  /\ Goto(w, "fsync", "seal")
  /\ flushed' = [flushed EXCEPT ![fd[w]] = TRUE]
  /\ Close(w)
  /\ UNCHANGED <<data, sealed, nameVars, opVars, reflink, readVars, envVars>>

(* seal_and_commit *)

\* stat and chmod by path: an error if another writer renamed it away.
Seal(w) ==
  /\ \/ /\ staging[dig[w]] = None \/ Faults
        /\ ReturnErr(w, "seal")
        /\ UNCHANGED sealed
     \/ /\ staging[dig[w]] # None
        /\ Goto(w, "seal", "rename")
        /\ sealed' = [sealed EXCEPT ![staging[dig[w]]] = TRUE]
  /\ UNCHANGED <<data, flushed, nameVars, opVars, off, fd, reflink, readVars, envVars>>

\* Mutant of Rename: the insert is reported done before the directory fsync.
RenameEarly(w) ==
  /\ staging[dig[w]] # None
  /\ object' = [object EXCEPT ![dig[w]] = staging[dig[w]]]
  /\ durable' = [durable EXCEPT ![dig[w]] = FALSE]
  /\ Unlink(dig[w])
  /\ ReturnOk(w, "rename")
  /\ UNCHANGED <<inodeVars, opVars, off, fd, reflink, readVars, envVars>>

\* Create the fanout directory and rename.  A failed rename removes the staging
\* file, a failed create_dir_all leaves it.
Rename(w) ==
  /\ \/ /\ staging[dig[w]] # None
        /\ object' = [object EXCEPT ![dig[w]] = staging[dig[w]]]
        /\ durable' = [durable EXCEPT ![dig[w]] = FALSE]
        /\ Unlink(dig[w])
        /\ IF Synced THEN Goto(w, "rename", "dirsync") ELSE ReturnOk(w, "rename")
     \/ /\ staging[dig[w]] = None \/ Faults
        /\ ReturnErr(w, "rename")
        /\ Unlink(dig[w]) \/ UNCHANGED staging
        /\ UNCHANGED <<object, durable>>
  /\ UNCHANGED <<inodeVars, opVars, off, fd, reflink, readVars, envVars>>

\* fsync of the parent directory; its errors are ignored.
DirSync(w) ==
  /\ ReturnOk(w, "dirsync")
  /\ \/ durable' = [durable EXCEPT ![dig[w]] = TRUE]
     \/ Faults /\ UNCHANGED durable
  /\ UNCHANGED <<inodeVars, staging, object, opVars, off, fd, reflink, readVars, envVars>>

-----------------------------------------------------------------------------
(* get_bytes, and get_bytes_verified and get_tree, which answer "torn" with an
   error (CasError::Corrupt) where get_bytes returns the bytes.             *)

ReadOpen(r, d) ==
  /\ rpc[r] = "idle"
  /\ want' = [want EXCEPT ![r] = d]
  /\ \/ /\ object[d] = None
        /\ reply' = [reply EXCEPT ![r] = "missing"]
        /\ UNCHANGED <<rpc, rfd, roff>>
     \/ /\ object[d] # None
        /\ rfd' = [rfd EXCEPT ![r] = object[d]]
        /\ roff' = [roff EXCEPT ![r] = 1]
        /\ rpc' = [rpc EXCEPT ![r] = "opened"]
        /\ reply' = [reply EXCEPT ![r] = "none"]
  /\ UNCHANGED <<inodeVars, nameVars, pc, opVars, off, fd, reflink, failed, acked, envVars>>

\* One read(2) of fs::read.  What follows a wrong chunk makes no difference.
ReadData(r) ==
  /\ rpc[r] = "opened"
  /\ \/ /\ data[rfd[r]][roff[r]] = want[r] /\ roff[r] < NChunks
        /\ roff' = [roff EXCEPT ![r] = @ + 1]
        /\ UNCHANGED <<rpc, rfd, reply>>
     \/ /\ data[rfd[r]][roff[r]] # want[r] \/ roff[r] = NChunks
        /\ reply' = [reply EXCEPT ![r] =
                       IF data[rfd[r]][roff[r]] = want[r] THEN "whole" ELSE "torn"]
        /\ rpc' = [rpc EXCEPT ![r] = "idle"]
        /\ rfd' = [rfd EXCEPT ![r] = None]
        /\ UNCHANGED roff
  /\ UNCHANGED <<inodeVars, nameVars, pc, opVars, off, fd, reflink, failed, want,
                 acked, envVars>>

-----------------------------------------------------------------------------
(* The environment *)

\* The developer edits a file that put_file is working on.
Edit(w, d) ==
  /\ EditSources
  /\ pc[w] # "idle" /\ kind[w] = "file"
  /\ source' = [source EXCEPT ![w] = d]
  /\ UNCHANGED <<inodeVars, nameVars, pc, kind, dig, off, fd, reflink, failed,
                 readVars, acked, envVars>>

\* A writer dies at any point; the kernel closes its file.
Kill(w) ==
  /\ kills < MaxKills
  /\ pc[w] # "idle"
  /\ kills' = kills + 1
  /\ pc' = [pc EXCEPT ![w] = "idle"]
  /\ Close(w)
  /\ UNCHANGED <<inodeVars, nameVars, opVars, reflink, failed, readVars,
                 acked, powerCuts>>

\* Contents that were not flushed may be lost, renames that were not synced
\* may be undone, staging names may be gone.  Whatever is there afterwards is
\* what the disk holds.
PowerLoss ==
  /\ powerCuts < MaxPowerCuts
  /\ powerCuts' = powerCuts + 1
  /\ \E lost \in SUBSET {i \in Inodes : ~flushed[i]},
        undone \in SUBSET {d \in Digests : ~durable[d]},
        gone \in SUBSET Digests :
       /\ data' = [i \in Inodes |-> IF i \in lost THEN Empty ELSE data[i]]
       /\ object' = [d \in Digests |-> IF d \in undone THEN None ELSE object[d]]
       /\ staging' = [d \in Digests |->
            IF d \in gone THEN None
            ELSE IF d \in undone /\ staging[d] = None THEN object[d] ELSE staging[d]]
  /\ flushed' = [i \in Inodes |-> TRUE]
  /\ durable' = [d \in Digests |-> TRUE]
  /\ pc' = [w \in Writers |-> "idle"]
  /\ fd' = [w \in Writers |-> None]
  /\ off' = [w \in Writers |-> 1]
  /\ rpc' = [r \in Readers |-> "idle"]
  /\ rfd' = [r \in Readers |-> None]
  /\ UNCHANGED <<sealed, opVars, reflink, failed, want, roff, reply, acked, kills>>

-----------------------------------------------------------------------------

Step(w) ==
  \/ Has(w) \/ RemoveStaged(w) \/ CloneCreate(w) \/ CloneIoctl(w) \/ Fallback(w)
  \/ OpenStaged(w) \/ WriteChunk(w) \/ WriteFails(w) \/ WriteDone(w) \/ Fsync(w)
  \/ Seal(w) \/ Rename(w) \/ DirSync(w)

Writer(w) ==
  \/ \E k \in Kinds, d \in Owns[w] : Start(w, k, d)
  \/ Step(w)
  \/ \E d \in Digests : Edit(w, d)
  \/ Kill(w)

Reader(r) ==
  \/ \E d \in Digests : ReadOpen(r, d)
  \/ ReadData(r)

Next ==
  \/ \E w \in Writers : Writer(w)
  \/ \E r \in Readers : Reader(r)
  \/ PowerLoss

Spec == Init /\ [][Next]_vars
-----------------------------------------------------------------------------
(* Properties *)

\* Each digest is inserted by one writer: what Digest::shard's routing gives.
Exclusive ==
  \A v, w \in Writers : v # w => Owns[v] \cap Owns[w] = {}

\* An object holds exactly the content its digest names, from the moment it is
\* visible: writers cut short, failed writes, leftovers in tmp/ and clone
\* fallbacks never leave a partial or wrong one (store.rs:11-12, 616-617).
ObjectIntegrity ==
  \A d \in Digests : object[d] # None => data[object[d]] = Whole(d)

\* No writer holds a descriptor through which it could still write to a
\* committed object (insert_staged closes its file before the rename).
NoWriteReachesObject ==
  \A w \in Writers, d \in Digests : fd[w] # None => object[d] # fd[w]

\* No get_bytes returns anything but the whole object, and no verifying read
\* finds one corrupt (get_bytes trusts the name; store.rs:11-12).
ReadsAreWhole ==
  \A r \in Readers : reply[r] # "torn"

\* Every insert that returned Ok has its object in place, whole, even after
\* power losses (Durability::Synced, store.rs:53-54).
CompletedInsertSurvives ==
  \A d \in acked : object[d] # None /\ data[object[d]] = Whole(d)

\* An insert that meets no I/O fault and no rival does not fail, whatever an
\* earlier, killed insert left in tmp/ (store.rs:49-50).
RecreatedOnNextRun ==
  failed = {}

\* A committed object is never replaced, removed or rewritten by an insert:
\* outside power losses its name keeps its inode and the inode its chunks.
ObjectsImmutable ==
  [][\A d \in Digests : object[d] # None /\ powerCuts' = powerCuts =>
       /\ object'[d] = object[d]
       /\ data'[object[d]] = data[object[d]]]_vars

(***************************************************************************)
(* The store implements AtomicStore: a read takes effect when it opens the *)
(* object, an insert when it renames.                                      *)
(***************************************************************************)
Abstract == INSTANCE AtomicStore WITH
  stored <- {d \in Digests : object[d] # None},
  promised <- acked,
  answer <- [r \in Readers |-> IF rpc[r] = "opened" THEN "pending" ELSE reply[r]]

\* Every behaviour of the system-call-level store is one of the atomic store.
ImplementsAtomicStore == Abstract!Spec

\* A writer's next system call is always made eventually, and an idle writer
\* retries: the run that produced an object is run again.
FairSpec ==
  /\ Spec
  /\ \A w \in Writers : WF_vars(Step(w))
  /\ \A w \in Writers : \A d \in Owns[w], k \in Kinds : SF_vars(Start(w, k, d))

\* Everything that keeps being inserted is eventually in the store, through
\* kills at any point (store.rs:49-50, "they get recreated on the next run").
EventuallyStored ==
  \A w \in Writers : \A d \in Owns[w] : <>(object[d] # None)
=============================================================================
