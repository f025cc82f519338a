---------------------------- MODULE Materialize ----------------------------
(***************************************************************************)
(* ObjectStore::materialize_tree: writing the tree a digest names into a    *)
(* fresh directory, file by file, as a clone, a hardlink or a copy of the   *)
(* store's object.                                                          *)
(*                                                                          *)
(* Several calls run at once, in one process or in many. Each may fail at   *)
(* any system call or be killed between two of them, and leaves what it has *)
(* made so far. gc unlinks objects meanwhile, and build steps write to the  *)
(* workspaces that are finished.                                            *)
(***************************************************************************)
EXTENDS Naturals, Sequences, FiniteSets

CONSTANTS
    Jobs,         \* calls of materialize_tree
    Trees,        \* digests of trees
    Blobs,        \* digests of files
    Entries,      \* Entries[t]: the sequence of t's nodes in canonical order
    Roots,        \* the trees callers ask for
    Dests,        \* destination directories
    Foreign,      \* those on another filesystem than the store
    StoreClones,  \* whether the store's filesystem supports FICLONE
    MaxDepth,     \* MAX_DEPTH
    MaxMishaps,   \* bound on failing system calls, dying processes and objects
                  \* removed by gc, together
    None          \* no value

FileNode(b, x) == [kind |-> "file", digest |-> b, executable |-> x]
DirNode(t)     == [kind |-> "dir", digest |-> t]
SymlinkNode    == [kind |-> "symlink"]

Intents == {"OverlayLower", "PrivateInode"}

Digests == Trees \cup Blobs

Nodes == {FileNode(b, x) : b \in Blobs, x \in BOOLEAN}
           \cup {DirNode(t) : t \in Trees} \cup {SymlinkNode}

ASSUME GraphAssumption ==
    /\ Entries \in [Trees -> Seq(Nodes)]
    /\ Roots \subseteq Trees
    /\ Trees \cap Blobs = {}

ASSUME BoundsAssumption ==
    /\ Foreign \subseteq Dests
    /\ StoreClones \in BOOLEAN
    /\ {MaxDepth, MaxMishaps} \subseteq Nat
    /\ None \notin Digests \cup Dests \cup Nodes

VARIABLES
    objects,  \* the digests the store has a name for
    store,    \* the inode of each blob's object: its bytes and its mode
    files,    \* the files under the destinations: from paths to what is there
    caps,     \* Capabilities.reflink
    job,      \* the state of each call
    made,     \* per destination, what a call that returned Ok made there, or None
    mishaps   \* how many so far

vars == <<objects, store, files, caps, job, made, mishaps>>

(***************************************************************************)
(* A path is a destination and the positions of the entries that lead from  *)
(* it. A file is a name of the object's inode (ino is the blob) or has an   *)
(* inode of its own (ino is None), whose bytes and mode it carries.         *)
(***************************************************************************)
Path(d, at) == [dest |-> d, at |-> at]

Dir        == [kind |-> "dir"]
Symlink    == [kind |-> "symlink"]
Shared(b)  == [kind |-> "file", ino |-> b]
Own(c, m)  == [kind |-> "file", ino |-> None, data |-> c, mode |-> m]

Modes == {"0444", "0555", "0644", "0755"}

\* What a file contains and its mode, wherever they are kept
Inode(f) == IF f.ino = None THEN [data |-> f.data, mode |-> f.mode] ELSE store[f.ino]

Under(d) == {p \in DOMAIN files : p.dest = d}

Bind(p, f) == [q \in DOMAIN files \cup {p} |-> IF q = p THEN f ELSE files[q]]

(***************************************************************************)
(* The calls                                                                *)
(***************************************************************************)
Counters == {"reflinked", "hardlinked", "copied", "dirs", "symlinks"}

Idle == [pc |-> "idle", dest |-> None, root |-> None, intent |-> None,
         stack |-> <<>>, stats |-> [c \in Counters |-> 0], error |-> None]

\* MaterializeStats::record and the two counters that are kept in place
Counted(j, c) == [job[j].stats EXCEPT ![c] = @ + 1]

\* One activation of materialize_into: the directory it fills, the tree it
\* fills it from, and the next entry
Frame(at, t) == [at |-> at, tree |-> t, next |-> 1]

Top(j)   == Head(job[j].stack)
Node(j)  == Entries[Top(j).tree][Top(j).next]
Child(j) == Path(job[j].dest, Append(Top(j).at, Top(j).next))

Goto(j, pc) == job' = [job EXCEPT ![j].pc = pc]

\* The ? operator: every level returns the error and removes nothing
Fail(j, error) == job' = [job EXCEPT ![j].pc = "failed", ![j].error = error,
                                     ![j].stack = <<>>]

\* The entry is done: on to the next one
Advance(stack) == [stack EXCEPT ![1].next = @ + 1]

NextEntry(j, stats) ==
    job' = [job EXCEPT ![j].pc = "loop", ![j].stats = stats, ![j].stack = Advance(@)]

\* Something goes wrong: a system call fails for a reason of its own, a process
\* dies, an object is removed
Fault == mishaps < MaxMishaps /\ mishaps' = mishaps + 1
NoFault == UNCHANGED mishaps

\* Mutant: an existing destination is removed first.
StartReplaces(j, d, t, intent) ==
    /\ job[j].pc = "idle"
    /\ job' = [job EXCEPT ![j] =
         [Idle EXCEPT !.pc = "mkdir", !.dest = d, !.root = t, !.intent = intent,
                      !.stack = <<Frame(<<>>, t)>>]]
    /\ files' = [p \in DOMAIN files \ Under(d) |-> files[p]]
    /\ UNCHANGED <<objects, store, caps, made, mishaps>>

Start(j, d, t, intent) ==
    /\ job[j].pc = "idle"
    /\ job' = [job EXCEPT ![j] =
         IF Path(d, <<>>) \in DOMAIN files
           THEN [Idle EXCEPT !.pc = "failed", !.error = "DestinationExists"]
           ELSE [Idle EXCEPT !.pc = "mkdir", !.dest = d, !.root = t, !.intent = intent,
                             !.stack = <<Frame(<<>>, t)>>]]
    /\ UNCHANGED <<objects, store, files, caps, made, mishaps>>

MakeDir(j, stats) ==
    /\ files' = Bind(Path(job[j].dest, Top(j).at), Dir)
    /\ job' = [job EXCEPT ![j].pc = "load", ![j].stats = stats]
    /\ NoFault

\* Mutant: create_dir_all, which accepts a directory that is there.
EnterDirAll(j) ==
    /\ job[j].pc = "mkdir"
    /\ Len(Top(j).at) <= MaxDepth
    /\ MakeDir(j, Counted(j, "dirs"))
    /\ UNCHANGED <<objects, store, caps, made>>

\* fs::create_dir, after the check of the depth; the root's depth is 0
EnterDir(j) ==
    /\ job[j].pc = "mkdir"
    /\ LET p == Path(job[j].dest, Top(j).at)
       IN  \/ /\ Len(Top(j).at) > MaxDepth
              /\ Fail(j, "TreeTooDeep")
              /\ NoFault
              /\ UNCHANGED files
           \/ /\ Len(Top(j).at) <= MaxDepth
              /\ \/ p \in DOMAIN files /\ NoFault
                 \/ Fault
              /\ Fail(j, "CreateDir")
              /\ UNCHANGED files
           \/ /\ Len(Top(j).at) <= MaxDepth
              /\ p \notin DOMAIN files
              /\ MakeDir(j, Counted(j, "dirs"))
    /\ UNCHANGED <<objects, store, caps, made>>

\* get_tree: the manifest is missing, or cannot be read or is damaged, or is
\* what the digest names; it is read and verified in one go, see Cas
LoadTree(j) ==
    /\ job[j].pc = "load"
    /\ \/ Top(j).tree \in objects /\ NoFault /\ Goto(j, "loop")
       \/ Top(j).tree \notin objects /\ NoFault /\ Fail(j, "Missing")
       \/ Fault /\ Fail(j, "get_tree")
    /\ UNCHANGED <<objects, store, files, caps, made>>

\* The loop over the entries: a file's object is looked up, a directory is a
\* recursive call, a symlink is made at once
VisitFile(j) ==
    /\ Node(j).kind = "file"
    /\ IF Node(j).digest \in objects
         THEN Goto(j, "place")
         ELSE Fail(j, "Missing")
    /\ NoFault
    /\ UNCHANGED files

VisitDir(j) ==
    /\ Node(j).kind = "dir"
    /\ job' = [job EXCEPT ![j].pc = "mkdir",
                          ![j].stack = <<Frame(Child(j).at, Node(j).digest)>> \o @]
    /\ NoFault
    /\ UNCHANGED files

VisitSymlink(j) ==
    /\ Node(j).kind = "symlink"
    /\ \/ Fault /\ Fail(j, "symlink") /\ UNCHANGED files
       \/ /\ NoFault
          /\ files' = Bind(Child(j), Symlink)
          /\ NextEntry(j, Counted(j, "symlinks"))

Visit(j) ==
    /\ job[j].pc = "loop"
    /\ Top(j).next <= Len(Entries[Top(j).tree])
    /\ VisitFile(j) \/ VisitDir(j) \/ VisitSymlink(j)
    /\ UNCHANGED <<objects, store, caps, made>>

\* The end of the loop: back to the caller's loop, or Ok
Leave(j) ==
    /\ job[j].pc = "loop"
    /\ Top(j).next > Len(Entries[Top(j).tree])
    /\ IF Len(job[j].stack) = 1
         THEN /\ job' = [job EXCEPT ![j].pc = "done", ![j].stack = <<>>]
              /\ made' = [made EXCEPT ![job[j].dest] =
                   [root |-> job[j].root, intent |-> job[j].intent, stats |-> job[j].stats]]
         ELSE /\ job' = [job EXCEPT ![j].pc = "loop", ![j].stack = Advance(Tail(@))]
              /\ UNCHANGED made
    /\ UNCHANGED <<objects, store, files, caps, mishaps>>

(***************************************************************************)
(* link::materialize: a clone, else a hardlink where that is allowed, else  *)
(* a copy. The path is new, so the remove_file it starts with finds nothing.*)
(***************************************************************************)

\* An executable entry never shares the object's inode
PlaceIntent(j) == IF Node(j).executable THEN "PrivateInode" ELSE job[j].intent

\* Mutant: the intent is not looked at.
AfterCloneAlwaysLinks(j) == "link"

AfterClone(j) == IF PlaceIntent(j) = "OverlayLower" THEN "link" ELSE "copy"

Source(j) == Node(j).digest
Clones(j) == StoreClones /\ job[j].dest \notin Foreign

\* raw_reflink: the source is opened, the file created and cloned, or removed
\* again. is_unsupported errors are remembered and the next mechanism tried,
\* all others fail the call. One step: nobody else has the destination; a process
\* that dies between two of its calls leaves what a failing removal leaves.
CloneWorks(j) ==
    /\ Source(j) \in objects
    /\ Clones(j)
    /\ NoFault
    /\ caps' = "yes"
    /\ files' = Bind(Child(j), Own(store[Source(j)].data, "0644"))
    /\ job' = [job EXCEPT ![j].pc = "chmod", ![j].stats = Counted(j, "reflinked")]

CloneUnsupported(j) ==
    /\ Source(j) \in objects
    /\ ~Clones(j)
    /\ NoFault
    /\ caps' = "no"
    /\ Goto(j, AfterClone(j))
    /\ UNCHANGED files

CloneFails(j) ==
    /\ \/ Source(j) \notin objects /\ NoFault /\ UNCHANGED files
       \/ Fault /\ UNCHANGED files
       \/ /\ Source(j) \in objects
          /\ Fault
          /\ files' = Bind(Child(j), Own(None, "0644"))
    /\ Fail(j, "clone")
    /\ UNCHANGED caps

Clone(j) ==
    /\ job[j].pc = "place"
    /\ caps # "no"
    /\ CloneWorks(j) \/ CloneUnsupported(j) \/ CloneFails(j)
    /\ UNCHANGED <<objects, store, made>>

SkipClone(j) ==
    /\ job[j].pc = "place"
    /\ caps = "no"
    /\ Goto(j, AfterClone(j))
    /\ UNCHANGED <<objects, store, files, caps, made, mishaps>>

\* fs::hard_link: EXDEV, EMLINK and EPERM lead to the copy
Link(j) ==
    /\ job[j].pc = "link"
    /\ \/ /\ Source(j) \in objects
          /\ job[j].dest \notin Foreign
          /\ NoFault
          /\ files' = Bind(Child(j), Shared(Source(j)))
          /\ NextEntry(j, Counted(j, "hardlinked"))
       \/ /\ Source(j) \in objects
          /\ (job[j].dest \in Foreign /\ NoFault) \/ Fault
          /\ Goto(j, "copy")
          /\ UNCHANGED files
       \/ /\ (Source(j) \notin objects /\ NoFault) \/ Fault
          /\ Fail(j, "link")
          /\ UNCHANGED files
    /\ UNCHANGED <<objects, store, caps, made>>

\* fs::copy takes over the object's mode; a copy that fails leaves the file
Copy(j) ==
    /\ job[j].pc = "copy"
    /\ \/ /\ Source(j) \in objects
          /\ NoFault
          /\ files' = Bind(Child(j), Own(store[Source(j)].data, store[Source(j)].mode))
          /\ job' = [job EXCEPT ![j].pc = "chmod", ![j].stats = Counted(j, "copied")]
       \/ /\ Source(j) \in objects
          /\ Fault
          /\ files' = Bind(Child(j), Own(None, store[Source(j)].mode))
          /\ Fail(j, "copy")
       \/ /\ Source(j) \notin objects
          /\ NoFault
          /\ Fail(j, "copy")
          /\ UNCHANGED files
    /\ UNCHANGED <<objects, store, caps, made>>

\* The mode a file of its own gets
Want(intent, executable) ==
    CASE intent = "PrivateInode" /\ ~executable -> "0644"
      [] intent = "PrivateInode" /\ executable  -> "0755"
      [] intent = "OverlayLower" /\ ~executable -> "0444"
      [] intent = "OverlayLower" /\ executable  -> "0555"

Chmod(j) ==
    /\ job[j].pc = "chmod"
    /\ \/ /\ NoFault
          /\ files' = [files EXCEPT ![Child(j)].mode = Want(job[j].intent, Node(j).executable)]
          /\ NextEntry(j, job[j].stats)
       \/ Fault /\ Fail(j, "chmod") /\ UNCHANGED files
    /\ UNCHANGED <<objects, store, caps, made>>

Step(j) ==
    \/ EnterDir(j) \/ LoadTree(j) \/ Visit(j) \/ Leave(j)
    \/ Clone(j) \/ SkipClone(j) \/ Link(j) \/ Copy(j) \/ Chmod(j)

Running(j) == job[j].pc \notin {"idle", "done", "failed"}

\* The result is in the caller's hands
Return(j) ==
    /\ job[j].pc \in {"done", "failed"}
    /\ job' = [job EXCEPT ![j] = Idle]
    /\ UNCHANGED <<objects, store, files, caps, made, mishaps>>

(***************************************************************************)
(* The environment                                                          *)
(***************************************************************************)

\* The process dies
Kill(j) ==
    /\ Running(j)
    /\ Fault
    /\ job' = [job EXCEPT ![j] = Idle]
    /\ UNCHANGED <<objects, store, files, caps, made>>

\* gc removes an object's name; its inode lives on in other names
Unlink(o) ==
    /\ o \in objects
    /\ Fault
    /\ objects' = objects \ {o}
    /\ UNCHANGED <<store, files, caps, job, made>>

\* A build step writes to a file of a finished workspace: to one that belongs
\* to it, whatever the mode, as it may change that, and by accident to a
\* lowerdir, where the mode decides
Write(p) ==
    /\ made[p.dest] # None
    /\ files[p].kind = "file"
    /\ made[p.dest].intent = "PrivateInode" \/ Inode(files[p]).mode \in {"0644", "0755"}
    /\ IF files[p].ino = None
         THEN files' = [files EXCEPT ![p].data = "edited"] /\ UNCHANGED store
         ELSE store' = [store EXCEPT ![files[p].ino].data = "edited"] /\ UNCHANGED files
    /\ UNCHANGED <<objects, caps, job, made, mishaps>>

\* Whoever owns a destination removes it with all it holds, between two calls
Clean(d) ==
    /\ Path(d, <<>>) \in DOMAIN files
    /\ \A j \in Jobs : ~(Running(j) /\ job[j].dest = d)
    /\ files' = [p \in DOMAIN files \ Under(d) |-> files[p]]
    /\ made' = [made EXCEPT ![d] = None]
    /\ UNCHANGED <<objects, store, caps, job, mishaps>>

(***************************************************************************)
(* The specification                                                        *)
(***************************************************************************)

\* Capabilities::probe clones a file inside the store. A probe that fails, by
\* a fault or by another process that probes with the same two names, leaves
\* the capability unknown.
Probe == {IF StoreClones THEN "yes" ELSE "no", "unknown"}

Init ==
    /\ objects = Digests
    /\ store = [b \in Blobs |-> [data |-> b, mode |-> "0444"]]
    /\ files = [p \in {} |-> Dir]
    /\ caps \in Probe
    /\ job = [j \in Jobs |-> Idle]
    /\ made = [d \in Dests |-> None]
    /\ mishaps = 0

Next ==
    \/ \E j \in Jobs :
         \/ \E d \in Dests, t \in Roots, i \in Intents : Start(j, d, t, i)
         \/ Step(j)
         \/ Return(j)
         \/ Kill(j)
    \/ \E o \in Digests : Unlink(o)
    \/ \E p \in DOMAIN files : Write(p)
    \/ \E d \in Dests : Clean(d)

Spec == Init /\ [][Next]_vars

(***************************************************************************)
(* What is checked                                                          *)
(***************************************************************************)

\* The node that a path from the root of tree t leads to, or None
Resolve(t, at) ==
    LET To[n \in 0 .. Len(at)] ==
          IF n = 0 THEN DirNode(t)
          ELSE IF To[n - 1] # None /\ To[n - 1].kind = "dir"
                    /\ at[n] <= Len(Entries[To[n - 1].digest])
            THEN Entries[To[n - 1].digest][at[n]]
            ELSE None
    IN  To[Len(at)]

\* f is what node promises: a file has the blob's bytes, until a step that
\* owns it has written to it, and the mode of its kind and its intent
Matches(f, node, intent) ==
    /\ node # None
    /\ f.kind = node.kind
    /\ f.kind = "file" =>
         /\ Inode(f).mode = Want(intent, node.executable)
         /\ \/ Inode(f).data = node.digest
            \/ Inode(f).data = "edited" /\ intent = "PrivateInode"

\* The statistics s are those of the files under d: a hardlink is counted as one,
\* everything else as a file of its own
StatsMatch(d, s) ==
    LET Count(P(_)) == Cardinality({p \in Under(d) : P(files[p])})
    IN  /\ s["dirs"] = Count(LAMBDA f : f.kind = "dir")
        /\ s["symlinks"] = Count(LAMBDA f : f.kind = "symlink")
        /\ s["hardlinked"] = Count(LAMBDA f : f.kind = "file" /\ f.ino # None)
        /\ s["reflinked"] + s["copied"] = Count(LAMBDA f : f.kind = "file" /\ f.ino = None)

TypeOK ==
    /\ objects \subseteq Digests
    /\ store \in [Blobs -> [data : Blobs \cup {"edited"}, mode : Modes]]
    /\ \A p \in DOMAIN files :
         /\ p.dest \in Dests
         /\ files[p] \in {Dir, Symlink} \cup {Shared(b) : b \in Blobs}
                         \cup {Own(c, m) : c \in Blobs \cup {None, "edited"}, m \in Modes}
    /\ caps \in {"unknown", "yes", "no"}
    /\ \A j \in Jobs :
         /\ job[j].pc \in {"idle", "mkdir", "load", "loop", "place", "link", "copy",
                           "chmod", "done", "failed"}
         /\ Running(j) <=> job[j].stack # <<>>
         /\ job[j].dest \in Dests \cup {None}
         /\ job[j].intent \in Intents \cup {None}
         /\ job[j].pc # "mkdir" => Len(job[j].stack) <= MaxDepth + 1
    /\ DOMAIN made = Dests
    /\ mishaps \in 0 .. MaxMishaps

\* No write of a step reaches the store: every object keeps its bytes and its
\* mode, whichever mechanism placed the files steps write to (link.rs, "The
\* hardlink trap").
StoreUntouched == \A b \in Blobs : store[b] = [data |-> b, mode |-> "0444"]

\* A call that returned Ok has made exactly the tree: every entry is there with
\* its bytes and its mode, and nothing else is. So no call completes on top of
\* what an earlier one left half-way, and none runs in another's directory. It is
\* no deeper than the bound, and the statistics are those of what is there.
CompletedIsExact ==
    \A d \in Dests : made[d] # None =>
        /\ Path(d, <<>>) \in DOMAIN files
        /\ StatsMatch(d, made[d].stats)
        /\ \A p \in Under(d) :
             LET node == Resolve(made[d].root, p.at)
             IN  /\ Matches(files[p], node, made[d].intent)
                 /\ node.kind = "dir" =>
                      /\ Len(p.at) <= MaxDepth
                      /\ \A i \in 1 .. Len(Entries[node.digest]) :
                           Path(d, Append(p.at, i)) \in DOMAIN files

\* A finished workspace belongs to its steps: no other call, no kill and no gc
\* changes it, only a step's own write or its removal.
CompletedUndisturbed ==
    [][\A d \in Dests : made[d] # None /\ made'[d] # None =>
         \A p \in Under(d) :
             /\ p \in DOMAIN files'
             /\ files'[p].kind = files[p].kind
             /\ files[p].kind = "file" =>
                  /\ files'[p].ino = files[p].ino
                  /\ made[d].intent = "OverlayLower" => Inode(files[p])' = Inode(files[p])]_vars

\* After a failed probe no clone is attempted (store.rs, "fall back to assuming
\* no reflink"): no call fails for a clone while the capability is unknown.
FailedProbeCopies == \A j \in Jobs : job[j].error = "clone" => caps # "unknown"

\* The remembered capability is that of the store's filesystem (link.rs,
\* "Whether the filesystem under the store supports FICLONE").
CapabilityHonest == caps = "no" => ~StoreClones
=============================================================================
