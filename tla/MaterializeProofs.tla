------------------------- MODULE MaterializeProofs --------------------------
(***************************************************************************)
(* Proofs about Materialize, for any trees, destinations, calls and faults. *)
(***************************************************************************)
EXTENDS Materialize, TLAPS, FiniteSetTheorems

(***************************************************************************)
(* The inductive invariant                                                  *)
(***************************************************************************)
Pcs == {"idle", "mkdir", "load", "loop", "place", "link", "copy", "chmod", "done", "failed"}
Over == {"idle", "done", "failed"}
Placing == {"place", "link", "copy", "chmod"}
Errors == {"DestinationExists", "TreeTooDeep", "CreateDir", "Missing", "get_tree", "symlink",
           "clone", "link", "copy", "chmod"}

FrameSet == [at : Seq(Nat), tree : Trees, next : Nat \ {0}]
JobSet == [pc : Pcs, dest : Dests \cup {None}, root : Trees \cup {None},
           intent : Intents \cup {None}, stack : Seq(FrameSet),
           stats : [Counters -> Nat], error : Errors \cup {None}]

\* The entry that a call with state r is at, and the path it makes
NodeOf(r)  == Entries[Head(r.stack).tree][Head(r.stack).next]
ChildOf(r) == Path(r.dest, Append(Head(r.stack).at, Head(r.stack).next))

\* A call that has made its destination, and is not over
Inside(r) == r.pc \notin Over /\ ~(r.pc = "mkdir" /\ Head(r.stack).at = <<>>)

JobOK(r) ==
    /\ r \in JobSet
    /\ r.pc \notin Over => r.stack # <<>> /\ r.dest \in Dests /\ r.intent \in Intents
    /\ r.pc = "link" => r.intent = "OverlayLower"
    /\ r.pc \in Placing => /\ NodeOf(r).kind = "file" /\ NodeOf(r).digest \in Blobs
                           /\ NodeOf(r).executable \in BOOLEAN

JobsInv == /\ job = [j \in Jobs |-> job[j]]
           /\ \A j \in Jobs : JobOK(job[j])

SharedSet == [kind : {"file"}, ino : Blobs]
OwnSet == [kind : {"file"}, ino : {None}, data : Blobs \cup {None, "edited"}, mode : Modes]
FileSet == {Dir, Symlink} \cup SharedSet \cup OwnSet

\* Files are under destinations that have been made
FilesInv ==
    /\ files = [p \in DOMAIN files |-> files[p]]
    /\ \A p \in DOMAIN files :
         files[p] \in FileSet /\ p.dest \in Dests /\ Path(p.dest, <<>>) \in DOMAIN files

\* A destination belongs to one call until that is over, or to the steps of the
\* call that completed it
OwnerInv ==
    /\ \A j \in Jobs : Inside(job[j]) =>
         Path(job[j].dest, <<>>) \in DOMAIN files /\ made[job[j].dest] = None
    /\ \A j, k \in Jobs : Inside(job[j]) /\ Inside(job[k]) /\ job[j].dest = job[k].dest => j = k
    /\ made = [d \in Dests |-> made[d]]
    /\ \A d \in Dests : made[d] # None => Path(d, <<>>) \in DOMAIN files

\* What is written next is a file of its own
ChmodInv ==
    \A j \in Jobs : job[j].pc = "chmod" =>
        ChildOf(job[j]) \in DOMAIN files /\ files[ChildOf(job[j])] \in OwnSet

\* Names of objects are in lowerdirs only
SharedInv ==
    \A p \in DOMAIN files : files[p] \in SharedSet =>
        /\ \A j \in Jobs : Inside(job[j]) /\ job[j].dest = p.dest => job[j].intent = "OverlayLower"
        /\ made[p.dest] # None => made[p.dest].intent = "OverlayLower"

\* A lowerdir's own files are read-only, but for the one just made
Sealed == {"0444", "0555"}
SealedInv ==
    \A p \in DOMAIN files : files[p] \in OwnSet /\ files[p].mode \notin Sealed =>
        /\ \A j \in Jobs : Inside(job[j]) /\ job[j].dest = p.dest =>
             job[j].intent # "OverlayLower" \/ (job[j].pc = "chmod" /\ p = ChildOf(job[j]))
        /\ made[p.dest] # None => made[p.dest].intent # "OverlayLower"

StoreInv == store = [b \in Blobs |-> [data |-> b, mode |-> "0444"]]

IInv == JobsInv /\ FilesInv /\ OwnerInv /\ ChmodInv /\ SharedInv /\ SealedInv /\ StoreInv

(***************************************************************************)
(* Lemmas                                                                   *)
(***************************************************************************)
LEMMA Members ==
    /\ \A b \in Blobs : b # None
    /\ \A d \in Dests : d # None
BY BoundsAssumption DEF Digests

LEMMA FileKinds ==
    /\ Dir \notin SharedSet \cup OwnSet /\ Symlink \notin SharedSet \cup OwnSet
    /\ \A f \in SharedSet : f \notin OwnSet /\ f.kind = "file" /\ f.ino # None
    /\ \A f \in OwnSet : f.kind = "file" /\ f.ino = None
<1>1. \A f \in SharedSet : f.kind = "file" /\ f.ino \in Blobs
  BY DEF SharedSet
<1>2. \A f \in OwnSet : f.kind = "file" /\ f.ino = None
  BY DEF OwnSet
<1>3. Dir.kind # "file" /\ Symlink.kind # "file"
  BY DEF Dir, Symlink
<1>. QED
  BY <1>1, <1>2, <1>3, Members

LEMMA PathFields ==
  ASSUME NEW d, NEW at
  PROVE  Path(d, at).dest = d /\ Path(d, at).at = at
BY DEF Path

\* An entry of a tree that a call is at
LEMMA NodeIs ==
  ASSUME NEW r, JobOK(r), r.pc = "loop", Head(r.stack).next <= Len(Entries[Head(r.stack).tree])
  PROVE  /\ NodeOf(r).kind = "file" =>
              NodeOf(r).digest \in Blobs /\ NodeOf(r).executable \in BOOLEAN
         /\ NodeOf(r).kind = "dir" => NodeOf(r).digest \in Trees
<1> DEFINE f == Head(r.stack)
           s == Entries[f.tree]
<1>1. f \in FrameSet
  <2>1. r.stack \in Seq(FrameSet) /\ r.stack # <<>>
    BY DEF JobOK, JobSet, Over
  <2>. QED
    BY <2>1
<1>2. f.tree \in Trees /\ f.next \in Nat \ {0}
  BY <1>1 DEF FrameSet
<1>3. s \in Seq(Nodes)
  BY <1>2, GraphAssumption
<1>4. f.next \in 1 .. Len(s)
  BY <1>2, <1>3
<1>5. NodeOf(r) \in Nodes
  <2>1. s[f.next] \in Nodes
    BY <1>3, <1>4
  <2>. QED
    BY <2>1 DEF NodeOf
<1>6. \/ \E b \in Blobs, x \in BOOLEAN : NodeOf(r) = FileNode(b, x)
      \/ \E t \in Trees : NodeOf(r) = DirNode(t)
      \/ NodeOf(r) = SymlinkNode
  BY <1>5 DEF Nodes
<1>. QED
  BY <1>6 DEF FileNode, DirNode, SymlinkNode

LEMMA AdvanceFacts ==
  ASSUME NEW s \in Seq(FrameSet), s # <<>>
  PROVE  Advance(s) \in Seq(FrameSet) /\ Advance(s) # <<>>
<1>1. Len(s) \in Nat \ {0} /\ DOMAIN s = 1 .. Len(s) /\ s \in [1 .. Len(s) -> FrameSet]
  OBVIOUS
<1>2. s[1] \in FrameSet
  BY <1>1
<1>3. ASSUME NEW old \in FrameSet, NEW n, n = old.next + 1, NEW f, f = [old EXCEPT !.next = n]
      PROVE  f \in FrameSet
  <2>1. old.at \in Seq(Nat) /\ old.tree \in Trees /\ n \in Nat \ {0}
    BY <1>3 DEF FrameSet
  <2>2. f = [at |-> old.at, tree |-> old.tree, next |-> n]
    BY <1>3 DEF FrameSet
  <2>. QED
    BY <2>1, <2>2, Zenon DEF FrameSet
<1> DEFINE f == [s[1] EXCEPT !.next = s[1].next + 1]
           t == [s EXCEPT ![1] = f]
<1>4. f \in FrameSet
  BY <1>2, <1>3
<1>5. Advance(s) = t
  BY DEF Advance
<1> HIDE DEF f
<1>6. t \in [1 .. Len(s) -> FrameSet]
  BY <1>1, <1>4
<1>7. t \in Seq(FrameSet) /\ t # <<>>
  BY <1>1, <1>6
<1>. QED
  BY <1>5, <1>7

LEMMA IdleOK == JobOK(Idle) /\ ~Inside(Idle)
<1>1. /\ "idle" \in Pcs /\ None \in Dests \cup {None} /\ None \in Trees \cup {None}
      /\ None \in Intents \cup {None} /\ <<>> \in Seq(FrameSet)
      /\ [c \in Counters |-> 0] \in [Counters -> Nat] /\ None \in Errors \cup {None}
  BY DEF Pcs
<1>2. Idle \in JobSet
  BY <1>1, Zenon DEF Idle, JobSet
<1>3. Idle.pc = "idle"
  BY DEF Idle
<1>. QED
  BY <1>2, <1>3 DEF JobOK, Inside, Over, Placing

\* A call's state, updated field by field
LEMMA SetStats ==
  ASSUME NEW r \in JobSet, NEW p, NEW stats, NEW n, n = [r EXCEPT !.pc = p, !.stats = stats]
  PROVE  n = [pc |-> p, dest |-> r.dest, root |-> r.root, intent |-> r.intent,
              stack |-> r.stack, stats |-> stats, error |-> r.error]
BY DEF JobSet

LEMMA SetStack ==
  ASSUME NEW r \in JobSet, NEW p, NEW stack, NEW n, n = [r EXCEPT !.pc = p, !.stack = stack]
  PROVE  n = [pc |-> p, dest |-> r.dest, root |-> r.root, intent |-> r.intent,
              stack |-> stack, stats |-> r.stats, error |-> r.error]
BY DEF JobSet

LEMMA SetError ==
  ASSUME NEW r \in JobSet, NEW p, NEW error, NEW stack, NEW n,
         n = [r EXCEPT !.pc = p, !.error = error, !.stack = stack]
  PROVE  n = [pc |-> p, dest |-> r.dest, root |-> r.root, intent |-> r.intent,
              stack |-> stack, stats |-> r.stats, error |-> error]
BY DEF JobSet

\* Call j goes to state n, at pc with the given stack and statistics
To(j, n, pc, stack, stats) ==
    /\ job' = [job EXCEPT ![j] = n]
    /\ n.pc = pc /\ n.stack = stack /\ n.stats = stats
    /\ n.dest = job[j].dest /\ n.intent = job[j].intent /\ n.root = job[j].root

\* What the helpers of the actions make of a call
LEMMA Moves ==
  ASSUME JobsInv, NEW j \in Jobs, NEW pc \in Pcs
  PROVE  /\ Goto(j, pc) => \E n \in JobSet : To(j, n, pc, job[j].stack, job[j].stats)
         /\ \A error \in Errors :
              Fail(j, error) => \E n \in JobSet : To(j, n, "failed", <<>>, job[j].stats)
         /\ \A stats \in [Counters -> Nat] :
              job' = [job EXCEPT ![j].pc = pc, ![j].stats = stats] =>
                \E n \in JobSet : To(j, n, pc, job[j].stack, stats)
         /\ \A stack \in Seq(FrameSet) :
              job' = [job EXCEPT ![j].pc = pc, ![j].stack = stack] =>
                \E n \in JobSet : To(j, n, pc, stack, job[j].stats)
         /\ \A stats \in [Counters -> Nat] :
              job[j].stack # <<>> /\ NextEntry(j, stats) =>
                \E n \in JobSet : To(j, n, "loop", Advance(job[j].stack), stats)
<1>0. job = [k \in Jobs |-> job[k]] /\ job[j] \in JobSet
  BY DEF JobsInv, JobOK
<1>1. /\ job[j].stack \in Seq(FrameSet) /\ job[j].stats \in [Counters -> Nat]
      /\ job[j].error \in Errors \cup {None} /\ job[j].dest \in Dests \cup {None}
      /\ job[j].root \in Trees \cup {None} /\ job[j].intent \in Intents \cup {None}
      /\ "failed" \in Pcs /\ "loop" \in Pcs /\ <<>> \in Seq(FrameSet)
  BY <1>0 DEF JobSet, Pcs
<1> DEFINE State(p, stack, stats, error) ==
             [pc |-> p, dest |-> job[j].dest, root |-> job[j].root, intent |-> job[j].intent,
              stack |-> stack, stats |-> stats, error |-> error]
<1>s. ASSUME NEW p \in Pcs, NEW stack \in Seq(FrameSet), NEW stats \in [Counters -> Nat],
             NEW error \in Errors \cup {None},
             job' = [job EXCEPT ![j] = State(p, stack, stats, error)]
      PROVE  \E n \in JobSet : To(j, n, p, stack, stats)
  <2> DEFINE n == State(p, stack, stats, error)
  <2>1. n \in JobSet
    BY <1>1, Zenon DEF JobSet
  <2>2. /\ n.pc = p /\ n.stack = stack /\ n.stats = stats
        /\ n.dest = job[j].dest /\ n.intent = job[j].intent /\ n.root = job[j].root
    OBVIOUS
  <2>3. job' = [job EXCEPT ![j] = n]
    BY <1>s
  <2> HIDE DEF n
  <2>4. To(j, n, p, stack, stats)
    BY <2>2, <2>3 DEF To
  <2>. QED
    BY <2>1, <2>4
<1> HIDE DEF State
<1>2. ASSUME Goto(j, pc)
      PROVE  \E n \in JobSet : To(j, n, pc, job[j].stack, job[j].stats)
  <2> DEFINE n == State(pc, job[j].stack, job[j].stats, job[j].error)
  <2>1. [job[j] EXCEPT !.pc = pc] = n
    BY <1>0 DEF JobSet, State
  <2>2. job' = [job EXCEPT ![j] = [job[j] EXCEPT !.pc = pc]]
    BY <1>0, <1>2 DEF Goto
  <2>3. job' = [job EXCEPT ![j] = n]
    BY <2>1, <2>2
  <2>. QED
    BY <1>1, <1>s, <1>2, <2>3
<1>3. ASSUME NEW error \in Errors, Fail(j, error)
      PROVE  \E n \in JobSet : To(j, n, "failed", <<>>, job[j].stats)
  <2> DEFINE n == State("failed", <<>>, job[j].stats, error)
  <2>1. [job[j] EXCEPT !.pc = "failed", !.error = error, !.stack = <<>>] = n
    BY <1>0, SetError DEF State
  <2>2. job' = [job EXCEPT ![j] = [job[j] EXCEPT !.pc = "failed", !.error = error, !.stack = <<>>]]
    BY <1>0, <1>3 DEF Fail, JobSet
  <2>3. job' = [job EXCEPT ![j] = n]
    BY <2>1, <2>2
  <2>. QED
    BY <1>1, <1>s, <1>3, <2>3
<1>4. ASSUME NEW stats \in [Counters -> Nat],
             job' = [job EXCEPT ![j].pc = pc, ![j].stats = stats]
      PROVE  \E n \in JobSet : To(j, n, pc, job[j].stack, stats)
  <2> DEFINE n == State(pc, job[j].stack, stats, job[j].error)
  <2>1. [job[j] EXCEPT !.pc = pc, !.stats = stats] = n
    BY <1>0, SetStats DEF State
  <2>2. job' = [job EXCEPT ![j] = [job[j] EXCEPT !.pc = pc, !.stats = stats]]
    BY <1>0, <1>4 DEF JobSet
  <2>3. job' = [job EXCEPT ![j] = n]
    BY <2>1, <2>2
  <2>. QED
    BY <1>1, <1>s, <1>4, <2>3
<1>5. ASSUME NEW stack \in Seq(FrameSet),
             job' = [job EXCEPT ![j].pc = pc, ![j].stack = stack]
      PROVE  \E n \in JobSet : To(j, n, pc, stack, job[j].stats)
  <2> DEFINE n == State(pc, stack, job[j].stats, job[j].error)
  <2>1. [job[j] EXCEPT !.pc = pc, !.stack = stack] = n
    BY <1>0, SetStack DEF State
  <2>2. job' = [job EXCEPT ![j] = [job[j] EXCEPT !.pc = pc, !.stack = stack]]
    BY <1>0, <1>5 DEF JobSet
  <2>3. job' = [job EXCEPT ![j] = n]
    BY <2>1, <2>2
  <2>. QED
    BY <1>1, <1>s, <1>5, <2>3
<1>6. ASSUME NEW stats \in [Counters -> Nat], job[j].stack # <<>>, NextEntry(j, stats)
      PROVE  \E n \in JobSet : To(j, n, "loop", Advance(job[j].stack), stats)
  <2> DEFINE t == Advance(job[j].stack)
             n == State("loop", t, stats, job[j].error)
  <2>1. job' = [job EXCEPT ![j] = [job[j] EXCEPT !.pc = "loop", !.stats = stats, !.stack = t]]
    BY <1>0, <1>6 DEF NextEntry, JobSet
  <2>2. t \in Seq(FrameSet)
    BY <1>1, <1>6, AdvanceFacts
  <2> HIDE DEF t
  <2>3. [job[j] EXCEPT !.pc = "loop", !.stats = stats, !.stack = t] = n
    <3>1. ASSUME NEW r \in JobSet, NEW m, m = [r EXCEPT !.pc = "loop", !.stats = stats, !.stack = t]
          PROVE  m = [pc |-> "loop", dest |-> r.dest, root |-> r.root, intent |-> r.intent,
                      stack |-> t, stats |-> stats, error |-> r.error]
      BY <3>1 DEF JobSet
    <3>. QED
      BY <1>0, <3>1 DEF State
  <2>4. job' = [job EXCEPT ![j] = n]
    BY <2>1, <2>3
  <2>5. \E m \in JobSet : To(j, m, "loop", t, stats)
    BY <1>1, <1>s, <1>6, <2>2, <2>4
  <2>. QED
    BY <2>5 DEF t
<1>. QED
  BY <1>2, <1>3, <1>4, <1>5, <1>6

(***************************************************************************)
(* What a step of call j, to state n, does to the files and to made         *)
(***************************************************************************)
Same(j, n) == n.dest = job[j].dest /\ n.intent = job[j].intent

\* Nothing: the call stays where it is, or is over, or has yet to begin
Quiet(j, n) ==
    /\ UNCHANGED <<files, made>>
    /\ Inside(n) => Inside(job[j]) /\ Same(j, n) /\ job[j].pc # "chmod" /\ n.pc # "chmod"

\* It makes its destination
Enters(j, n) ==
    /\ Path(job[j].dest, <<>>) \notin DOMAIN files /\ job[j].dest \in Dests
    /\ files' = Bind(Path(job[j].dest, <<>>), Dir)
    /\ UNCHANGED made
    /\ Same(j, n) /\ n.pc # "chmod"

\* It makes an entry
Makes(j, n) ==
    /\ Inside(job[j]) /\ job[j].pc # "chmod" /\ Same(j, n)
    /\ UNCHANGED made
    /\ \E at \in Seq(Nat), f \in FileSet :
         /\ files' = Bind(Path(job[j].dest, at), f)
         /\ f \in SharedSet => job[j].intent = "OverlayLower"
         /\ n.pc = "chmod" => Path(job[j].dest, at) = ChildOf(n) /\ f \in OwnSet
         /\ f \in OwnSet /\ f.mode \notin Sealed /\ Inside(n) => n.pc = "chmod"

\* It sets the mode of the file it made
Seals(j, n) ==
    /\ job[j].pc = "chmod" /\ Same(j, n) /\ n.pc = "loop"
    /\ UNCHANGED made
    /\ \E m \in Modes :
         /\ files' = [files EXCEPT ![ChildOf(job[j])].mode = m]
         /\ job[j].intent = "OverlayLower" => m \in Sealed

\* It returns Ok
Completes(j, n) ==
    /\ Inside(job[j]) /\ job[j].pc = "loop" /\ n.pc = "done"
    /\ UNCHANGED files
    /\ \E m : m.intent = job[j].intent /\ made' = [made EXCEPT ![job[j].dest] = m]

Outcome(j) ==
    \E n \in JobSet :
        /\ JobOK(n) /\ job' = [job EXCEPT ![j] = n] /\ UNCHANGED store
        /\ Quiet(j, n) \/ Enters(j, n) \/ Makes(j, n) \/ Seals(j, n) \/ Completes(j, n)

\* A call that goes on with the same stack, or is over
LEMMA Kept ==
  ASSUME NEW j, JobOK(job[j]), NEW n \in JobSet, NEW pc, NEW stack, NEW stats,
         To(j, n, pc, stack, stats),
         \/ pc \in Over
         \/ /\ job[j].pc \notin Over /\ stack # <<>>
            /\ pc = "link" => job[j].intent = "OverlayLower"
            /\ pc \in Placing => /\ stack = job[j].stack
                                  /\ NodeOf(job[j]).kind = "file"
                                  /\ NodeOf(job[j]).digest \in Blobs
                                  /\ NodeOf(job[j]).executable \in BOOLEAN
  PROVE  JobOK(n) /\ Same(j, n)
BY DEF To, JobOK, Over, Placing, NodeOf, Same

\* An error leaves what was made
LEMMA FailQuiet ==
  ASSUME JobsInv, NEW j \in Jobs, NEW error \in Errors, Fail(j, error),
         UNCHANGED <<files, made, store>>
  PROVE  Outcome(j)
<1>1. "failed" \in Pcs /\ JobOK(job[j])
  BY DEF Pcs, JobsInv
<1>2. PICK n \in JobSet : To(j, n, "failed", <<>>, job[j].stats)
  BY <1>1, Moves
<1>3. JobOK(n)
  BY <1>1, <1>2, Kept DEF Over
<1>4. Quiet(j, n) /\ job' = [job EXCEPT ![j] = n]
  BY <1>2 DEF Quiet, To, Inside, Over
<1>. QED
  BY <1>3, <1>4 DEF Outcome

\* A call goes on inside its destination, and makes nothing
LEMMA GotoQuiet ==
  ASSUME JobsInv, NEW j \in Jobs, Inside(job[j]), job[j].pc # "chmod",
         NEW pc \in Pcs, pc \notin Over \cup {"mkdir", "chmod"}, Goto(j, pc),
         UNCHANGED <<files, made, store>>,
         pc = "link" => job[j].intent = "OverlayLower",
         pc \in Placing => /\ NodeOf(job[j]).kind = "file"
                           /\ NodeOf(job[j]).digest \in Blobs
                           /\ NodeOf(job[j]).executable \in BOOLEAN
  PROVE  Outcome(j)
<1>1. JobOK(job[j]) /\ job[j].pc \notin Over /\ job[j].stack # <<>>
  BY DEF JobsInv, Inside, JobOK
<1>2. PICK n \in JobSet : To(j, n, pc, job[j].stack, job[j].stats)
  BY Moves
<1>3. JobOK(n) /\ Same(j, n)
  BY <1>1, <1>2, Kept
<1>4. Quiet(j, n) /\ job' = [job EXCEPT ![j] = n]
  BY <1>2, <1>3 DEF Quiet, To, Inside
<1>. QED
  BY <1>3, <1>4 DEF Outcome

LEMMA CountedType ==
  ASSUME JobsInv, NEW j \in Jobs, NEW c \in Counters
  PROVE  Counted(j, c) \in [Counters -> Nat] /\ job[j].stats \in [Counters -> Nat]
<1>1. job[j].stats \in [Counters -> Nat]
  BY DEF JobsInv, JobOK, JobSet
<1>. QED
  BY <1>1 DEF Counted

\* A call that is under way
LEMMA UnderWay ==
  ASSUME JobsInv, NEW j \in Jobs, job[j].pc \notin Over
  PROVE  /\ JobOK(job[j]) /\ job[j].stack # <<>> /\ job[j].stack \in Seq(FrameSet)
         /\ Head(job[j].stack) \in FrameSet
         /\ Head(job[j].stack).at \in Seq(Nat) /\ Head(job[j].stack).next \in Nat \ {0}
         /\ job[j].dest \in Dests /\ job[j].intent \in Intents
         /\ Append(Head(job[j].stack).at, Head(job[j].stack).next) \in Seq(Nat)
         /\ Append(Head(job[j].stack).at, Head(job[j].stack).next) # <<>>
<1>1. /\ JobOK(job[j]) /\ job[j].stack # <<>> /\ job[j].dest \in Dests
      /\ job[j].intent \in Intents /\ job[j].stack \in Seq(FrameSet)
  BY DEF JobsInv, JobOK, JobSet
<1>2. Head(job[j].stack) \in FrameSet
  BY <1>1
<1>3. Head(job[j].stack).at \in Seq(Nat) /\ Head(job[j].stack).next \in Nat \ {0}
  BY <1>2 DEF FrameSet
<1>4. ASSUME NEW at \in Seq(Nat), NEW e \in Nat
      PROVE  Append(at, e) \in Seq(Nat) /\ Append(at, e) # <<>>
  <2> DEFINE x == Append(at, e)
  <2>1. x \in Seq(Nat) /\ Len(x) = Len(at) + 1 /\ Len(at) \in Nat
    OBVIOUS
  <2> HIDE DEF x
  <2>2. x # <<>>
    BY <2>1
  <2>. QED
    BY <2>1, <2>2 DEF x
<1>. QED
  BY <1>1, <1>2, <1>3, <1>4

LEMMA EnterDirIs ==
  ASSUME JobsInv, NEW j \in Jobs, EnterDir(j)
  PROVE  Outcome(j)
<1>0. job[j].pc = "mkdir" /\ UNCHANGED <<store, made>> /\ job[j].pc \notin Over
  BY DEF EnterDir, Over
<1> DEFINE at == Head(job[j].stack).at
           p == Path(job[j].dest, at)
<1>1. /\ job[j].dest \in Dests /\ at \in Seq(Nat) /\ JobOK(job[j]) /\ job[j].stack # <<>>
  BY <1>0, UnderWay
<1>2. \/ \E error \in Errors : Fail(j, error) /\ UNCHANGED files
      \/ p \notin DOMAIN files /\ MakeDir(j, Counted(j, "dirs"))
  BY DEF EnterDir, Errors, Top
<1>3. CASE \E error \in Errors : Fail(j, error) /\ UNCHANGED files
  BY <1>0, <1>3, FailQuiet
<1>4. CASE p \notin DOMAIN files /\ MakeDir(j, Counted(j, "dirs"))
  <2>1. /\ files' = Bind(p, Dir)
        /\ job' = [job EXCEPT ![j].pc = "load", ![j].stats = Counted(j, "dirs")]
    BY <1>4 DEF MakeDir, Top
  <2>2. "load" \in Pcs /\ "dirs" \in Counters
    BY DEF Pcs, Counters
  <2>3. PICK n \in JobSet : To(j, n, "load", job[j].stack, Counted(j, "dirs"))
    BY <2>1, <2>2, CountedType, Moves
  <2>4. JobOK(n) /\ Same(j, n)
    BY <1>0, <1>1, <2>3, Kept DEF Over, Placing
  <2>5. n.pc = "load" /\ job' = [job EXCEPT ![j] = n]
    BY <2>3 DEF To
  <2>6. CASE at = <<>>
    <3>1. Enters(j, n)
      BY <1>0, <1>1, <1>4, <2>1, <2>4, <2>5, <2>6 DEF Enters
    <3>. QED
      BY <1>0, <2>4, <2>5, <3>1 DEF Outcome
  <2>7. CASE at # <<>>
    <3>1. Inside(job[j])
      BY <1>0, <2>7 DEF Inside
    <3>2. Dir \in FileSet
      BY DEF FileSet
    <3>3. Makes(j, n)
      BY <1>0, <1>1, <2>1, <2>4, <2>5, <3>1, <3>2, FileKinds DEF Makes
    <3>. QED
      BY <1>0, <2>4, <2>5, <3>3 DEF Outcome
  <2>. QED
    BY <2>6, <2>7
<1>. QED
  BY <1>2, <1>3, <1>4

LEMMA LoadTreeIs ==
  ASSUME JobsInv, NEW j \in Jobs, LoadTree(j)
  PROVE  Outcome(j)
<1>1. /\ job[j].pc = "load" /\ UNCHANGED <<files, store, made>>
      /\ Goto(j, "loop") \/ Fail(j, "Missing") \/ Fail(j, "get_tree")
  BY DEF LoadTree
<1>2. /\ Inside(job[j]) /\ "loop" \in Pcs /\ "Missing" \in Errors /\ "get_tree" \in Errors
      /\ "loop" \notin Over \cup Placing \cup {"mkdir", "chmod", "link"}
  BY <1>1 DEF Inside, Over, Pcs, Errors, Placing
<1>. QED
  BY <1>1, <1>2, GotoQuiet, FailQuiet

LEMMA VisitIs ==
  ASSUME JobsInv, NEW j \in Jobs, Visit(j)
  PROVE  Outcome(j)
<1>1. /\ job[j].pc = "loop" /\ UNCHANGED <<store, made>>
      /\ Head(job[j].stack).next <= Len(Entries[Head(job[j].stack).tree])
      /\ VisitFile(j) \/ VisitDir(j) \/ VisitSymlink(j)
  BY DEF Visit, Top
<1>2. Inside(job[j]) /\ job[j].pc \notin Over
  BY <1>1 DEF Inside, Over
<1>3. /\ NodeOf(job[j]).kind = "file" =>
           NodeOf(job[j]).digest \in Blobs /\ NodeOf(job[j]).executable \in BOOLEAN
      /\ NodeOf(job[j]).kind = "dir" => NodeOf(job[j]).digest \in Trees
  BY <1>1, NodeIs DEF JobsInv
<1>4. CASE VisitFile(j)
  <2>1. /\ NodeOf(job[j]).kind = "file" /\ UNCHANGED files
        /\ Goto(j, "place") \/ Fail(j, "Missing")
    BY <1>4 DEF VisitFile, Node, Top, NodeOf
  <2>2. /\ "place" \in Pcs /\ "Missing" \in Errors
        /\ "place" \notin Over \cup {"mkdir", "chmod", "link"}
    BY DEF Over, Pcs, Errors
  <2>. QED
    BY <1>1, <1>2, <1>3, <2>1, <2>2, GotoQuiet, FailQuiet
<1>5. CASE VisitDir(j)
  <2> DEFINE at == Append(Head(job[j].stack).at, Head(job[j].stack).next)
             frame == Frame(at, NodeOf(job[j]).digest)
             stack == <<frame>> \o job[j].stack
  <2>1. /\ NodeOf(job[j]).kind = "dir" /\ UNCHANGED files
        /\ job' = [job EXCEPT ![j].pc = "mkdir", ![j].stack = stack]
    BY <1>5 DEF VisitDir, Node, Top, NodeOf, Child, Path, JobsInv, JobOK, JobSet
  <2>2. frame \in FrameSet /\ frame.at = at
    <3>1. at \in Seq(Nat) /\ NodeOf(job[j]).digest \in Trees /\ 1 \in Nat \ {0}
      BY <1>2, <1>3, <2>1, UnderWay
    <3>2. ASSUME NEW a \in Seq(Nat), NEW t \in Trees
          PROVE  Frame(a, t) \in FrameSet /\ Frame(a, t).at = a
      BY DEF Frame, FrameSet
    <3> HIDE DEF at
    <3>. QED
      BY <3>1, <3>2
  <2>3. stack \in Seq(FrameSet) /\ stack # <<>> /\ Head(stack) = frame
    <3>1. ASSUME NEW f \in FrameSet, NEW t \in Seq(FrameSet)
          PROVE  <<f>> \o t \in Seq(FrameSet) /\ <<f>> \o t # <<>> /\ Head(<<f>> \o t) = f
      OBVIOUS
    <3> HIDE DEF frame
    <3>. QED
      BY <1>2, <2>2, <3>1, UnderWay
  <2>4. "mkdir" \in Pcs /\ "mkdir" \notin Over \cup Placing
    BY DEF Pcs, Over, Placing
  <2>5. at # <<>> /\ JobOK(job[j])
    BY <1>2, UnderWay
  <2> HIDE DEF stack, frame, at
  <2>6. PICK n \in JobSet : To(j, n, "mkdir", stack, job[j].stats)
    BY <2>1, <2>3, <2>4, Moves
  <2>7. JobOK(n) /\ Same(j, n)
    BY <1>2, <2>3, <2>4, <2>5, <2>6, Kept DEF Placing
  <2>8. Quiet(j, n) /\ job' = [job EXCEPT ![j] = n]
    BY <1>1, <1>2, <2>1, <2>6, <2>7 DEF To, Quiet
  <2>. QED
    BY <1>1, <2>7, <2>8 DEF Outcome
<1>6. CASE VisitSymlink(j)
  <2>1. CASE Fail(j, "symlink") /\ UNCHANGED files
    <3>1. "symlink" \in Errors
      BY DEF Errors
    <3>. QED
      BY <1>1, <2>1, <3>1, FailQuiet
  <2>2. CASE files' = Bind(Child(j), Symlink) /\ NextEntry(j, Counted(j, "symlinks"))
    <3>1. "symlinks" \in Counters /\ "loop" \in Pcs /\ Symlink \in FileSet
      BY DEF Counters, Pcs, FileSet
    <3>2. PICK n \in JobSet : To(j, n, "loop", Advance(job[j].stack), Counted(j, "symlinks"))
      BY <1>2, <2>2, <3>1, CountedType, UnderWay, Moves
    <3>3. JobOK(n) /\ Same(j, n)
      BY <1>2, <3>2, UnderWay, AdvanceFacts, Kept DEF Placing
    <3>4. n.pc = "loop" /\ job' = [job EXCEPT ![j] = n]
      BY <3>2 DEF To
    <3>5. Makes(j, n)
      BY <1>1, <1>2, <2>2, <3>1, <3>3, <3>4, UnderWay, FileKinds DEF Makes, Child, Top
    <3>. QED
      BY <1>1, <3>3, <3>4, <3>5 DEF Outcome
  <2>. QED
    BY <1>6, <2>1, <2>2 DEF VisitSymlink
<1>. QED
  BY <1>1, <1>4, <1>5, <1>6

LEMMA LeaveIs ==
  ASSUME JobsInv, NEW j \in Jobs, Leave(j)
  PROVE  Outcome(j)
<1>1. job[j].pc = "loop" /\ UNCHANGED <<files, store>>
  BY DEF Leave
<1>2. /\ Inside(job[j]) /\ job[j].pc \notin Over /\ {"done", "loop"} \subseteq Pcs
      /\ "done" \in Over /\ "loop" \notin Over \cup Placing
  BY <1>1 DEF Inside, Over, Pcs, Placing
<1>3. /\ JobOK(job[j]) /\ job[j].stack \in Seq(FrameSet) /\ job[j].stack # <<>>
      /\ <<>> \in Seq(FrameSet)
  BY <1>2, UnderWay
<1>4. CASE Len(job[j].stack) = 1
  <2>1. /\ job' = [job EXCEPT ![j].pc = "done", ![j].stack = <<>>]
        /\ made' = [made EXCEPT ![job[j].dest] =
             [root |-> job[j].root, intent |-> job[j].intent, stats |-> job[j].stats]]
    BY <1>4 DEF Leave
  <2>2. PICK n \in JobSet : To(j, n, "done", <<>>, job[j].stats)
    BY <1>2, <1>3, <2>1, Moves
  <2>3. JobOK(n) /\ n.pc = "done" /\ job' = [job EXCEPT ![j] = n]
    BY <1>2, <1>3, <2>2, Kept DEF To
  <2>4. Completes(j, n)
    <3> DEFINE m == [root |-> job[j].root, intent |-> job[j].intent, stats |-> job[j].stats]
    <3>1. m.intent = job[j].intent /\ made' = [made EXCEPT ![job[j].dest] = m]
      BY <2>1
    <3> HIDE DEF m
    <3>. QED
      BY <1>1, <1>2, <2>3, <3>1 DEF Completes
  <2>. QED
    BY <1>1, <2>3, <2>4 DEF Outcome
<1>5. CASE Len(job[j].stack) # 1
  <2> DEFINE t == Tail(job[j].stack)
             stack == Advance(t)
  <2>1. job' = [job EXCEPT ![j].pc = "loop", ![j].stack = stack] /\ UNCHANGED made
    BY <1>5 DEF Leave, JobsInv, JobOK, JobSet
  <2>2. t \in Seq(FrameSet) /\ t # <<>>
    <3>1. ASSUME NEW s \in Seq(FrameSet), s # <<>>, Len(s) # 1
          PROVE  Tail(s) \in Seq(FrameSet) /\ Tail(s) # <<>>
      <4> DEFINE x == Tail(s)
      <4>1. x \in Seq(FrameSet) /\ Len(x) = Len(s) - 1 /\ Len(s) \in Nat /\ Len(s) # 0
        BY <3>1
      <4> HIDE DEF x
      <4>2. x # <<>>
        BY <3>1, <4>1
      <4>. QED
        BY <4>1, <4>2 DEF x
    <3>. QED
      BY <1>3, <1>5, <3>1
  <2>3. stack \in Seq(FrameSet) /\ stack # <<>>
    BY <2>2, AdvanceFacts
  <2> HIDE DEF stack
  <2>4. PICK n \in JobSet : To(j, n, "loop", stack, job[j].stats)
    BY <1>2, <2>1, <2>3, Moves
  <2>5. JobOK(n) /\ Same(j, n)
    BY <1>2, <1>3, <2>3, <2>4, Kept
  <2>6. Quiet(j, n) /\ job' = [job EXCEPT ![j] = n]
    BY <1>1, <1>2, <2>1, <2>4, <2>5 DEF To, Quiet
  <2>. QED
    BY <1>1, <2>5, <2>6 DEF Outcome
<1>. QED
  BY <1>4, <1>5

\* The entry a call places, and where
LEMMA PlacingIs ==
  ASSUME JobsInv, NEW j \in Jobs, job[j].pc \in Placing
  PROVE  /\ Inside(job[j]) /\ job[j].pc \notin Over
         /\ NodeOf(job[j]).kind = "file" /\ NodeOf(job[j]).digest \in Blobs
         /\ NodeOf(job[j]).executable \in BOOLEAN
         /\ Node(j) = NodeOf(job[j]) /\ Source(j) \in Blobs
         /\ Child(j) = ChildOf(job[j])
         /\ \E at \in Seq(Nat) : Child(j) = Path(job[j].dest, at)
<1>1. Inside(job[j]) /\ job[j].pc \notin Over
  BY DEF Inside, Over, Placing
<1>. QED
  BY <1>1, UnderWay DEF JobsInv, JobOK, Node, NodeOf, Top, Source, Child, ChildOf

\* A new file, and on to its mode
LEMMA MakesOwn ==
  ASSUME JobsInv, NEW j \in Jobs, job[j].pc \in {"place", "copy"}, NEW f \in OwnSet,
         NEW c \in Counters, UNCHANGED <<store, made>>, files' = Bind(Child(j), f),
         job' = [job EXCEPT ![j].pc = "chmod", ![j].stats = Counted(j, c)]
  PROVE  Outcome(j)
<1>1. job[j].pc \in Placing /\ job[j].pc # "chmod" /\ "chmod" \in Pcs /\ f \in FileSet
  BY DEF Placing, Pcs, FileSet
<1>2. PICK n \in JobSet : To(j, n, "chmod", job[j].stack, Counted(j, c))
  BY <1>1, CountedType, Moves
<1>3. JobOK(n) /\ Same(j, n)
  BY <1>1, <1>2, PlacingIs, UnderWay, Kept
<1>4. n.pc = "chmod" /\ job' = [job EXCEPT ![j] = n] /\ ChildOf(n) = ChildOf(job[j])
  BY <1>2 DEF To, ChildOf
<1>5. Makes(j, n)
  BY <1>1, <1>3, <1>4, PlacingIs, FileKinds DEF Makes
<1>. QED
  BY <1>3, <1>4, <1>5 DEF Outcome

\* An error that leaves a file behind
LEMMA FailsWith ==
  ASSUME JobsInv, NEW j \in Jobs, job[j].pc \in {"place", "copy"}, NEW f \in OwnSet,
         NEW error \in Errors, UNCHANGED <<store, made>>, files' = Bind(Child(j), f),
         Fail(j, error)
  PROVE  Outcome(j)
<1>1. job[j].pc \in Placing /\ "failed" \in Over /\ "failed" \in Pcs /\ f \in FileSet
  BY DEF Placing, Over, Pcs, FileSet
<1>2. PICK n \in JobSet : To(j, n, "failed", <<>>, job[j].stats)
  BY <1>1, Moves
<1>3. JobOK(n) /\ Same(j, n)
  BY <1>1, <1>2, Kept DEF JobsInv
<1>4. n.pc = "failed" /\ job' = [job EXCEPT ![j] = n] /\ ~Inside(n)
  BY <1>1, <1>2 DEF To, Inside
<1>5. Makes(j, n)
  BY <1>1, <1>3, <1>4, PlacingIs, FileKinds DEF Makes
<1>. QED
  BY <1>3, <1>4, <1>5 DEF Outcome

LEMMA CloneIs ==
  ASSUME JobsInv, StoreInv, NEW j \in Jobs, Clone(j) \/ SkipClone(j)
  PROVE  Outcome(j)
<1>1. job[j].pc = "place" /\ UNCHANGED <<store, made>>
  BY DEF Clone, SkipClone
<1>2. /\ job[j].pc \in Placing /\ "clone" \in Errors /\ "reflinked" \in Counters
      /\ {"link", "copy"} \subseteq Pcs
      /\ {"link", "copy"} \cap (Over \cup {"mkdir", "chmod"}) = {}
  BY <1>1 DEF Placing, Errors, Counters, Pcs, Over
<1>3. AfterClone(j) \in {"link", "copy"} /\ (AfterClone(j) = "link" => job[j].intent = "OverlayLower")
  BY DEF AfterClone, PlaceIntent
<1>4. \/ CloneWorks(j)
      \/ Goto(j, AfterClone(j)) /\ UNCHANGED files
      \/ Fail(j, "clone") /\ UNCHANGED files
      \/ Fail(j, "clone") /\ files' = Bind(Child(j), Own(None, "0644"))
  BY DEF Clone, SkipClone, CloneUnsupported, CloneFails
<1>5. CASE CloneWorks(j)
  <2>1. store[Source(j)].data \in Blobs
    BY <1>2, PlacingIs DEF StoreInv
  <2>2. Own(store[Source(j)].data, "0644") \in OwnSet
    BY <2>1 DEF Own, OwnSet, Modes
  <2>. QED
    BY <1>1, <1>2, <1>5, <2>2, MakesOwn DEF CloneWorks
<1>6. CASE Goto(j, AfterClone(j)) /\ UNCHANGED files
  <2>1. AfterClone(j) \in Pcs /\ AfterClone(j) \notin Over \cup {"mkdir", "chmod"}
    BY <1>2, <1>3
  <2>. QED
    BY <1>1, <1>2, <1>3, <1>6, <2>1, PlacingIs, GotoQuiet
<1>7. CASE Fail(j, "clone") /\ UNCHANGED files
  BY <1>1, <1>2, <1>7, FailQuiet
<1>8. CASE Fail(j, "clone") /\ files' = Bind(Child(j), Own(None, "0644"))
  <2>1. Own(None, "0644") \in OwnSet
    BY DEF Own, OwnSet, Modes
  <2>. QED
    BY <1>1, <1>2, <1>8, <2>1, FailsWith
<1>. QED
  BY <1>4, <1>5, <1>6, <1>7, <1>8

LEMMA LinkIs ==
  ASSUME JobsInv, NEW j \in Jobs, Link(j)
  PROVE  Outcome(j)
<1>1. job[j].pc = "link" /\ UNCHANGED <<store, made>>
  BY DEF Link
<1>2. /\ job[j].pc \in Placing /\ "link" \in Errors /\ "hardlinked" \in Counters
      /\ "copy" \in Pcs /\ "copy" \notin Over \cup {"mkdir", "chmod", "link"}
      /\ "loop" \in Pcs /\ "loop" \notin Over \cup Placing
      /\ job[j].intent = "OverlayLower"
  BY <1>1 DEF Placing, Errors, Counters, Pcs, Over, JobsInv, JobOK
<1>3. \/ files' = Bind(Child(j), Shared(Source(j))) /\ NextEntry(j, Counted(j, "hardlinked"))
      \/ Goto(j, "copy") /\ UNCHANGED files
      \/ Fail(j, "link") /\ UNCHANGED files
  BY DEF Link
<1>4. CASE files' = Bind(Child(j), Shared(Source(j))) /\ NextEntry(j, Counted(j, "hardlinked"))
  <2>1. Shared(Source(j)) \in SharedSet /\ Shared(Source(j)) \in FileSet
    BY <1>2, PlacingIs DEF Shared, SharedSet, FileSet
  <2>2. PICK n \in JobSet : To(j, n, "loop", Advance(job[j].stack), Counted(j, "hardlinked"))
    BY <1>2, <1>4, PlacingIs, CountedType, UnderWay, Moves
  <2>3. JobOK(n) /\ Same(j, n)
    BY <1>2, <2>2, PlacingIs, UnderWay, AdvanceFacts, Kept
  <2>4. n.pc = "loop" /\ job' = [job EXCEPT ![j] = n]
    BY <2>2 DEF To
  <2>5. Makes(j, n)
    BY <1>1, <1>2, <1>4, <2>1, <2>3, <2>4, PlacingIs, FileKinds DEF Makes
  <2>. QED
    BY <1>1, <2>3, <2>4, <2>5 DEF Outcome
<1>5. CASE Goto(j, "copy") /\ UNCHANGED files
  BY <1>1, <1>2, <1>5, PlacingIs, GotoQuiet
<1>6. CASE Fail(j, "link") /\ UNCHANGED files
  BY <1>1, <1>2, <1>6, FailQuiet
<1>. QED
  BY <1>3, <1>4, <1>5, <1>6

LEMMA CopyIs ==
  ASSUME JobsInv, StoreInv, NEW j \in Jobs, Copy(j)
  PROVE  Outcome(j)
<1>1. job[j].pc = "copy" /\ UNCHANGED <<store, made>>
  BY DEF Copy
<1>2. /\ job[j].pc \in Placing /\ "copy" \in Errors /\ "copied" \in Counters
      /\ "failed" \in Over /\ "failed" \in Pcs
  BY <1>1 DEF Placing, Errors, Counters, Pcs, Over
<1> DEFINE c == store[Source(j)].data
           m == store[Source(j)].mode
<1>3. c \in Blobs /\ m \in Modes
  BY <1>2, PlacingIs DEF StoreInv, Modes
<1>4. \/ /\ files' = Bind(Child(j), Own(c, m))
         /\ job' = [job EXCEPT ![j].pc = "chmod", ![j].stats = Counted(j, "copied")]
      \/ files' = Bind(Child(j), Own(None, m)) /\ Fail(j, "copy")
      \/ Fail(j, "copy") /\ UNCHANGED files
  BY DEF Copy
<1> HIDE DEF c, m
<1>5. Own(c, m) \in OwnSet /\ Own(None, m) \in OwnSet
  BY <1>3 DEF Own, OwnSet
<1>6. CASE /\ files' = Bind(Child(j), Own(c, m))
           /\ job' = [job EXCEPT ![j].pc = "chmod", ![j].stats = Counted(j, "copied")]
  BY <1>1, <1>2, <1>5, <1>6, MakesOwn
<1>7. CASE files' = Bind(Child(j), Own(None, m)) /\ Fail(j, "copy")
  BY <1>1, <1>2, <1>5, <1>7, FailsWith
<1>8. CASE Fail(j, "copy") /\ UNCHANGED files
  BY <1>1, <1>2, <1>8, FailQuiet
<1>. QED
  BY <1>4, <1>6, <1>7, <1>8

LEMMA WantIs ==
  ASSUME NEW intent \in Intents, NEW x \in BOOLEAN
  PROVE  Want(intent, x) \in Modes /\ (intent = "OverlayLower" => Want(intent, x) \in Sealed)
<1>1. CASE intent = "OverlayLower" /\ x
  BY <1>1 DEF Want, Modes, Sealed
<1>2. CASE intent = "OverlayLower" /\ ~x
  BY <1>2 DEF Want, Modes, Sealed
<1>3. CASE intent = "PrivateInode" /\ x
  BY <1>3 DEF Want, Modes, Sealed
<1>4. CASE intent = "PrivateInode" /\ ~x
  BY <1>4 DEF Want, Modes, Sealed
<1>. QED
  BY <1>1, <1>2, <1>3, <1>4 DEF Intents

LEMMA ChmodIs ==
  ASSUME JobsInv, NEW j \in Jobs, Chmod(j)
  PROVE  Outcome(j)
<1>1. job[j].pc = "chmod" /\ UNCHANGED <<store, made>>
  BY DEF Chmod
<1>2. /\ job[j].pc \in Placing /\ "chmod" \in Errors /\ "loop" \in Pcs
      /\ "loop" \notin Over \cup Placing /\ "dirs" \in Counters
  BY <1>1 DEF Placing, Errors, Pcs, Over, Counters
<1> DEFINE m == Want(job[j].intent, Node(j).executable)
<1>3. \/ files' = [files EXCEPT ![Child(j)].mode = m] /\ NextEntry(j, job[j].stats)
      \/ Fail(j, "chmod") /\ UNCHANGED files
  BY DEF Chmod
<1>4. m \in Modes /\ (job[j].intent = "OverlayLower" => m \in Sealed)
  BY <1>2, PlacingIs, UnderWay, WantIs
<1> HIDE DEF m
<1>5. CASE files' = [files EXCEPT ![Child(j)].mode = m] /\ NextEntry(j, job[j].stats)
  <2>1. PICK n \in JobSet : To(j, n, "loop", Advance(job[j].stack), job[j].stats)
    BY <1>2, <1>5, PlacingIs, CountedType, UnderWay, Moves
  <2>2. JobOK(n) /\ Same(j, n)
    BY <1>2, <2>1, PlacingIs, UnderWay, AdvanceFacts, Kept
  <2>3. n.pc = "loop" /\ job' = [job EXCEPT ![j] = n]
    BY <2>1 DEF To
  <2>4. Seals(j, n)
    BY <1>1, <1>2, <1>4, <1>5, <2>2, <2>3, PlacingIs DEF Seals
  <2>. QED
    BY <1>1, <2>2, <2>3, <2>4 DEF Outcome
<1>6. CASE Fail(j, "chmod") /\ UNCHANGED files
  BY <1>1, <1>2, <1>6, FailQuiet
<1>. QED
  BY <1>3, <1>5, <1>6

\* A call ends, or its process dies
LEMMA StopIs ==
  ASSUME JobsInv, NEW j \in Jobs, Return(j) \/ Kill(j)
  PROVE  Outcome(j)
<1>1. job' = [job EXCEPT ![j] = Idle] /\ UNCHANGED <<store, files, made>>
  BY DEF Return, Kill
<1>. QED
  BY <1>1, IdleOK DEF Outcome, Quiet, JobOK

LEMMA StartIs ==
  ASSUME JobsInv, NEW j \in Jobs, NEW d \in Dests, NEW t \in Roots, NEW i \in Intents,
         Start(j, d, t, i)
  PROVE  Outcome(j)
<1> DEFINE refused == [Idle EXCEPT !.pc = "failed", !.error = "DestinationExists"]
           begun == [Idle EXCEPT !.pc = "mkdir", !.dest = d, !.root = t, !.intent = i,
                                 !.stack = <<Frame(<<>>, t)>>]
           zero == [c \in Counters |-> 0]
<1>1. /\ UNCHANGED <<store, files, made>>
      /\ job' = [job EXCEPT ![j] = refused] \/ job' = [job EXCEPT ![j] = begun]
  BY DEF Start
<1>2. ASSUME NEW n, JobOK(n), ~Inside(n), job' = [job EXCEPT ![j] = n]
      PROVE  Outcome(j)
  BY <1>1, <1>2 DEF Outcome, Quiet, JobOK
<1>3. JobOK(refused) /\ ~Inside(refused)
  <2>1. refused = [pc |-> "failed", dest |-> None, root |-> None, intent |-> None,
                   stack |-> <<>>, stats |-> zero, error |-> "DestinationExists"]
    <3>1. ASSUME NEW r \in JobSet, NEW n,
                 n = [r EXCEPT !.pc = "failed", !.error = "DestinationExists"]
          PROVE  n = [pc |-> "failed", dest |-> r.dest, root |-> r.root, intent |-> r.intent,
                      stack |-> r.stack, stats |-> r.stats, error |-> "DestinationExists"]
      BY <3>1 DEF JobSet
    <3>2. /\ Idle \in JobSet /\ Idle.dest = None /\ Idle.root = None /\ Idle.intent = None
          /\ Idle.stack = <<>> /\ Idle.stats = zero
      BY IdleOK DEF Idle, JobOK
    <3>. QED
      BY <3>1, <3>2
  <2>2. /\ "failed" \in Pcs /\ None \in Dests \cup {None} /\ None \in Trees \cup {None}
        /\ None \in Intents \cup {None} /\ <<>> \in Seq(FrameSet)
        /\ zero \in [Counters -> Nat] /\ "DestinationExists" \in Errors \cup {None}
    BY DEF Pcs, Errors
  <2> HIDE DEF zero, refused
  <2>3. refused \in JobSet
    BY <2>1, <2>2, Zenon DEF JobSet
  <2>4. refused.pc = "failed"
    BY <2>1
  <2>. QED
    BY <2>3, <2>4 DEF JobOK, Inside, Over, Placing
<1>4. JobOK(begun) /\ ~Inside(begun)
  <2> DEFINE frame == Frame(<<>>, t)
  <2>1. begun = [pc |-> "mkdir", dest |-> d, root |-> t, intent |-> i,
                 stack |-> <<frame>>, stats |-> zero, error |-> None]
    <3> DEFINE stack == <<frame>>
    <3> HIDE DEF stack
    <3>1. ASSUME NEW r \in JobSet, NEW n,
                 n = [r EXCEPT !.pc = "mkdir", !.dest = d, !.root = t, !.intent = i,
                               !.stack = stack]
          PROVE  n = [pc |-> "mkdir", dest |-> d, root |-> t, intent |-> i,
                      stack |-> stack, stats |-> r.stats, error |-> r.error]
      BY <3>1 DEF JobSet
    <3>2. Idle \in JobSet /\ Idle.stats = zero /\ Idle.error = None
      BY IdleOK DEF Idle, JobOK
    <3>. QED
      BY <3>1, <3>2 DEF stack
  <2>2. frame \in FrameSet /\ frame.at = <<>> /\ t \in Trees
    BY GraphAssumption DEF Frame, FrameSet
  <2> HIDE DEF frame
  <2>3. /\ "mkdir" \in Pcs /\ d \in Dests \cup {None} /\ t \in Trees \cup {None}
        /\ i \in Intents \cup {None} /\ <<frame>> \in Seq(FrameSet)
        /\ zero \in [Counters -> Nat] /\ None \in Errors \cup {None}
    BY <2>2 DEF Pcs
  <2> HIDE DEF zero, begun
  <2>4. begun \in JobSet
    BY <2>1, <2>3, Zenon DEF JobSet
  <2>5. /\ begun.pc = "mkdir" /\ begun.dest = d /\ begun.intent = i /\ begun.stack # <<>>
        /\ Head(begun.stack).at = <<>>
    BY <2>1, <2>2
  <2>. QED
    BY <2>4, <2>5 DEF JobOK, Inside, Over, Placing
<1> HIDE DEF refused, begun
<1>. QED
  BY <1>1, <1>2, <1>3, <1>4

(***************************************************************************)
(* Each outcome of a call's step preserves the invariant, and leaves the    *)
(* finished workspaces alone                                                *)
(***************************************************************************)
Untouched ==
    \A p \in DOMAIN files : made[p.dest] # None =>
        p \in DOMAIN files' /\ files'[p] = files[p]

Rest == FilesInv /\ OwnerInv /\ ChmodInv /\ SharedInv /\ SealedInv

\* Call j goes to state n
Becomes(j, n) == n \in JobSet /\ JobOK(n) /\ job' = [job EXCEPT ![j] = n]

LEMMA JobsAfter ==
  ASSUME JobsInv, NEW j \in Jobs, NEW n, Becomes(j, n)
  PROVE  /\ JobsInv'
         /\ job'[j] = n
         /\ \A k \in Jobs : k # j => job'[k] = job[k]
<1>1. /\ job = [k \in Jobs |-> job[k]] /\ \A k \in Jobs : JobOK(job[k])
      /\ JobOK(n) /\ job' = [job EXCEPT ![j] = n]
  BY DEF JobsInv, Becomes
<1>2. job' = [k \in Jobs |-> IF k = j THEN n ELSE job[k]]
  BY <1>1
<1>3. job'[j] = n /\ \A k \in Jobs : k # j => job'[k] = job[k]
  BY <1>2
<1>4. \A k \in Jobs : JobOK(job'[k])
  BY <1>1, <1>3
<1>5. job' = [k \in Jobs |-> job'[k]]
  BY <1>2
<1>. QED
  BY <1>3, <1>4, <1>5 DEF JobsInv, JobOK, NodeOf

LEMMA QuietInv ==
  ASSUME IInv, NEW j \in Jobs, NEW n, Becomes(j, n), Quiet(j, n)
  PROVE  Rest' /\ Untouched
<1>1. job'[j] = n /\ \A k \in Jobs : k # j => job'[k] = job[k]
  BY JobsAfter DEF IInv
<1>2. /\ files' = files /\ made' = made
      /\ Inside(n) => /\ Inside(job[j]) /\ n.dest = job[j].dest /\ n.intent = job[j].intent
                      /\ job[j].pc # "chmod" /\ n.pc # "chmod"
  BY DEF Quiet, Same
<1>3. \A k \in Jobs : Inside(job'[k]) =>
        /\ Inside(job[k]) /\ job'[k].dest = job[k].dest /\ job'[k].intent = job[k].intent
        /\ k # j => job'[k] = job[k]
        /\ k = j => job[k].pc # "chmod" /\ job'[k].pc # "chmod"
  BY <1>1, <1>2
<1>4. \A k \in Jobs : job'[k].pc = "chmod" => Inside(job'[k])
  BY DEF Inside, Over
<1>5. FilesInv'
  BY <1>2 DEF IInv, FilesInv
<1>6. OwnerInv'
  BY <1>2, <1>3 DEF IInv, OwnerInv, Inside
<1>7. ChmodInv'
  BY <1>2, <1>3, <1>4 DEF IInv, ChmodInv, ChildOf
<1>8. SharedInv'
  BY <1>2, <1>3 DEF IInv, SharedInv, Inside
<1>9. SealedInv'
  BY <1>2, <1>3 DEF IInv, SealedInv, Inside, ChildOf
<1>10. Untouched
  BY <1>2 DEF Untouched
<1>. QED
  BY <1>5, <1>6, <1>7, <1>8, <1>9, <1>10 DEF Rest

LEMMA BindIs ==
  ASSUME FilesInv, NEW p, NEW f, files' = Bind(p, f)
  PROVE  /\ DOMAIN files' = DOMAIN files \cup {p}
         /\ files' = [q \in DOMAIN files' |-> files'[q]]
         /\ files'[p] = f
         /\ \A q \in DOMAIN files : q # p => files'[q] = files[q]
BY DEF Bind

\* No other call is inside j's destination
LEMMA Alone ==
  ASSUME IInv, NEW j \in Jobs, Inside(job[j])
  PROVE  /\ job[j].dest \in Dests /\ made[job[j].dest] = None
         /\ Path(job[j].dest, <<>>) \in DOMAIN files
         /\ \A k \in Jobs : k # j /\ Inside(job[k]) => job[k].dest # job[j].dest
BY DEF IInv, OwnerInv, JobsInv, JobOK, Inside

LEMMA EntersInv ==
  ASSUME IInv, NEW j \in Jobs, NEW n, Becomes(j, n), Enters(j, n)
  PROVE  Rest' /\ Untouched
<1> DEFINE D == job[j].dest
           r == Path(D, <<>>)
<1>1. job'[j] = n /\ \A k \in Jobs : k # j => job'[k] = job[k]
  BY JobsAfter DEF IInv
<1>2. /\ r \notin DOMAIN files /\ D \in Dests /\ files' = Bind(r, Dir) /\ made' = made
      /\ n.dest = D /\ n.pc # "chmod"
  BY DEF Enters, Same
<1>3. r.dest = D
  BY PathFields
<1>4. FilesInv /\ OwnerInv /\ ChmodInv /\ SharedInv /\ SealedInv
  BY DEF IInv
<1>5. /\ DOMAIN files' = DOMAIN files \cup {r}
      /\ files' = [q \in DOMAIN files' |-> files'[q]]
      /\ files'[r] = Dir
      /\ \A q \in DOMAIN files : files'[q] = files[q]
  BY <1>2, <1>4, BindIs
<1>6. \A p \in DOMAIN files : p.dest # D
  BY <1>2, <1>4 DEF FilesInv
<1>7. /\ \A k \in Jobs : Inside(job[k]) => job[k].dest # D
      /\ made[D] = None
  BY <1>2, <1>4 DEF OwnerInv
<1>8. Dir \in FileSet /\ Dir \notin SharedSet /\ Dir \notin OwnSet
  BY FileKinds DEF FileSet
<1> HIDE DEF r, D
<1>9. FilesInv'
  <2>1. \A p \in DOMAIN files' : /\ files'[p] \in FileSet /\ p.dest \in Dests
                                 /\ Path(p.dest, <<>>) \in DOMAIN files'
    BY <1>2, <1>3, <1>4, <1>5, <1>8 DEF FilesInv, r
  <2>. QED
    BY <1>5, <2>1 DEF FilesInv, FileSet, SharedSet, OwnSet, Dir, Symlink, Path
<1>10. OwnerInv'
  <2>1. \A k \in Jobs : Inside(job'[k]) =>
          Path(job'[k].dest, <<>>) \in DOMAIN files' /\ made'[job'[k].dest] = None
    BY <1>1, <1>2, <1>4, <1>5, <1>7 DEF OwnerInv, r
  <2>2. \A k, l \in Jobs : Inside(job'[k]) /\ Inside(job'[l]) /\ job'[k].dest = job'[l].dest => k = l
    BY <1>1, <1>2, <1>4, <1>7 DEF OwnerInv
  <2>3. /\ made' = [d \in Dests |-> made'[d]]
        /\ \A d \in Dests : made'[d] # None => Path(d, <<>>) \in DOMAIN files'
    BY <1>2, <1>4, <1>5 DEF OwnerInv
  <2>. QED
    BY <2>1, <2>2, <2>3 DEF OwnerInv, Inside, Path
<1>11. ChmodInv'
  BY <1>1, <1>2, <1>4, <1>5 DEF ChmodInv, ChildOf
<1>12. SharedInv'
  BY <1>1, <1>2, <1>3, <1>4, <1>5, <1>6, <1>8 DEF SharedInv, Inside
<1>13. SealedInv'
  BY <1>1, <1>2, <1>3, <1>4, <1>5, <1>6, <1>8 DEF SealedInv, Inside, ChildOf
<1>14. Untouched
  BY <1>5 DEF Untouched
<1>. QED
  BY <1>9, <1>10, <1>11, <1>12, <1>13, <1>14 DEF Rest

LEMMA MakesInv ==
  ASSUME IInv, NEW j \in Jobs, NEW n, Becomes(j, n), Makes(j, n)
  PROVE  Rest' /\ Untouched
<1> DEFINE D == job[j].dest
<1>1. job'[j] = n /\ \A k \in Jobs : k # j => job'[k] = job[k]
  BY JobsAfter DEF IInv
<1>2. /\ Inside(job[j]) /\ job[j].pc # "chmod" /\ made' = made
      /\ n.dest = D /\ n.intent = job[j].intent
  BY DEF Makes, Same
<1>3. PICK at \in Seq(Nat), f \in FileSet :
        /\ files' = Bind(Path(D, at), f)
        /\ f \in SharedSet => job[j].intent = "OverlayLower"
        /\ n.pc = "chmod" => Path(D, at) = ChildOf(n) /\ f \in OwnSet
        /\ f \in OwnSet /\ f.mode \notin Sealed /\ Inside(n) => n.pc = "chmod"
  BY DEF Makes
<1> DEFINE q == Path(D, at)
<1>4. FilesInv /\ OwnerInv /\ ChmodInv /\ SharedInv /\ SealedInv
  BY DEF IInv
<1>5. /\ DOMAIN files' = DOMAIN files \cup {q}
      /\ files' = [p \in DOMAIN files' |-> files'[p]]
      /\ files'[q] = f
      /\ \A p \in DOMAIN files : p # q => files'[p] = files[p]
  BY <1>3, <1>4, BindIs
<1>6. /\ D \in Dests /\ made[D] = None /\ Path(D, <<>>) \in DOMAIN files
      /\ \A k \in Jobs : k # j /\ Inside(job[k]) => job[k].dest # D
  BY <1>2, Alone
<1>7. q.dest = D /\ \A k \in Jobs : ChildOf(job[k]).dest = job[k].dest
  BY PathFields DEF ChildOf
<1>8. n.pc = "chmod" => q = ChildOf(n)
  BY <1>3
<1> HIDE DEF q, D
<1>9. FilesInv'
  <2>1. \A p \in DOMAIN files' : /\ files'[p] \in FileSet /\ p.dest \in Dests
                                 /\ Path(p.dest, <<>>) \in DOMAIN files'
    BY <1>3, <1>4, <1>5, <1>6, <1>7 DEF FilesInv
  <2>. QED
    BY <1>5, <2>1 DEF FilesInv, FileSet, SharedSet, OwnSet, Dir, Symlink, Path
<1>10. OwnerInv'
  <2>1. \A k \in Jobs : Inside(job'[k]) =>
          Path(job'[k].dest, <<>>) \in DOMAIN files' /\ made'[job'[k].dest] = None
    BY <1>1, <1>2, <1>4, <1>5, <1>6 DEF OwnerInv
  <2>2. \A k, l \in Jobs : Inside(job'[k]) /\ Inside(job'[l]) /\ job'[k].dest = job'[l].dest => k = l
    BY <1>1, <1>2, <1>4, <1>6 DEF OwnerInv
  <2>3. /\ made' = [d \in Dests |-> made'[d]]
        /\ \A d \in Dests : made'[d] # None => Path(d, <<>>) \in DOMAIN files'
    BY <1>2, <1>4, <1>5 DEF OwnerInv
  <2>. QED
    BY <2>1, <2>2, <2>3 DEF OwnerInv, Inside, Path
<1>11. ChmodInv'
  <2>1. ASSUME NEW k \in Jobs, job'[k].pc = "chmod"
        PROVE  ChildOf(job'[k]) \in DOMAIN files' /\ files'[ChildOf(job'[k])] \in OwnSet
    <3>1. CASE k = j
      BY <1>1, <1>3, <1>5, <1>8, <2>1, <3>1
    <3>2. CASE k # j
      <4>1. job'[k] = job[k] /\ Inside(job[k])
        BY <1>1, <2>1, <3>2 DEF Inside, Over
      <4>2. ChildOf(job[k]) # q
        BY <1>6, <1>7, <3>2, <4>1
      <4>. QED
        BY <1>4, <1>5, <2>1, <4>1, <4>2 DEF ChmodInv
    <3>. QED
      BY <3>1, <3>2
  <2>. QED
    BY <2>1 DEF ChmodInv, ChildOf, OwnSet
<1>12. SharedInv'
  <2>1. ASSUME NEW p \in DOMAIN files', files'[p] \in SharedSet
        PROVE  /\ \A k \in Jobs : Inside(job'[k]) /\ job'[k].dest = p.dest =>
                    job'[k].intent = "OverlayLower"
               /\ made'[p.dest] # None => made'[p.dest].intent = "OverlayLower"
    <3>1. CASE p = q
      BY <1>1, <1>2, <1>3, <1>5, <1>6, <1>7, <2>1, <3>1
    <3>2. CASE p # q
      <4>1. p \in DOMAIN files /\ files[p] \in SharedSet
        BY <1>5, <2>1, <3>2
      <4>. QED
        BY <1>1, <1>2, <1>4, <4>1 DEF SharedInv, D
    <3>. QED
      BY <3>1, <3>2
  <2>. QED
    BY <2>1 DEF SharedInv, SharedSet, Inside
<1>13. SealedInv'
  <2>1. ASSUME NEW p \in DOMAIN files', files'[p] \in OwnSet, files'[p].mode \notin Sealed
        PROVE  /\ \A k \in Jobs : Inside(job'[k]) /\ job'[k].dest = p.dest =>
                    \/ job'[k].intent # "OverlayLower"
                    \/ job'[k].pc = "chmod" /\ p = ChildOf(job'[k])
               /\ made'[p.dest] # None => made'[p.dest].intent # "OverlayLower"
    <3>1. CASE p = q
      BY <1>1, <1>2, <1>3, <1>5, <1>6, <1>7, <1>8, <2>1, <3>1
    <3>2. CASE p # q
      <4>1. p \in DOMAIN files /\ files[p] \in OwnSet /\ files[p].mode \notin Sealed
        BY <1>5, <2>1, <3>2
      <4>. QED
        BY <1>1, <1>2, <1>4, <4>1 DEF SealedInv, D
    <3>. QED
      BY <3>1, <3>2
  <2>. QED
    BY <2>1 DEF SealedInv, OwnSet, Inside, ChildOf
<1>14. Untouched
  BY <1>5, <1>6, <1>7 DEF Untouched
<1>. QED
  BY <1>9, <1>10, <1>11, <1>12, <1>13, <1>14 DEF Rest

LEMMA SealsInv ==
  ASSUME IInv, NEW j \in Jobs, NEW n, Becomes(j, n), Seals(j, n)
  PROVE  Rest' /\ Untouched
<1> DEFINE q == ChildOf(job[j])
<1>1. job'[j] = n /\ \A k \in Jobs : k # j => job'[k] = job[k]
  BY JobsAfter DEF IInv
<1>2. /\ job[j].pc = "chmod" /\ made' = made /\ n.pc = "loop"
      /\ n.dest = job[j].dest /\ n.intent = job[j].intent
  BY DEF Seals, Same
<1>3. PICK m \in Modes : /\ files' = [files EXCEPT ![q].mode = m]
                         /\ job[j].intent = "OverlayLower" => m \in Sealed
  BY DEF Seals
<1>4. FilesInv /\ OwnerInv /\ ChmodInv /\ SharedInv /\ SealedInv
  BY DEF IInv
<1>5. q \in DOMAIN files /\ files[q] \in OwnSet /\ q.dest = job[j].dest
  BY <1>2, <1>4, PathFields DEF ChmodInv, ChildOf
<1>6. Inside(job[j])
  BY <1>2 DEF Inside, Over
<1>7. /\ made[job[j].dest] = None
      /\ \A k \in Jobs : k # j /\ Inside(job[k]) => job[k].dest # job[j].dest
  BY <1>6, Alone
<1>8. \A k \in Jobs : ChildOf(job[k]).dest = job[k].dest
  BY PathFields DEF ChildOf
<1> HIDE DEF q
<1> DEFINE f == [files[q] EXCEPT !.mode = m]
<1>9. f \in OwnSet /\ f.mode = m
  <2>1. ASSUME NEW old \in OwnSet, NEW new, new = [old EXCEPT !.mode = m]
        PROVE  new \in OwnSet /\ new.mode = m
    BY <2>1 DEF OwnSet
  <2>. QED
    BY <1>5, <2>1
<1>10. files' = [files EXCEPT ![q] = f] /\ files = [p \in DOMAIN files |-> files[p]]
  BY <1>3, <1>4 DEF FilesInv
<1> HIDE DEF f
<1>11. /\ DOMAIN files' = DOMAIN files /\ files'[q] = f
       /\ files' = [p \in DOMAIN files' |-> files'[p]]
       /\ \A p \in DOMAIN files : p # q => files'[p] = files[p]
  BY <1>5, <1>10
<1>12. f \in FileSet /\ f \notin SharedSet
  BY <1>9, FileKinds DEF FileSet
<1>13. FilesInv'
  <2>1. \A p \in DOMAIN files' : /\ files'[p] \in FileSet /\ p.dest \in Dests
                                 /\ Path(p.dest, <<>>) \in DOMAIN files'
    BY <1>4, <1>11, <1>12 DEF FilesInv
  <2>. QED
    BY <1>11, <2>1 DEF FilesInv, FileSet, SharedSet, OwnSet, Dir, Symlink, Path
<1>14. OwnerInv'
  <2>1. \A k \in Jobs : Inside(job'[k]) =>
          Path(job'[k].dest, <<>>) \in DOMAIN files' /\ made'[job'[k].dest] = None
    BY <1>1, <1>2, <1>4, <1>6, <1>11 DEF OwnerInv
  <2>2. \A k, l \in Jobs : Inside(job'[k]) /\ Inside(job'[l]) /\ job'[k].dest = job'[l].dest => k = l
    BY <1>1, <1>2, <1>4, <1>6 DEF OwnerInv
  <2>3. /\ made' = [d \in Dests |-> made'[d]]
        /\ \A d \in Dests : made'[d] # None => Path(d, <<>>) \in DOMAIN files'
    BY <1>2, <1>4, <1>11 DEF OwnerInv
  <2>. QED
    BY <2>1, <2>2, <2>3 DEF OwnerInv, Inside, Path
<1>15. ChmodInv'
  <2>1. ASSUME NEW k \in Jobs, job'[k].pc = "chmod"
        PROVE  ChildOf(job'[k]) \in DOMAIN files' /\ files'[ChildOf(job'[k])] \in OwnSet
    <3>1. k # j /\ job'[k] = job[k]
      BY <1>1, <1>2, <2>1
    <3>. QED
      BY <1>4, <1>9, <1>11, <2>1, <3>1 DEF ChmodInv
  <2>. QED
    BY <2>1 DEF ChmodInv, ChildOf, OwnSet
<1>16. SharedInv'
  <2>1. ASSUME NEW p \in DOMAIN files', files'[p] \in SharedSet
        PROVE  /\ \A k \in Jobs : Inside(job'[k]) /\ job'[k].dest = p.dest =>
                    job'[k].intent = "OverlayLower"
               /\ made'[p.dest] # None => made'[p.dest].intent = "OverlayLower"
    <3>1. p # q /\ p \in DOMAIN files /\ files[p] \in SharedSet
      BY <1>11, <1>12, <2>1
    <3>. QED
      BY <1>1, <1>2, <1>4, <1>6, <3>1 DEF SharedInv
  <2>. QED
    BY <2>1 DEF SharedInv, SharedSet, Inside
<1>17. SealedInv'
  <2>1. ASSUME NEW p \in DOMAIN files', files'[p] \in OwnSet, files'[p].mode \notin Sealed
        PROVE  /\ \A k \in Jobs : Inside(job'[k]) /\ job'[k].dest = p.dest =>
                    \/ job'[k].intent # "OverlayLower"
                    \/ job'[k].pc = "chmod" /\ p = ChildOf(job'[k])
               /\ made'[p.dest] # None => made'[p.dest].intent # "OverlayLower"
    <3>1. CASE p = q
      BY <1>1, <1>2, <1>3, <1>5, <1>7, <1>9, <1>11, <2>1, <3>1
    <3>2. CASE p # q
      <4>1. p \in DOMAIN files /\ files[p] \in OwnSet /\ files[p].mode \notin Sealed
        BY <1>11, <2>1, <3>2
      <4>. QED
        BY <1>1, <1>2, <1>4, <1>6, <3>2, <4>1 DEF SealedInv, q
    <3>. QED
      BY <3>1, <3>2
  <2>. QED
    BY <2>1 DEF SealedInv, OwnSet, Inside, ChildOf
<1>18. Untouched
  BY <1>5, <1>7, <1>11 DEF Untouched
<1>. QED
  BY <1>13, <1>14, <1>15, <1>16, <1>17, <1>18 DEF Rest

LEMMA CompletesInv ==
  ASSUME IInv, NEW j \in Jobs, NEW n, Becomes(j, n), Completes(j, n)
  PROVE  Rest' /\ Untouched
<1>1. job'[j] = n /\ \A k \in Jobs : k # j => job'[k] = job[k]
  BY JobsAfter DEF IInv
<1>2. Inside(job[j]) /\ job[j].pc = "loop" /\ n.pc = "done" /\ files' = files
  BY DEF Completes
<1>3. PICK m : m.intent = job[j].intent /\ made' = [made EXCEPT ![job[j].dest] = m]
  BY DEF Completes
<1>4. FilesInv /\ OwnerInv /\ ChmodInv /\ SharedInv /\ SealedInv
  BY DEF IInv
<1>5. /\ job[j].dest \in Dests /\ Path(job[j].dest, <<>>) \in DOMAIN files
      /\ \A k \in Jobs : k # j /\ Inside(job[k]) => job[k].dest # job[j].dest
  BY <1>2, Alone
<1>6. /\ made' = [d \in Dests |-> made'[d]] /\ made'[job[j].dest] = m
      /\ \A d \in Dests : d # job[j].dest => made'[d] = made[d]
  BY <1>3, <1>4, <1>5 DEF OwnerInv
<1>7. \A k \in Jobs : Inside(job'[k]) => k # j /\ job'[k] = job[k]
  BY <1>1, <1>2 DEF Inside, Over
<1>8. FilesInv'
  BY <1>2, <1>4 DEF FilesInv
<1>9. OwnerInv'
  <2>1. \A k \in Jobs : Inside(job'[k]) =>
          Path(job'[k].dest, <<>>) \in DOMAIN files' /\ made'[job'[k].dest] = None
    <3>1. \A k \in Jobs : Inside(job[k]) => job[k].dest \in Dests
      BY Alone
    <3>. QED
      BY <1>2, <1>4, <1>5, <1>6, <1>7, <3>1 DEF OwnerInv
  <2>2. \A k, l \in Jobs : Inside(job'[k]) /\ Inside(job'[l]) /\ job'[k].dest = job'[l].dest => k = l
    BY <1>4, <1>7 DEF OwnerInv
  <2>3. \A d \in Dests : made'[d] # None => Path(d, <<>>) \in DOMAIN files'
    BY <1>2, <1>4, <1>5, <1>6 DEF OwnerInv
  <2>. QED
    BY <1>6, <2>1, <2>2, <2>3 DEF OwnerInv, Inside, Path
<1>10. ChmodInv'
  BY <1>1, <1>2, <1>4 DEF ChmodInv, ChildOf
<1>11. SharedInv'
  BY <1>2, <1>3, <1>4, <1>6, <1>7 DEF SharedInv, Inside, FilesInv
<1>12. SealedInv'
  <2>1. ASSUME NEW p \in DOMAIN files', files'[p] \in OwnSet, files'[p].mode \notin Sealed
        PROVE  /\ \A k \in Jobs : Inside(job'[k]) /\ job'[k].dest = p.dest =>
                    \/ job'[k].intent # "OverlayLower"
                    \/ job'[k].pc = "chmod" /\ p = ChildOf(job'[k])
               /\ made'[p.dest] # None => made'[p.dest].intent # "OverlayLower"
    BY <1>2, <1>3, <1>4, <1>6, <1>7, <2>1 DEF SealedInv, FilesInv
  <2>. QED
    BY <2>1 DEF SealedInv, OwnSet, Inside, ChildOf
<1>13. Untouched
  BY <1>2 DEF Untouched
<1>. QED
  BY <1>8, <1>9, <1>10, <1>11, <1>12, <1>13 DEF Rest

LEMMA OutcomeInv ==
  ASSUME IInv, NEW j \in Jobs, Outcome(j)
  PROVE  IInv' /\ Untouched /\ UNCHANGED store
<1>1. PICK n \in JobSet :
        /\ JobOK(n) /\ job' = [job EXCEPT ![j] = n] /\ UNCHANGED store
        /\ Quiet(j, n) \/ Enters(j, n) \/ Makes(j, n) \/ Seals(j, n) \/ Completes(j, n)
  BY DEF Outcome
<1>2. Becomes(j, n)
  BY <1>1 DEF Becomes
<1>3. Rest' /\ Untouched
  BY <1>1, <1>2, QuietInv, EntersInv, MakesInv, SealsInv, CompletesInv
<1>4. JobsInv'
  BY <1>2, JobsAfter DEF IInv
<1>5. StoreInv'
  BY <1>1 DEF IInv, StoreInv
<1>. QED
  BY <1>1, <1>3, <1>4, <1>5 DEF IInv, Rest

(***************************************************************************)
(* The steps of the environment                                             *)
(***************************************************************************)
LEMMA UnlinkInv ==
  ASSUME IInv, NEW o, Unlink(o)
  PROVE  IInv' /\ Untouched /\ UNCHANGED store
<1>1. UNCHANGED <<store, files, job, made>>
  BY DEF Unlink
<1>2. JobsInv'
  BY <1>1 DEF IInv, JobsInv, JobOK, NodeOf
<1>3. FilesInv' /\ OwnerInv' /\ StoreInv'
  BY <1>1 DEF IInv, FilesInv, OwnerInv, StoreInv, Inside
<1>4. ChmodInv' /\ SharedInv' /\ SealedInv'
  BY <1>1 DEF IInv, ChmodInv, SharedInv, SealedInv, Inside, ChildOf
<1>. QED
  BY <1>1, <1>2, <1>3, <1>4 DEF IInv, Untouched

\* A step of a build writes only to a file of its own, never in a lowerdir
LEMMA WriteIs ==
  ASSUME IInv, NEW p \in DOMAIN files, Write(p)
  PROVE  /\ files[p] \in OwnSet /\ made[p.dest].intent # "OverlayLower"
         /\ files' = [files EXCEPT ![p].data = "edited"]
         /\ UNCHANGED <<store, job, made>>
<1>1. /\ made[p.dest] # None /\ files[p].kind = "file"
      /\ made[p.dest].intent = "PrivateInode" \/ Inode(files[p]).mode \in {"0644", "0755"}
      /\ UNCHANGED <<job, made>>
      /\ files[p].ino = None =>
           files' = [files EXCEPT ![p].data = "edited"] /\ UNCHANGED store
  BY DEF Write
<1>2. files[p] \in SharedSet \cup OwnSet
  BY <1>1 DEF IInv, FilesInv, FileSet, Dir, Symlink
<1>3. files[p] \notin SharedSet
  <2> SUFFICES ASSUME files[p] \in SharedSet PROVE FALSE
    OBVIOUS
  <2>1. made[p.dest].intent = "OverlayLower"
    BY <1>1 DEF IInv, SharedInv
  <2>2. files[p].ino \in Blobs /\ files[p].ino # None
    BY FileKinds DEF SharedSet
  <2>3. Inode(files[p]).mode = "0444"
    BY <2>2 DEF Inode, IInv, StoreInv
  <2>. QED
    BY <1>1, <2>1, <2>3
<1>4. files[p] \in OwnSet /\ files[p].ino = None
  BY <1>2, <1>3, FileKinds
<1>5. made[p.dest].intent # "OverlayLower"
  <2>1. Inode(files[p]).mode = files[p].mode
    BY <1>4 DEF Inode
  <2>2. files[p].mode \notin Sealed => made[p.dest].intent # "OverlayLower"
    BY <1>1, <1>4 DEF IInv, SealedInv
  <2>. QED
    BY <1>1, <2>1, <2>2 DEF Sealed
<1>. QED
  BY <1>1, <1>4, <1>5

LEMMA WriteInv ==
  ASSUME IInv, NEW p \in DOMAIN files, Write(p)
  PROVE  /\ IInv'
         /\ DOMAIN files' = DOMAIN files
         /\ \A q \in DOMAIN files : q # p => files'[q] = files[q]
         /\ files'[p] \in OwnSet
<1>1. /\ files[p] \in OwnSet /\ files' = [files EXCEPT ![p].data = "edited"]
      /\ store' = store /\ job' = job /\ made' = made
  BY WriteIs
<1>2. FilesInv /\ OwnerInv /\ ChmodInv /\ SharedInv /\ SealedInv
  BY DEF IInv
<1> DEFINE f == [files[p] EXCEPT !.data = "edited"]
<1>3. f \in OwnSet /\ f.mode = files[p].mode
  <2>1. ASSUME NEW old \in OwnSet, NEW new, new = [old EXCEPT !.data = "edited"]
        PROVE  new \in OwnSet /\ new.mode = old.mode
    BY <2>1 DEF OwnSet
  <2>. QED
    BY <1>1, <2>1
<1>4. files' = [files EXCEPT ![p] = f] /\ files = [q \in DOMAIN files |-> files[q]]
  BY <1>1, <1>2 DEF FilesInv
<1> HIDE DEF f
<1>5. /\ DOMAIN files' = DOMAIN files /\ files'[p] = f
      /\ files' = [q \in DOMAIN files' |-> files'[q]]
      /\ \A q \in DOMAIN files : q # p => files'[q] = files[q]
  BY <1>4
<1>6. f \in FileSet /\ f \notin SharedSet
  BY <1>3, FileKinds DEF FileSet
<1>7. JobsInv'
  BY <1>1 DEF IInv, JobsInv, JobOK, NodeOf
<1>8. FilesInv'
  <2>1. \A q \in DOMAIN files' : /\ files'[q] \in FileSet /\ q.dest \in Dests
                                 /\ Path(q.dest, <<>>) \in DOMAIN files'
    BY <1>2, <1>5, <1>6 DEF FilesInv
  <2>. QED
    BY <1>5, <2>1 DEF FilesInv, FileSet, SharedSet, OwnSet, Dir, Symlink, Path
<1>9. OwnerInv'
  BY <1>1, <1>2, <1>5 DEF OwnerInv, Inside, Path
<1>10. ChmodInv'
  BY <1>1, <1>2, <1>3, <1>5 DEF ChmodInv, ChildOf
<1>11. SharedInv'
  BY <1>1, <1>2, <1>5, <1>6 DEF SharedInv, Inside
<1>12. SealedInv'
  <2>1. ASSUME NEW q \in DOMAIN files', files'[q] \in OwnSet, files'[q].mode \notin Sealed
        PROVE  q \in DOMAIN files /\ files[q] \in OwnSet /\ files[q].mode \notin Sealed
    BY <1>1, <1>3, <1>5, <2>1
  <2>. QED
    BY <1>1, <1>2, <2>1 DEF SealedInv, OwnSet, Inside, ChildOf
<1>13. StoreInv'
  BY <1>1 DEF IInv, StoreInv
<1>. QED
  BY <1>3, <1>5, <1>7, <1>8, <1>9, <1>10, <1>11, <1>12, <1>13 DEF IInv

LEMMA CleanInv ==
  ASSUME IInv, NEW d \in Dests, Clean(d)
  PROVE  /\ IInv' /\ UNCHANGED store /\ made'[d] = None
         /\ \A p \in DOMAIN files : p.dest # d => p \in DOMAIN files' /\ files'[p] = files[p]
<1>1. /\ \A j \in Jobs : job[j].pc \notin Over => job[j].dest # d
      /\ files' = [p \in DOMAIN files \ Under(d) |-> files[p]]
      /\ made' = [made EXCEPT ![d] = None]
      /\ store' = store /\ job' = job
  BY DEF Clean, Running, Over
<1>2. FilesInv /\ OwnerInv /\ ChmodInv /\ SharedInv /\ SealedInv
  BY DEF IInv
<1>3. /\ DOMAIN files' = {p \in DOMAIN files : p.dest # d}
      /\ files' = [p \in DOMAIN files' |-> files'[p]]
      /\ \A p \in DOMAIN files' : files'[p] = files[p]
  BY <1>1 DEF Under
<1>4. /\ made' = [e \in Dests |-> made'[e]] /\ made'[d] = None
      /\ \A e \in Dests : e # d => made'[e] = made[e]
  BY <1>1, <1>2 DEF OwnerInv
<1>5. \A j \in Jobs : Inside(job[j]) => job[j].dest # d /\ job[j].dest \in Dests
  BY <1>1, Alone DEF Inside
<1>6. JobsInv'
  BY <1>1 DEF IInv, JobsInv, JobOK, NodeOf
<1>7. FilesInv'
  <2>1. \A p \in DOMAIN files' : /\ files'[p] \in FileSet /\ p.dest \in Dests
                                 /\ Path(p.dest, <<>>) \in DOMAIN files'
    BY <1>2, <1>3, PathFields DEF FilesInv
  <2>. QED
    BY <1>3, <2>1 DEF FilesInv, FileSet, SharedSet, OwnSet, Dir, Symlink, Path
<1>8. OwnerInv'
  <2>1. \A k \in Jobs : Inside(job'[k]) =>
          Path(job'[k].dest, <<>>) \in DOMAIN files' /\ made'[job'[k].dest] = None
    BY <1>1, <1>2, <1>3, <1>4, <1>5, PathFields DEF OwnerInv
  <2>2. \A k, l \in Jobs : Inside(job'[k]) /\ Inside(job'[l]) /\ job'[k].dest = job'[l].dest => k = l
    BY <1>1, <1>2 DEF OwnerInv
  <2>3. \A e \in Dests : made'[e] # None => Path(e, <<>>) \in DOMAIN files'
    BY <1>2, <1>3, <1>4, PathFields DEF OwnerInv
  <2>. QED
    BY <1>4, <2>1, <2>2, <2>3 DEF OwnerInv, Inside, Path
<1>9. ChmodInv'
  <2>1. ASSUME NEW j \in Jobs, job[j].pc = "chmod"
        PROVE  ChildOf(job[j]) \in DOMAIN files' /\ files'[ChildOf(job[j])] \in OwnSet
    <3>1. job[j].dest # d
      BY <1>1, <2>1 DEF Over
    <3>2. ChildOf(job[j]).dest = job[j].dest
      BY PathFields DEF ChildOf
    <3>. QED
      BY <1>2, <1>3, <2>1, <3>1, <3>2 DEF ChmodInv
  <2>. QED
    BY <1>1, <2>1 DEF ChmodInv, ChildOf, OwnSet
<1>10. SharedInv'
  BY <1>1, <1>2, <1>3, <1>4 DEF SharedInv, Inside, FilesInv
<1>11. SealedInv'
  BY <1>1, <1>2, <1>3, <1>4 DEF SealedInv, Inside, ChildOf, FilesInv
<1>12. StoreInv'
  BY <1>1 DEF IInv, StoreInv
<1>. QED
  BY <1>1, <1>3, <1>4, <1>6, <1>7, <1>8, <1>9, <1>10, <1>11, <1>12 DEF IInv

(***************************************************************************)
(* The theorems                                                             *)
(***************************************************************************)
LEMMA InvInit == Init => IInv
<1> SUFFICES ASSUME Init PROVE IInv
  OBVIOUS
<1>1. /\ store = [b \in Blobs |-> [data |-> b, mode |-> "0444"]]
      /\ job = [j \in Jobs |-> Idle] /\ made = [d \in Dests |-> None]
      /\ files = [p \in {} |-> Dir] /\ DOMAIN files = {}
  BY DEF Init
<1>2. \A j \in Jobs : job[j] = Idle /\ ~Inside(job[j]) /\ JobOK(job[j]) /\ job[j].pc = "idle"
  <2>1. Idle.pc = "idle"
    BY DEF Idle
  <2>. QED
    BY <1>1, <2>1, IdleOK
<1>3. JobsInv
  BY <1>1, <1>2 DEF JobsInv
<1>4. FilesInv /\ ChmodInv /\ SharedInv /\ SealedInv /\ StoreInv
  BY <1>1, <1>2 DEF FilesInv, ChmodInv, SharedInv, SealedInv, StoreInv
<1>5. OwnerInv
  BY <1>1, <1>2 DEF OwnerInv
<1>. QED
  BY <1>3, <1>4, <1>5 DEF IInv

\* A step of a call, and nothing else but a write or a removal, changes files
LEMMA CallInv ==
  ASSUME IInv, NEW j \in Jobs,
         \/ \E d \in Dests, t \in Roots, i \in Intents : Start(j, d, t, i)
         \/ Step(j) \/ Return(j) \/ Kill(j)
  PROVE  IInv' /\ Untouched /\ UNCHANGED store
<1>1. JobsInv /\ StoreInv
  BY DEF IInv
<1>2. Outcome(j)
  BY <1>1, StartIs, StopIs, EnterDirIs, LoadTreeIs, VisitIs, LeaveIs, CloneIs, LinkIs, CopyIs,
     ChmodIs DEF Step
<1>. QED
  BY <1>2, OutcomeInv

LEMMA InvStep == IInv /\ [Next]_vars => IInv'
<1> SUFFICES ASSUME IInv, [Next]_vars PROVE IInv'
  OBVIOUS
<1>1. CASE Next
  BY <1>1, CallInv, UnlinkInv, WriteInv, CleanInv DEF Next
<1>2. CASE UNCHANGED vars
  <2>1. UNCHANGED <<store, files, job, made>>
    BY <1>2 DEF vars
  <2>2. JobsInv'
    BY <2>1 DEF IInv, JobsInv, JobOK, NodeOf
  <2>3. FilesInv' /\ OwnerInv' /\ StoreInv'
    BY <2>1 DEF IInv, FilesInv, OwnerInv, StoreInv, Inside
  <2>4. ChmodInv' /\ SharedInv' /\ SealedInv'
    BY <2>1 DEF IInv, ChmodInv, SharedInv, SealedInv, Inside, ChildOf
  <2>. QED
    BY <2>2, <2>3, <2>4 DEF IInv
<1>. QED
  BY <1>1, <1>2

\* No write of a build step reaches an object of the store, whatever the trees, the
\* mechanisms that placed the files, the faults and the number of calls: a name of
\* an object is only ever made in a lowerdir, and is read-only there (link.rs, "The
\* hardlink trap").
THEOREM StoreNeverWritten == Spec => []StoreUntouched
<1>1. IInv => StoreUntouched
  BY DEF IInv, StoreInv, StoreUntouched
<1>. QED
  BY <1>1, InvInit, InvStep, PTL DEF Spec

\* A finished workspace shares no inode with the store unless it is a lowerdir, and
\* no file of a lowerdir can be written to, whichever mechanism placed it.
Isolated ==
    \A d \in Dests : made[d] # None =>
        \A p \in Under(d) : files[p].kind = "file" =>
            /\ made[d].intent # "OverlayLower" => files[p].ino = None
            /\ made[d].intent = "OverlayLower" => Inode(files[p]).mode \in Sealed

\* Every finished workspace is isolated: the intent reaches every file, also where
\* a clone or a hardlink is refused and a copy takes over the object's mode
\* (link.rs, materialize; store.rs, the chmod of a private file).
THEOREM WorkspacesIsolated == Spec => []Isolated
<1>1. IInv => Isolated
  <2> SUFFICES ASSUME IInv, NEW d \in Dests, made[d] # None, NEW p \in Under(d),
                      files[p].kind = "file"
               PROVE  /\ made[d].intent # "OverlayLower" => files[p].ino = None
                      /\ made[d].intent = "OverlayLower" => Inode(files[p]).mode \in Sealed
    BY DEF Isolated
  <2>1. p \in DOMAIN files /\ p.dest = d
    BY DEF Under
  <2>2. files[p] \in SharedSet \cup OwnSet
    BY <2>1 DEF IInv, FilesInv, FileSet, Dir, Symlink
  <2>3. CASE files[p] \in SharedSet
    <3>1. made[d].intent = "OverlayLower"
      BY <2>1, <2>3 DEF IInv, SharedInv
    <3>2. files[p].ino \in Blobs /\ files[p].ino # None
      BY <2>3, FileKinds DEF SharedSet
    <3>3. Inode(files[p]).mode = "0444"
      BY <3>2 DEF Inode, IInv, StoreInv
    <3>. QED
      BY <3>1, <3>3 DEF Sealed
  <2>4. CASE files[p] \in OwnSet
    <3>1. files[p].ino = None /\ Inode(files[p]).mode = files[p].mode
      BY <2>4, FileKinds DEF Inode
    <3>2. made[d].intent = "OverlayLower" => files[p].mode \in Sealed
      BY <2>1, <2>4 DEF IInv, SealedInv
    <3>. QED
      BY <3>1, <3>2
  <2>. QED
    BY <2>2, <2>3, <2>4
<1>. QED
  BY <1>1, InvInit, InvStep, PTL DEF Spec

\* A finished workspace is changed by nothing but its own steps' writes and its
\* removal: create_dir gives a destination to one call at a time, and what a call
\* makes is below the directory it made (store.rs, materialize_tree).
THEOREM FinishedUndisturbed == Spec => CompletedUndisturbed
<1>1. IInv /\ [Next]_vars =>
        [\A d \in Dests : made[d] # None /\ made'[d] # None =>
          \A p \in Under(d) :
             /\ p \in DOMAIN files'
             /\ files'[p].kind = files[p].kind
             /\ files[p].kind = "file" =>
                  /\ files'[p].ino = files[p].ino
                  /\ made[d].intent = "OverlayLower" => Inode(files[p])' = Inode(files[p])]_vars
  <2> SUFFICES ASSUME IInv, Next, NEW d \in Dests, made[d] # None, made'[d] # None,
                      NEW p \in Under(d)
               PROVE  /\ p \in DOMAIN files'
                      /\ files'[p].kind = files[p].kind
                      /\ files[p].kind = "file" =>
                           /\ files'[p].ino = files[p].ino
                           /\ made[d].intent = "OverlayLower" =>
                                Inode(files[p])' = Inode(files[p])
    OBVIOUS
  <2>1. p \in DOMAIN files /\ p.dest = d
    BY DEF Under
  <2>2. ASSUME p \in DOMAIN files', files'[p] = files[p], store' = store
        PROVE  Inode(files[p])' = Inode(files[p])
    BY <2>2 DEF Inode
  <2>3. ASSUME Untouched, UNCHANGED store
        PROVE  p \in DOMAIN files' /\ files'[p] = files[p] /\ Inode(files[p])' = Inode(files[p])
    BY <2>1, <2>2, <2>3 DEF Untouched
  <2>4. CASE \E j \in Jobs :
               \/ \E e \in Dests, t \in Roots, i \in Intents : Start(j, e, t, i)
               \/ Step(j) \/ Return(j) \/ Kill(j)
    BY <2>3, <2>4, CallInv
  <2>5. CASE \E o \in Digests : Unlink(o)
    BY <2>3, <2>5, UnlinkInv
  <2>6. CASE \E q \in DOMAIN files : Write(q)
    <3>1. PICK q \in DOMAIN files : Write(q)
      BY <2>6
    <3>2. /\ files[q] \in OwnSet /\ made[q.dest].intent # "OverlayLower" /\ store' = store
          /\ files'[q] \in OwnSet /\ DOMAIN files' = DOMAIN files
          /\ \A r \in DOMAIN files : r # q => files'[r] = files[r]
      BY <3>1, WriteIs, WriteInv
    <3>3. CASE p = q
      BY <2>1, <3>2, <3>3, FileKinds
    <3>4. CASE p # q
      BY <2>1, <2>2, <3>2, <3>4
    <3>. QED
      BY <3>3, <3>4
  <2>7. CASE \E e \in Dests : Clean(e)
    <3>1. PICK e \in Dests : Clean(e)
      BY <2>7
    <3>2. /\ made'[e] = None /\ store' = store
          /\ \A r \in DOMAIN files : r.dest # e => r \in DOMAIN files' /\ files'[r] = files[r]
      BY <3>1, CleanInv
    <3>. QED
      BY <2>1, <2>2, <3>2
  <2>. QED
    BY <2>4, <2>5, <2>6, <2>7 DEF Next
<1>. QED
  BY <1>1, InvInit, InvStep, PTL DEF Spec, CompletedUndisturbed

(***************************************************************************)
(* Where a path leads: Resolve goes from node to node. Two ways along one   *)
(* path agree at every position, as there is no least one where they differ.*)
(***************************************************************************)
\* A set of numbers has a least one
LEMMA Least ==
  ASSUME NEW S \in SUBSET Nat, S # {}
  PROVE  \E n \in S : \A k \in S : n <= k
<1> DEFINE Less == {p \in Nat \X Nat : p[1] < p[2]}
<1>1. IsWellFoundedOn(Less, Nat)
  BY NatLessThanWellFounded, Zenon DEF OpToRel
<1>2. PICK n \in S : \A k \in S : ~(<<k, n>> \in Less)
  BY <1>1, WFMin, Zenon
<1>3. ASSUME NEW k \in S PROVE n <= k
  <2>1. n \in Nat /\ k \in Nat
    OBVIOUS
  <2>2. k < n => <<k, n>> \in Less
    BY <2>1
  <2> HIDE DEF Less
  <2>. QED
    BY <1>2, <2>1, <2>2
<1>. QED
  BY <1>3

\* The node that entry i of node leads to
Below(node, i) ==
    IF node # None /\ node.kind = "dir" /\ i <= Len(Entries[node.digest])
      THEN Entries[node.digest][i]
      ELSE None

\* f holds the nodes on the way from t along the first m positions of at
Walk(f, t, at, m) ==
    f = [n \in 0 .. m |-> IF n = 0 THEN DirNode(t) ELSE Below(f[n - 1], at[n])]

\* There is a way along every path
LEMMA WalkExists ==
  ASSUME NEW t, NEW at, NEW m \in Nat
  PROVE  \E f : Walk(f, t, at, m)
<1> DEFINE Bad == {k \in Nat : ~\E f : Walk(f, t, at, k)}
<1> SUFFICES ASSUME Bad # {} PROVE FALSE
  OBVIOUS
<1>1. PICK k \in Bad : \A i \in Bad : k <= i
  <2>1. Bad \in SUBSET Nat
    OBVIOUS
  <2> HIDE DEF Bad
  <2>. QED
    BY <2>1, Least
<1>2. k # 0
  <2> DEFINE f == [n \in 0 .. 0 |-> DirNode(t)]
  <2>1. f = [n \in 0 .. 0 |-> IF n = 0 THEN DirNode(t) ELSE Below(f[n - 1], at[n])]
    OBVIOUS
  <2> HIDE DEF f
  <2>2. Walk(f, t, at, 0)
    BY <2>1 DEF Walk
  <2>. QED
    BY <2>2
<1>3. k - 1 \in Nat /\ k - 1 \notin Bad
  <2>1. k \in Nat
    OBVIOUS
  <2> HIDE DEF Bad
  <2>. QED
    BY <1>1, <1>2, <2>1
<1>4. PICK f : Walk(f, t, at, k - 1)
  BY <1>3
<1> DEFINE g == [n \in 0 .. k |-> IF n = k THEN Below(f[k - 1], at[k]) ELSE f[n]]
           h == [n \in 0 .. k |-> IF n = 0 THEN DirNode(t) ELSE Below(g[n - 1], at[n])]
<1>5. ASSUME NEW n \in 0 .. k PROVE g[n] = h[n]
  <2>1. CASE n = k
    <3>1. k - 1 \in 0 .. k /\ k - 1 # k /\ g[k - 1] = f[k - 1]
      BY <1>2, <1>3
    <3>. QED
      BY <1>2, <2>1, <3>1
  <2>2. CASE n # k /\ n # 0
    <3>1. n - 1 \in 0 .. k /\ n - 1 # k /\ n \in 0 .. (k - 1) /\ g[n - 1] = f[n - 1] /\ g[n] = f[n]
      BY <1>3, <2>2
    <3>2. f[n] = Below(f[n - 1], at[n])
      BY <1>4, <2>2, <3>1 DEF Walk
    <3>. QED
      BY <2>2, <3>1, <3>2
  <2>3. CASE n # k /\ n = 0
    <3>1. n \in 0 .. (k - 1) /\ g[n] = f[n]
      BY <1>3, <2>3
    <3>2. f[n] = DirNode(t)
      BY <1>4, <2>3, <3>1 DEF Walk
    <3>. QED
      BY <2>3, <3>1, <3>2
  <2>. QED
    BY <2>1, <2>2, <2>3
<1>6. g = h
  <2>1. g = [n \in 0 .. k |-> g[n]] /\ h = [n \in 0 .. k |-> h[n]]
    OBVIOUS
  <2> HIDE DEF g, h
  <2>. QED
    BY <1>5, <2>1
<1>7. Walk(g, t, at, k)
  <2>1. g = [n \in 0 .. k |-> IF n = 0 THEN DirNode(t) ELSE Below(g[n - 1], at[n])]
    BY <1>6
  <2> HIDE DEF g
  <2>. QED
    BY <2>1 DEF Walk
<1>. QED
  BY <1>7

Agree(at, bt, m) == \A n \in 1 .. m : at[n] = bt[n]

\* And only one
LEMMA WalkUnique ==
  ASSUME NEW t, NEW at, NEW bt, NEW m \in Nat, NEW k \in Nat, m <= k,
         Agree(at, bt, m),
         NEW f, Walk(f, t, at, m), NEW g, Walk(g, t, bt, k)
  PROVE  \A n \in 0 .. m : f[n] = g[n]
<1> DEFINE Bad == {n \in 0 .. m : f[n] # g[n]}
<1> SUFFICES ASSUME Bad # {} PROVE FALSE
  OBVIOUS
<1>1. PICK i \in Bad : \A n \in Bad : i <= n
  <2>1. Bad \in SUBSET Nat
    OBVIOUS
  <2> HIDE DEF Bad
  <2>. QED
    BY <2>1, Least
<1>2. i \in 0 .. m /\ i \in 0 .. k /\ f[i] # g[i]
  OBVIOUS
<1>3. i # 0
  BY <1>2 DEF Walk
<1>4. i - 1 \in 0 .. m /\ f[i - 1] = g[i - 1] /\ at[i] = bt[i]
  <2>1. i - 1 \in 0 .. m /\ i \in 1 .. m /\ ~(i <= i - 1)
    BY <1>2, <1>3
  <2>2. i - 1 \notin Bad
    <3> HIDE DEF Bad
    <3>. QED
      BY <1>1, <2>1
  <2>. QED
    BY <2>1, <2>2 DEF Agree
<1>5. f[i] = Below(f[i - 1], at[i]) /\ g[i] = Below(g[i - 1], bt[i])
  BY <1>2, <1>3 DEF Walk
<1>. QED
  BY <1>2, <1>4, <1>5

\* Resolve is where it ends
LEMMA ResolveWalk ==
  ASSUME NEW t, NEW at \in Seq(Nat)
  PROVE  \E f : Walk(f, t, at, Len(at)) /\ Resolve(t, at) = f[Len(at)]
<1> DEFINE P(f) == f = [n \in 0 .. Len(at) |->
               IF n = 0 THEN DirNode(t)
               ELSE IF f[n - 1] # None /\ f[n - 1].kind = "dir"
                    /\ at[n] <= Len(Entries[f[n - 1].digest])
               THEN Entries[f[n - 1].digest][at[n]]
               ELSE None]
<1>1. Resolve(t, at) = (CHOOSE f : P(f))[Len(at)]
  BY DEF Resolve
<1>2. \A f : P(f) <=> Walk(f, t, at, Len(at))
  BY DEF Walk, Below
<1>3. \E f : P(f)
  <2>1. Len(at) \in Nat
    OBVIOUS
  <2>2. \E f : Walk(f, t, at, Len(at))
    BY <2>1, WalkExists
  <2> HIDE DEF P
  <2>. QED
    BY <1>2, <2>2
<1>4. P(CHOOSE f : P(f))
  <2> HIDE DEF P
  <2>. QED
    BY <1>3
<1>. QED
  BY <1>1, <1>2, <1>4

\* The empty path is the tree itself
LEMMA ResolveRoot ==
  ASSUME NEW t
  PROVE  Resolve(t, <<>>) = DirNode(t)
<1>0. <<>> \in Seq(Nat)
  OBVIOUS
<1>1. PICK f : Walk(f, t, <<>>, Len(<<>>)) /\ Resolve(t, <<>>) = f[Len(<<>>)]
  BY <1>0, ResolveWalk, Zenon
<1>2. Len(<<>>) = 0
  OBVIOUS
<1>. QED
  BY <1>1, <1>2 DEF Walk

\* A longer path leads to an entry of where the shorter one leads
LEMMA ResolveBelow ==
  ASSUME NEW t, NEW at \in Seq(Nat), NEW i \in Nat
  PROVE  Resolve(t, Append(at, i)) = Below(Resolve(t, at), i)
<1> DEFINE bt == Append(at, i)
           m == Len(at)
<1>1. /\ bt \in Seq(Nat) /\ Len(bt) = m + 1 /\ m \in Nat /\ bt[m + 1] = i
      /\ \A n \in 1 .. m : at[n] = bt[n]
  OBVIOUS
<1> HIDE DEF bt, m
<1>2. PICK f : Walk(f, t, at, m) /\ Resolve(t, at) = f[m]
  BY ResolveWalk DEF m
<1>3. PICK g : Walk(g, t, bt, m + 1) /\ Resolve(t, bt) = g[m + 1]
  BY <1>1, ResolveWalk
<1>4. f[m] = g[m]
  <2> DEFINE k == m + 1
  <2>1. m \in Nat /\ k \in Nat /\ m <= k /\ m \in 0 .. m
    BY <1>1
  <2>2. Walk(f, t, at, m) /\ Walk(g, t, bt, k)
    BY <1>2, <1>3
  <2>3. Agree(at, bt, m)
    BY <1>1 DEF Agree
  <2> HIDE DEF k
  <2>4. \A n \in 0 .. m : f[n] = g[n]
    BY <2>1, <2>2, <2>3, WalkUnique
  <2>. QED
    BY <2>1, <2>4
<1>5. g[m + 1] = Below(g[m], i)
  BY <1>1, <1>3 DEF Walk
<1>. QED
  BY <1>2, <1>3, <1>4, <1>5 DEF bt

(***************************************************************************)
(* A call half-way through its tree                                         *)
(***************************************************************************)

\* The files of F under destination d
Part(F, d) == [p \in {q \in DOMAIN F : q.dest = d} |-> F[p]]

\* What a file contains and its mode, while every object is what it was
Data(f) == IF f.ino = None THEN f.data ELSE f.ino
Mode(f) == IF f.ino = None THEN f.mode ELSE "0444"

Fits(f, node, intent) ==
    /\ node # None
    /\ f.kind = node.kind
    /\ f.kind = "file" =>
         /\ Mode(f) = Want(intent, node.executable)
         /\ Data(f) = node.digest \/ (Data(f) = "edited" /\ intent = "PrivateInode")

\* A file whose mode is still to be set
FitsButMode(f, node) ==
    node # None /\ f.kind = "file" /\ node.kind = "file" /\ Data(f) = node.digest

\* The stack is the way from the root to the directory that is being filled
Walked(r) ==
    /\ \A l \in 1 .. Len(r.stack) :
         /\ Len(r.stack[l].at) = Len(r.stack) - l
         /\ Resolve(r.root, r.stack[l].at) = DirNode(r.stack[l].tree)
         /\ l > 1 => r.stack[l - 1].at = Append(r.stack[l].at, r.stack[l].next)
    /\ r.pc \in {"mkdir", "load"} => r.stack[1].next = 1
    /\ r.pc \in Placing => r.stack[1].next <= Len(Entries[r.stack[1].tree])
    /\ r.pc = "link" => ~NodeOf(r).executable

\* The directories on that way are there
Opened(r, U) ==
    \A l \in 1 .. Len(r.stack) :
        l > 1 \/ r.pc # "mkdir" => Path(r.dest, r.stack[l].at) \in DOMAIN U

\* Everything is in a directory
Closed(d, U) ==
    \A at \in Seq(Nat), i \in Nat :
        Path(d, Append(at, i)) \in DOMAIN U => Path(d, at) \in DOMAIN U

\* Of the entries from the current ones on nothing is there
Reached(r, l) == IF l = 1 /\ r.pc # "chmod" THEN r.stack[l].next ELSE r.stack[l].next + 1
Ahead(r, U) ==
    \A l \in 1 .. Len(r.stack), i \in Nat :
        i >= Reached(r, l) => Path(r.dest, Append(r.stack[l].at, i)) \notin DOMAIN U

\* Of those before them everything is
Behind(r, U) ==
    \A p \in DOMAIN U : Resolve(r.root, p.at).kind = "dir" =>
        /\ Len(p.at) <= MaxDepth
        /\ \A i \in 1 .. Len(Entries[Resolve(r.root, p.at).digest]) :
             \/ Path(r.dest, Append(p.at, i)) \in DOMAIN U
             \/ \E l \in 1 .. Len(r.stack) : r.stack[l].at = p.at /\ i >= r.stack[l].next

\* And it is what the tree promises, but for the mode of the file just made
Fitting(r, U) ==
    \A p \in DOMAIN U :
        IF r.pc = "chmod" /\ p = ChildOf(r)
          THEN FitsButMode(U[p], Resolve(r.root, p.at))
          ELSE Fits(U[p], Resolve(r.root, p.at), r.intent)

Dirs(U)     == {p \in DOMAIN U : U[p].kind = "dir"}
Symlinks(U) == {p \in DOMAIN U : U[p].kind = "symlink"}
Linked(U)   == {p \in DOMAIN U : U[p].kind = "file" /\ U[p].ino # None}
Private(U)  == {p \in DOMAIN U : U[p].kind = "file" /\ U[p].ino = None}

Counts(U, s) ==
    /\ IsFiniteSet(DOMAIN U)
    /\ s["dirs"] = Cardinality(Dirs(U))
    /\ s["symlinks"] = Cardinality(Symlinks(U))
    /\ s["hardlinked"] = Cardinality(Linked(U))
    /\ s["reflinked"] + s["copied"] = Cardinality(Private(U))

Progress(r, U) ==
    /\ Walked(r) /\ Opened(r, U) /\ Closed(r.dest, U) /\ Ahead(r, U) /\ Behind(r, U)
    /\ Fitting(r, U) /\ Counts(U, r.stats)

\* A call that has yet to make its destination
Fresh(r) ==
    /\ r.stack = <<Frame(<<>>, r.root)>> /\ r.root \in Trees
    /\ r.stats = [c \in Counters |-> 0]

\* A call that returned Ok
Finished(m, d, U) ==
    /\ m.intent \in Intents /\ Counts(U, m.stats)
    /\ \A p \in DOMAIN U :
         /\ Fits(U[p], Resolve(m.root, p.at), m.intent)
         /\ Resolve(m.root, p.at).kind = "dir" =>
              /\ Len(p.at) <= MaxDepth
              /\ \A i \in 1 .. Len(Entries[Resolve(m.root, p.at).digest]) :
                   Path(d, Append(p.at, i)) \in DOMAIN U

\* The second inductive invariant
CallOK(r, F) ==
    /\ Inside(r) => Progress(r, Part(F, r.dest))
    /\ r.pc = "mkdir" /\ Head(r.stack).at = <<>> => Fresh(r)

CallsInv == \A j \in Jobs : CallOK(job[j], files)
MadeInv == \A d \in Dests : made[d] # None => Finished(made[d], d, Part(files, d))

ExactInv == CallsInv /\ MadeInv

(***************************************************************************)
(* A call's way through its tree                                            *)
(***************************************************************************)
\* Entries of two directories are the same only if the directories are
LEMMA ChildPath ==
  ASSUME NEW d, NEW at \in Seq(Nat), NEW bt \in Seq(Nat), NEW i \in Nat, NEW k \in Nat,
         Path(d, Append(at, i)) = Path(d, Append(bt, k))
  PROVE  at = bt /\ i = k
<1> DEFINE x == Append(at, i)
           y == Append(bt, k)
<1>1. x = y
  <2>1. Path(d, x) = Path(d, y)
    OBVIOUS
  <2> HIDE DEF x, y
  <2>2. Path(d, x).at = Path(d, y).at
    BY <2>1
  <2>. QED
    BY <2>2, PathFields
<1>2. Len(x) = Len(at) + 1 /\ Len(y) = Len(bt) + 1 /\ Len(at) \in Nat /\ Len(bt) \in Nat
  OBVIOUS
<1>3. x[Len(at) + 1] = i /\ y[Len(bt) + 1] = k
  OBVIOUS
<1>4. /\ \A l \in 1 .. Len(at) : x[l] = at[l]
      /\ \A l \in 1 .. Len(bt) : y[l] = bt[l]
  OBVIOUS
<1> HIDE DEF x, y
<1>5. Len(at) = Len(bt) /\ i = k
  BY <1>1, <1>2, <1>3
<1>6. at = bt
  BY <1>1, <1>4, <1>5
<1>. QED
  BY <1>5, <1>6

\* The frames of a call that is under way
LEMMA StackIs ==
  ASSUME NEW r, JobOK(r), r.pc \notin Over
  PROVE  /\ Len(r.stack) \in Nat \ {0} /\ Head(r.stack) = r.stack[1] /\ 1 \in 1 .. Len(r.stack)
         /\ \A l \in 1 .. Len(r.stack) :
              /\ r.stack[l].at \in Seq(Nat) /\ r.stack[l].tree \in Trees
              /\ r.stack[l].next \in Nat \ {0} /\ Len(r.stack[l].at) \in Nat
              /\ Append(r.stack[l].at, r.stack[l].next) \in Seq(Nat)
<1>1. r.stack \in Seq(FrameSet) /\ r.stack # <<>>
  BY DEF JobOK, JobSet
<1>2. ASSUME NEW s \in Seq(FrameSet), s # <<>>
      PROVE  /\ Len(s) \in Nat \ {0} /\ Head(s) = s[1] /\ 1 \in 1 .. Len(s)
             /\ \A l \in 1 .. Len(s) : s[l] \in FrameSet
  BY <1>2
<1>3. ASSUME NEW f \in FrameSet
      PROVE  /\ f.at \in Seq(Nat) /\ f.tree \in Trees /\ f.next \in Nat \ {0}
             /\ Len(f.at) \in Nat /\ Append(f.at, f.next) \in Seq(Nat)
  <2>1. f.at \in Seq(Nat) /\ f.tree \in Trees /\ f.next \in Nat \ {0}
    BY DEF FrameSet
  <2>. QED
    BY <2>1
<1>. QED
  BY <1>1, <1>2, <1>3

\* Where entry next of the current directory leads
LEMMA ChildNode ==
  ASSUME NEW r, JobOK(r), r.pc \notin Over, Walked(r),
         r.stack[1].next <= Len(Entries[r.stack[1].tree])
  PROVE  /\ Resolve(r.root, Append(r.stack[1].at, r.stack[1].next)) = NodeOf(r)
         /\ NodeOf(r) \in Nodes /\ NodeOf(r) # None
<1> DEFINE f == r.stack[1]
<1>1. /\ f.at \in Seq(Nat) /\ f.tree \in Trees /\ f.next \in Nat \ {0} /\ Head(r.stack) = f
      /\ 1 \in 1 .. Len(r.stack)
  BY StackIs
<1>2. Resolve(r.root, f.at) = DirNode(f.tree)
  BY <1>1 DEF Walked
<1> HIDE DEF f
<1>3. Resolve(r.root, Append(f.at, f.next)) = Below(DirNode(f.tree), f.next)
  BY <1>1, <1>2, ResolveBelow
<1>4. DirNode(f.tree) # None /\ DirNode(f.tree).kind = "dir" /\ DirNode(f.tree).digest = f.tree
  <2>1. DirNode(f.tree) \in Nodes
    BY <1>1 DEF Nodes
  <2>. QED
    BY <2>1, BoundsAssumption DEF DirNode
<1>5. Entries[f.tree] \in Seq(Nodes) /\ f.next \in 1 .. Len(Entries[f.tree])
  BY <1>1, GraphAssumption DEF f
<1>6. Entries[f.tree][f.next] \in Nodes
  BY <1>5
<1>7. NodeOf(r) = Entries[f.tree][f.next]
  BY <1>1 DEF NodeOf
<1>. QED
  BY <1>3, <1>4, <1>5, <1>6, <1>7, BoundsAssumption DEF Below, f

\* The node of a directory
LEMMA DirIs ==
  ASSUME NEW t \in Trees
  PROVE  DirNode(t) # None /\ DirNode(t).kind = "dir" /\ DirNode(t).digest = t
<1>1. DirNode(t) \in Nodes
  BY DEF Nodes
<1>. QED
  BY <1>1, BoundsAssumption DEF DirNode

Continues(r, n) == n.dest = r.dest /\ n.root = r.root /\ n.intent = r.intent

\* A call goes on where it is, and makes nothing
LEMMA KeepProgress ==
  ASSUME NEW r, NEW n, NEW U, Progress(r, U), Continues(r, n), n.stack = r.stack,
         n.stats = r.stats, r.pc \notin {"mkdir", "chmod"}, n.pc \notin {"mkdir", "load", "chmod"},
         n.pc \in Placing => r.stack[1].next <= Len(Entries[r.stack[1].tree]),
         n.pc = "link" => ~NodeOf(r).executable
  PROVE  Progress(n, U)
<1>1. Walked(n)
  BY DEF Progress, Walked, Continues, NodeOf
<1>2. Opened(n, U)
  BY DEF Progress, Opened, Continues
<1>3. Closed(n.dest, U) /\ Counts(U, n.stats)
  BY DEF Progress, Continues
<1>4. Ahead(n, U)
  BY DEF Progress, Ahead, Continues, Reached
<1>5. Behind(n, U)
  BY DEF Progress, Behind, Continues
<1>6. Fitting(n, U)
  BY DEF Progress, Fitting, Continues
<1>. QED
  BY <1>1, <1>2, <1>3, <1>4, <1>5, <1>6 DEF Progress

\* It begins a directory
Pushed(s, f, t) ==
    /\ Len(t) = Len(s) + 1 /\ t[1] = f
    /\ \A l \in 2 .. Len(t) : t[l] = s[l - 1]

\* A call goes down into a directory
LEMMA PushProgress ==
  ASSUME NEW r, JobOK(r), NEW n, NEW U, Progress(r, U), Continues(r, n), r.pc = "loop",
         r.stack[1].next <= Len(Entries[r.stack[1].tree]), NodeOf(r).kind = "dir",
         Pushed(r.stack, Frame(Append(r.stack[1].at, r.stack[1].next), NodeOf(r).digest), n.stack),
         n.pc = "mkdir", n.stats = r.stats
  PROVE  Progress(n, U)
<1> DEFINE s == r.stack
           t == n.stack
           new == Append(s[1].at, s[1].next)
<1>0. r.pc \notin Over /\ r.pc # "chmod" /\ n.pc # "chmod" /\ n.pc \notin Placing /\ n.pc # "link"
  BY DEF Over, Placing
<1>1. /\ Len(s) \in Nat \ {0} /\ 1 \in 1 .. Len(s)
      /\ \A l \in 1 .. Len(s) : s[l].at \in Seq(Nat) /\ s[l].next \in Nat \ {0}
      /\ new \in Seq(Nat)
  BY <1>0, StackIs
<1>2. /\ Walked(r) /\ Opened(r, U) /\ Closed(r.dest, U) /\ Ahead(r, U) /\ Behind(r, U)
      /\ Fitting(r, U) /\ Counts(U, r.stats) /\ n.dest = r.dest /\ n.root = r.root
      /\ n.intent = r.intent
  BY DEF Progress, Continues
<1>3. /\ Len(t) = Len(s) + 1 /\ t[1].at = new /\ t[1].tree = NodeOf(r).digest /\ t[1].next = 1
      /\ \A l \in 2 .. Len(t) : l - 1 \in 1 .. Len(s) /\ t[l] = s[l - 1]
  BY <1>1 DEF Pushed, Frame
<1>4. Resolve(r.root, new) = NodeOf(r) /\ NodeOf(r) = DirNode(NodeOf(r).digest)
  <2>1. Resolve(r.root, new) = NodeOf(r) /\ NodeOf(r) \in Nodes
    BY <1>0, <1>2, ChildNode
  <2>. QED
    BY <2>1 DEF Nodes, FileNode, DirNode, SymlinkNode
<1>5. Len(new) = Len(s[1].at) + 1 /\ Len(s[1].at) = Len(s) - 1
  BY <1>1, <1>2 DEF Walked
<1> HIDE DEF s, t, new
<1>6. Walked(n)
  <2>1. ASSUME NEW l \in 1 .. Len(t)
        PROVE  /\ Len(t[l].at) = Len(t) - l
               /\ Resolve(r.root, t[l].at) = DirNode(t[l].tree)
               /\ l > 1 => t[l - 1].at = Append(t[l].at, t[l].next)
    <3>1. CASE l = 1
      BY <1>1, <1>3, <1>4, <1>5, <3>1
    <3>2. CASE l = 2
      <4>1. t[2] = s[1]
        BY <1>1, <1>3, <3>2
      <4>. QED
        BY <1>1, <1>2, <1>3, <1>5, <3>2, <4>1 DEF Walked, new, s
    <3>3. CASE l > 2
      <4> DEFINE k == l - 1
      <4>1. k \in 1 .. Len(s) /\ k > 1 /\ t[l] = s[k] /\ t[l - 1] = s[k - 1]
        BY <1>1, <1>3, <3>3
      <4>2. /\ Len(s[k].at) = Len(s) - k
            /\ Resolve(r.root, s[k].at) = DirNode(s[k].tree)
            /\ s[k - 1].at = Append(s[k].at, s[k].next)
        BY <1>2, <4>1 DEF Walked, s
      <4>. QED
        BY <1>1, <1>3, <3>3, <4>1, <4>2
    <3>. QED
      BY <1>1, <1>3, <3>1, <3>2, <3>3
  <2>. QED
    BY <1>0, <1>2, <1>3, <2>1 DEF Walked, t
<1>7. Opened(n, U)
  <2>1. ASSUME NEW l \in 1 .. Len(t), l > 1
        PROVE  Path(r.dest, t[l].at) \in DOMAIN U
    <3>1. l - 1 \in 1 .. Len(s) /\ t[l] = s[l - 1]
      BY <1>1, <1>3, <2>1
    <3>. QED
      BY <1>2, <3>1 DEF Opened, s
  <2>. QED
    BY <1>2, <2>1 DEF Opened, t
<1>8. Ahead(n, U)
  <2>1. ASSUME NEW l \in 1 .. Len(t), NEW i \in Nat, i >= Reached(n, l)
        PROVE  Path(r.dest, Append(t[l].at, i)) \notin DOMAIN U
    <3>1. CASE l = 1
      <4>1. Path(r.dest, new) \notin DOMAIN U
        <5>1. s[1].next \in Nat /\ s[1].next >= Reached(r, 1)
          BY <1>0, <1>1 DEF Reached, s
        <5>. QED
          BY <1>1, <1>2, <5>1 DEF Ahead, new, s
      <4>. QED
        BY <1>1, <1>2, <1>3, <3>1, <4>1 DEF Closed
    <3>2. CASE l > 1
      <4> DEFINE k == l - 1
      <4>1. k \in 1 .. Len(s) /\ t[l] = s[k]
        BY <1>1, <1>3, <3>2
      <4>2. i >= Reached(r, k)
        BY <1>0, <1>1, <2>1, <3>2, <4>1 DEF Reached, s, t
      <4>. QED
        BY <1>2, <4>1, <4>2 DEF Ahead, s
    <3>. QED
      BY <3>1, <3>2
  <2>. QED
    BY <1>2, <2>1 DEF Ahead, t
<1>9. Behind(n, U)
  <2>1. ASSUME NEW l \in 1 .. Len(s) PROVE l + 1 \in 1 .. Len(t) /\ t[l + 1] = s[l]
    BY <1>1, <1>3
  <2>2. ASSUME NEW p, NEW i, \E l \in 1 .. Len(s) : s[l].at = p.at /\ i >= s[l].next
        PROVE  \E l \in 1 .. Len(t) : t[l].at = p.at /\ i >= t[l].next
    <3>1. PICK l \in 1 .. Len(s) : s[l].at = p.at /\ i >= s[l].next
      BY <2>2
    <3>. QED
      BY <2>1, <3>1
  <2>. QED
    BY <1>2, <2>2 DEF Behind, s, t
<1>10. Fitting(n, U)
  BY <1>0, <1>2 DEF Fitting
<1>. QED
  BY <1>2, <1>6, <1>7, <1>8, <1>9, <1>10 DEF Progress

\* It is through with a directory
Popped(s, t) ==
    /\ Len(t) = Len(s) - 1
    /\ t[1].at = s[2].at /\ t[1].tree = s[2].tree /\ t[1].next = s[2].next + 1
    /\ \A l \in 2 .. Len(t) : t[l] = s[l + 1]

\* A call is done with a directory, and back in the one above
LEMMA PopProgress ==
  ASSUME NEW r, JobOK(r), NEW n, NEW U, Progress(r, U), Continues(r, n), r.pc = "loop",
         r.stack[1].next > Len(Entries[r.stack[1].tree]), Len(r.stack) > 1,
         Popped(r.stack, n.stack), n.pc = "loop", n.stats = r.stats
  PROVE  Progress(n, U)
<1> DEFINE s == r.stack
           t == n.stack
<1>0. r.pc \notin Over /\ r.pc # "chmod" /\ n.pc # "chmod" /\ r.pc # "mkdir"
      /\ n.pc \notin Placing \cup {"mkdir", "load", "link"}
  BY DEF Over, Placing
<1>1. /\ Len(s) \in Nat \ {0} /\ {1, 2} \subseteq 1 .. Len(s) /\ Len(s) > 1
      /\ \A l \in 1 .. Len(s) : /\ s[l].at \in Seq(Nat) /\ s[l].next \in Nat \ {0}
                                /\ s[l].tree \in Trees
  BY <1>0, StackIs
<1>2. /\ Walked(r) /\ Opened(r, U) /\ Closed(r.dest, U) /\ Ahead(r, U) /\ Behind(r, U)
      /\ Fitting(r, U) /\ Counts(U, r.stats) /\ n.dest = r.dest /\ n.root = r.root
      /\ n.intent = r.intent
  BY DEF Progress, Continues
<1>3. /\ Len(t) = Len(s) - 1 /\ t[1].at = s[2].at /\ t[1].tree = s[2].tree
      /\ t[1].next = s[2].next + 1
      /\ \A l \in 2 .. Len(t) : l + 1 \in 1 .. Len(s) /\ t[l] = s[l + 1]
  BY <1>1 DEF Popped
<1>4. /\ \A l \in 1 .. Len(t) : /\ l + 1 \in 1 .. Len(s)
                                /\ t[l].at = s[l + 1].at /\ t[l].tree = s[l + 1].tree
      /\ \A l \in 1 .. Len(t) : l > 1 => t[l].next = s[l + 1].next
  <2> HIDE DEF s, t
  <2> SUFFICES ASSUME NEW l \in 1 .. Len(t)
               PROVE  /\ l + 1 \in 1 .. Len(s)
                      /\ t[l].at = s[l + 1].at /\ t[l].tree = s[l + 1].tree
                      /\ l > 1 => t[l].next = s[l + 1].next
    BY Zenon
  <2>1. CASE l = 1
    BY <1>1, <1>3, <2>1
  <2>2. CASE l # 1
    <3>1. l \in 2 .. Len(t) /\ l + 1 \in 1 .. Len(s)
      BY <1>1, <1>3, <2>2
    <3>. QED
      BY <1>3, <3>1
  <2>. QED
    BY <2>1, <2>2
<1>t. s[1].next > Len(Entries[s[1].tree])
  OBVIOUS
<1> HIDE DEF s, t
<1>5. Walked(n)
  <2>1. ASSUME NEW l \in 1 .. Len(t)
        PROVE  /\ Len(t[l].at) = Len(t) - l
               /\ Resolve(r.root, t[l].at) = DirNode(t[l].tree)
               /\ l > 1 => t[l - 1].at = Append(t[l].at, t[l].next)
    <3> DEFINE k == l + 1
    <3>1. k \in 1 .. Len(s) /\ k > 1 /\ t[l].at = s[k].at /\ t[l].tree = s[k].tree
      BY <1>1, <1>3, <1>4
    <3>2. /\ Len(s[k].at) = Len(s) - k
          /\ Resolve(r.root, s[k].at) = DirNode(s[k].tree)
          /\ s[k - 1].at = Append(s[k].at, s[k].next)
      BY <1>2, <3>1 DEF Walked, s
    <3>3. l > 1 => t[l - 1].at = s[k - 1].at /\ t[l].next = s[k].next
      <4> SUFFICES ASSUME l > 1 PROVE t[l - 1].at = s[k - 1].at /\ t[l].next = s[k].next
        OBVIOUS
      <4>1. l - 1 \in 1 .. Len(t) /\ (l - 1) + 1 = k - 1
        BY <1>1, <1>3
      <4>. QED
        BY <1>4, <4>1
    <3>. QED
      BY <1>1, <1>3, <3>1, <3>2, <3>3
  <2>. QED
    BY <1>0, <1>2, <2>1 DEF Walked, t
<1>6. Opened(n, U)
  <2>1. ASSUME NEW l \in 1 .. Len(t)
        PROVE  Path(r.dest, t[l].at) \in DOMAIN U
    BY <1>0, <1>2, <1>4 DEF Opened, s
  <2>. QED
    BY <1>2, <2>1 DEF Opened, t
<1>7. Ahead(n, U)
  <2>1. ASSUME NEW l \in 1 .. Len(t), NEW i \in Nat, i >= Reached(n, l)
        PROVE  Path(r.dest, Append(t[l].at, i)) \notin DOMAIN U
    <3> DEFINE k == l + 1
    <3>1. k \in 1 .. Len(s) /\ k # 1 /\ t[l].at = s[k].at
      BY <1>1, <1>3, <1>4
    <3>2. i >= Reached(r, k)
      BY <1>0, <1>1, <1>3, <1>4, <2>1, <3>1 DEF Reached, s, t
    <3>. QED
      BY <1>2, <3>1, <3>2 DEF Ahead, s
  <2>. QED
    BY <1>2, <2>1 DEF Ahead, t
<1>8. Behind(n, U)
  <2>1. ASSUME NEW p \in DOMAIN U, Resolve(r.root, p.at).kind = "dir",
               NEW i \in 1 .. Len(Entries[Resolve(r.root, p.at).digest]),
               Path(r.dest, Append(p.at, i)) \notin DOMAIN U
        PROVE  \E l \in 1 .. Len(t) : t[l].at = p.at /\ i >= t[l].next
    <3>1. PICK l \in 1 .. Len(s) : s[l].at = p.at /\ i >= s[l].next
      BY <1>2, <2>1 DEF Behind, s
    <3>2. l # 1
      <4> SUFFICES ASSUME l = 1 PROVE FALSE
        OBVIOUS
      <4>1. Resolve(r.root, p.at) = DirNode(s[1].tree) /\ s[1].tree \in Trees
        BY <1>1, <1>2, <3>1 DEF Walked, s
      <4>2. i \in 1 .. Len(Entries[s[1].tree])
        BY <2>1, <4>1, DirIs
      <4>3. Len(Entries[s[1].tree]) \in Nat
        BY <4>1, GraphAssumption
      <4>. QED
        BY <1>1, <1>t, <3>1, <4>2, <4>3
    <3>3. l = 2 => i # s[2].next
      <4> SUFFICES ASSUME l = 2, i = s[2].next PROVE FALSE
        OBVIOUS
      <4>1. Path(r.dest, s[1].at) \in DOMAIN U
        BY <1>0, <1>1, <1>2 DEF Opened, s
      <4>2. s[1].at = Append(s[2].at, s[2].next)
        <5>1. 2 \in 1 .. Len(s) /\ 2 > 1 /\ 2 - 1 = 1
          BY <1>1
        <5>. QED
          BY <1>2, <5>1 DEF Walked, s
      <4>. QED
        BY <2>1, <3>1, <4>1, <4>2
    <3> DEFINE k == l - 1
    <3>4. k \in 1 .. Len(t) /\ k + 1 = l /\ i \in Int
      BY <1>1, <1>3, <3>2
    <3>5. t[k].at = p.at
      BY <1>4, <3>1, <3>4
    <3>6. i >= t[k].next
      <4>1. CASE k = 1
        BY <1>1, <1>3, <3>1, <3>3, <3>4, <4>1
      <4>2. CASE k > 1
        BY <1>4, <3>1, <3>4, <4>2
      <4>. QED
        BY <3>4, <4>1, <4>2
    <3>. QED
      BY <3>4, <3>5, <3>6
  <2>. QED
    BY <1>2, <2>1 DEF Behind, t
<1>9. Fitting(n, U)
  BY <1>0, <1>2 DEF Fitting
<1>. QED
  BY <1>2, <1>5, <1>6, <1>7, <1>8, <1>9 DEF Progress

(***************************************************************************)
(* One more file                                                            *)
(***************************************************************************)
Grows(U, p, f, V) ==
    /\ p \notin DOMAIN U /\ DOMAIN V = DOMAIN U \cup {p} /\ V[p] = f
    /\ \A q \in DOMAIN U : V[q] = U[q]

\* One more file is one more of its kind
LEMMA GrowSets ==
  ASSUME NEW U, NEW p, NEW f \in FileSet, NEW V, Grows(U, p, f, V)
  PROVE  /\ Dirs(V) = IF f = Dir THEN Dirs(U) \cup {p} ELSE Dirs(U)
         /\ Symlinks(V) = IF f = Symlink THEN Symlinks(U) \cup {p} ELSE Symlinks(U)
         /\ Linked(V) = IF f \in SharedSet THEN Linked(U) \cup {p} ELSE Linked(U)
         /\ Private(V) = IF f \in OwnSet THEN Private(U) \cup {p} ELSE Private(U)
<1>1. /\ f = Dir <=> f.kind = "dir"
      /\ f = Symlink <=> f.kind = "symlink"
      /\ f \in SharedSet <=> f.kind = "file" /\ f.ino # None
      /\ f \in OwnSet <=> f.kind = "file" /\ f.ino = None
  <2>1. Dir.kind = "dir" /\ Symlink.kind = "symlink"
    BY DEF Dir, Symlink
  <2>2. f = Dir \/ f = Symlink \/ f \in SharedSet \/ f \in OwnSet
    BY DEF FileSet
  <2>. QED
    BY <2>1, <2>2, FileKinds
<1>2. /\ p \notin DOMAIN U /\ DOMAIN V = DOMAIN U \cup {p} /\ V[p] = f
      /\ \A q \in DOMAIN U : V[q] = U[q]
  BY DEF Grows
<1>3. Dirs(V) = IF f = Dir THEN Dirs(U) \cup {p} ELSE Dirs(U)
  BY <1>1, <1>2 DEF Dirs
<1>4. Symlinks(V) = IF f = Symlink THEN Symlinks(U) \cup {p} ELSE Symlinks(U)
  BY <1>1, <1>2 DEF Symlinks
<1>5. Linked(V) = IF f \in SharedSet THEN Linked(U) \cup {p} ELSE Linked(U)
  BY <1>1, <1>2 DEF Linked
<1>6. Private(V) = IF f \in OwnSet THEN Private(U) \cup {p} ELSE Private(U)
  BY <1>1, <1>2 DEF Private
<1>. QED
  BY <1>3, <1>4, <1>5, <1>6

\* One more member
LEMMA AddOne ==
  ASSUME NEW D, IsFiniteSet(D), NEW S \in SUBSET D, NEW p, p \notin D
  PROVE  Cardinality(S) \in Nat /\ Cardinality(S \cup {p}) = Cardinality(S) + 1
<1>1. IsFiniteSet(S)
  BY FS_Subset
<1>2. p \notin S
  OBVIOUS
<1>. QED
  BY <1>1, <1>2, FS_CardinalityType, FS_AddElement

\* Which counter stands for which file
CounterOf(c, f) ==
    \/ c = "dirs" /\ f = Dir
    \/ c = "symlinks" /\ f = Symlink
    \/ c = "hardlinked" /\ f \in SharedSet
    \/ c \in {"reflinked", "copied"} /\ f \in OwnSet

Bumped(s, c, z) == z[c] = s[c] + 1 /\ \A e \in Counters : e # c => z[e] = s[e]

\* The statistics of one more file
LEMMA GrowCounts ==
  ASSUME NEW U, NEW p, NEW f \in FileSet, NEW V, Grows(U, p, f, V),
         NEW s \in [Counters -> Nat], NEW c \in Counters, CounterOf(c, f),
         NEW z, Bumped(s, c, z), Counts(U, s)
  PROVE  Counts(V, z)
<1>1. /\ IsFiniteSet(DOMAIN U) /\ p \notin DOMAIN U /\ DOMAIN V = DOMAIN U \cup {p}
  BY DEF Counts, Grows
<1>2. /\ Dirs(U) \in SUBSET DOMAIN U /\ Symlinks(U) \in SUBSET DOMAIN U
      /\ Linked(U) \in SUBSET DOMAIN U /\ Private(U) \in SUBSET DOMAIN U
  BY DEF Dirs, Symlinks, Linked, Private
<1>3. /\ Cardinality(Dirs(U)) \in Nat
      /\ Cardinality(Dirs(U) \cup {p}) = Cardinality(Dirs(U)) + 1
      /\ Cardinality(Symlinks(U)) \in Nat
      /\ Cardinality(Symlinks(U) \cup {p}) = Cardinality(Symlinks(U)) + 1
      /\ Cardinality(Linked(U)) \in Nat
      /\ Cardinality(Linked(U) \cup {p}) = Cardinality(Linked(U)) + 1
      /\ Cardinality(Private(U)) \in Nat
      /\ Cardinality(Private(U) \cup {p}) = Cardinality(Private(U)) + 1
  BY <1>1, <1>2, AddOne
<1>4. IsFiniteSet(DOMAIN V)
  BY <1>1, FS_AddElement
<1>5. /\ s["dirs"] = Cardinality(Dirs(U)) /\ s["symlinks"] = Cardinality(Symlinks(U))
      /\ s["hardlinked"] = Cardinality(Linked(U))
      /\ s["reflinked"] + s["copied"] = Cardinality(Private(U))
  BY DEF Counts
<1>6. z[c] = s[c] + 1 /\ \A e \in Counters : e # c => z[e] = s[e]
  BY DEF Bumped
<1>7. /\ Dir # Symlink /\ Dir \notin SharedSet \cup OwnSet /\ Symlink \notin SharedSet \cup OwnSet
      /\ f \in SharedSet => f \notin OwnSet
  BY FileKinds DEF Dir, Symlink
<1>8. {"dirs", "symlinks", "hardlinked", "reflinked", "copied"} \subseteq Counters
  BY DEF Counters
<1>g. /\ Dirs(V) = IF f = Dir THEN Dirs(U) \cup {p} ELSE Dirs(U)
      /\ Symlinks(V) = IF f = Symlink THEN Symlinks(U) \cup {p} ELSE Symlinks(U)
      /\ Linked(V) = IF f \in SharedSet THEN Linked(U) \cup {p} ELSE Linked(U)
      /\ Private(V) = IF f \in OwnSet THEN Private(U) \cup {p} ELSE Private(U)
  BY GrowSets, Zenon
<1>c. s["reflinked"] \in Nat /\ s["copied"] \in Nat
  BY <1>8
<1>9. CASE c = "dirs" /\ f = Dir
  <2>1. /\ Dirs(V) = Dirs(U) \cup {p} /\ Symlinks(V) = Symlinks(U) /\ Linked(V) = Linked(U)
        /\ Private(V) = Private(U)
    BY <1>7, <1>9, <1>g
  <2>. QED
    BY <1>3, <1>4, <1>5, <1>6, <1>8, <1>9, <2>1 DEF Counts
<1>10. CASE c = "symlinks" /\ f = Symlink
  <2>1. /\ Dirs(V) = Dirs(U) /\ Symlinks(V) = Symlinks(U) \cup {p} /\ Linked(V) = Linked(U)
        /\ Private(V) = Private(U)
    BY <1>7, <1>10, <1>g
  <2>. QED
    BY <1>3, <1>4, <1>5, <1>6, <1>8, <1>10, <2>1 DEF Counts
<1>11. CASE c = "hardlinked" /\ f \in SharedSet
  <2>1. /\ Dirs(V) = Dirs(U) /\ Symlinks(V) = Symlinks(U) /\ Linked(V) = Linked(U) \cup {p}
        /\ Private(V) = Private(U)
    <3>1. f # Dir /\ f # Symlink /\ f \notin OwnSet
      BY <1>7, <1>11
    <3>. QED
      BY <1>11, <3>1, <1>g
  <2>. QED
    BY <1>3, <1>4, <1>5, <1>6, <1>8, <1>11, <2>1 DEF Counts
<1>12. CASE c \in {"reflinked", "copied"} /\ f \in OwnSet
  <2>1. /\ Dirs(V) = Dirs(U) /\ Symlinks(V) = Symlinks(U) /\ Linked(V) = Linked(U)
        /\ Private(V) = Private(U) \cup {p}
    <3>1. f # Dir /\ f # Symlink /\ f \notin SharedSet
      BY <1>7, <1>12
    <3>. QED
      BY <1>12, <3>1, <1>g
  <2>2. z["reflinked"] + z["copied"] = Cardinality(Private(V))
    BY <1>3, <1>5, <1>6, <1>8, <1>c, <1>12, <2>1
  <2>. QED
    BY <1>4, <1>5, <1>6, <1>8, <1>12, <2>1, <2>2 DEF Counts
<1>. QED
  BY <1>9, <1>10, <1>11, <1>12 DEF CounterOf

\* A file changes, and stays what it is
LEMMA SameCounts ==
  ASSUME NEW U, NEW V, DOMAIN V = DOMAIN U, NEW s, Counts(U, s),
         \A p \in DOMAIN U : V[p] = U[p] \/ (U[p] \in OwnSet /\ V[p] \in OwnSet)
  PROVE  Counts(V, s)
<1>1. \A p \in DOMAIN U : /\ V[p].kind = U[p].kind
                          /\ V[p].kind = "file" => (V[p].ino = None <=> U[p].ino = None)
  BY FileKinds
<1>2. Dirs(V) = Dirs(U) /\ Symlinks(V) = Symlinks(U)
  BY <1>1 DEF Dirs, Symlinks
<1>3. Linked(V) = Linked(U) /\ Private(V) = Private(U)
  BY <1>1 DEF Linked, Private
<1>. QED
  BY <1>2, <1>3 DEF Counts

\* An entry of a directory that is there
LEMMA GrowClosed ==
  ASSUME NEW U, NEW f, NEW V, NEW d, NEW at \in Seq(Nat), NEW i \in Nat,
         Grows(U, Path(d, Append(at, i)), f, V), Closed(d, U), Path(d, at) \in DOMAIN U
  PROVE  Closed(d, V)
<1>1. DOMAIN V = DOMAIN U \cup {Path(d, Append(at, i))}
  BY DEF Grows
<1>2. ASSUME NEW bt \in Seq(Nat), NEW k \in Nat, Path(d, Append(bt, k)) \in DOMAIN V
      PROVE  Path(d, bt) \in DOMAIN V
  <2>1. CASE Path(d, Append(bt, k)) \in DOMAIN U
    BY <1>1, <2>1 DEF Closed
  <2>2. CASE Path(d, Append(bt, k)) = Path(d, Append(at, i))
    <3>1. bt = at
      BY <2>2, ChildPath
    <3>. QED
      BY <1>1, <3>1
  <2>. QED
    BY <1>1, <1>2, <2>1, <2>2
<1>. QED
  BY <1>2 DEF Closed

(***************************************************************************)
(* The steps that make something                                            *)
(***************************************************************************)
Advanced(s, t) ==
    /\ Len(t) = Len(s)
    /\ t[1].at = s[1].at /\ t[1].tree = s[1].tree /\ t[1].next = s[1].next + 1
    /\ \A l \in 2 .. Len(s) : t[l] = s[l]

\* The entry a call is at has been made, whether or not its mode is still to be set
LEMMA PlacedProgress ==
  ASSUME NEW r, JobOK(r), NEW n, NEW U, NEW V, Progress(r, U), Continues(r, n),
         r.pc \notin Over \cup {"mkdir"},
         r.stack[1].next <= Len(Entries[r.stack[1].tree]), NodeOf(r).kind # "dir",
         DOMAIN V = DOMAIN U \cup {ChildOf(r)},
         \/ n.pc = "chmod" /\ n.stack = r.stack
         \/ n.pc = "loop" /\ Advanced(r.stack, n.stack)
  PROVE  Walked(n) /\ Opened(n, V) /\ Closed(n.dest, V) /\ Ahead(n, V) /\ Behind(n, V)
<1> DEFINE s == r.stack
           t == n.stack
           at == s[1].at
           e == s[1].next
           c == Path(r.dest, Append(at, e))
<1>1. /\ Len(s) \in Nat \ {0} /\ 1 \in 1 .. Len(s)
      /\ \A l \in 1 .. Len(s) : s[l].at \in Seq(Nat) /\ s[l].next \in Nat \ {0}
      /\ at \in Seq(Nat) /\ e \in Nat \ {0} /\ ChildOf(r) = c
  <2>1. Head(s) = s[1]
    BY StackIs
  <2>. QED
    BY <2>1, StackIs DEF ChildOf
<1>2. /\ Walked(r) /\ Opened(r, U) /\ Closed(r.dest, U) /\ Ahead(r, U) /\ Behind(r, U)
      /\ n.dest = r.dest /\ n.root = r.root /\ n.intent = r.intent
  BY DEF Progress, Continues
<1>3. /\ Len(t) = Len(s) /\ t[1].at = at /\ t[1].tree = s[1].tree /\ t[1].next \in {e, e + 1}
      /\ \A l \in 2 .. Len(s) : t[l] = s[l]
  BY <1>1 DEF Advanced
<1>4. /\ \A l \in 1 .. Len(s) : t[l].at = s[l].at /\ t[l].tree = s[l].tree
      /\ \A l \in 1 .. Len(s) : l > 1 => t[l].next = s[l].next
  <2> HIDE DEF s, t, e
  <2> SUFFICES ASSUME NEW l \in 1 .. Len(s)
               PROVE  /\ t[l].at = s[l].at /\ t[l].tree = s[l].tree
                      /\ l > 1 => t[l].next = s[l].next
    BY Zenon
  <2>1. CASE l = 1
    BY <1>3, <2>1
  <2>2. CASE l # 1
    <3>1. l \in 2 .. Len(s)
      BY <1>1, <2>2
    <3>. QED
      BY <1>3, <3>1
  <2>. QED
    BY <2>1, <2>2
<1>5. /\ Reached(n, 1) = e + 1 /\ Reached(r, 1) \in {e, e + 1}
      /\ \A l \in 2 .. Len(s) : Reached(n, l) = s[l].next + 1 /\ Reached(r, l) = s[l].next + 1
  BY <1>1, <1>3 DEF Reached, Advanced
<1>6. DOMAIN V = DOMAIN U \cup {c}
  BY <1>1
<1>7. Len(at) = Len(s) - 1 /\ \A l \in 1 .. Len(s) : Len(s[l].at) = Len(s) - l
  BY <1>1, <1>2 DEF Walked
<1>8. e <= Len(Entries[s[1].tree]) /\ n.pc \in {"chmod", "loop"}
  OBVIOUS
<1>9. Resolve(r.root, Append(at, e)) = NodeOf(r)
  BY <1>2, ChildNode
<1> HIDE DEF s, t, at, e, c
<1>10. Walked(n)
  <2>1. ASSUME NEW l \in 1 .. Len(s)
        PROVE  /\ Len(t[l].at) = Len(t) - l
               /\ Resolve(r.root, t[l].at) = DirNode(t[l].tree)
               /\ l > 1 => t[l - 1].at = Append(t[l].at, t[l].next)
    <3>1. /\ Len(s[l].at) = Len(s) - l
          /\ Resolve(r.root, s[l].at) = DirNode(s[l].tree)
          /\ l > 1 => s[l - 1].at = Append(s[l].at, s[l].next)
      BY <1>2 DEF Walked, s
    <3>2. l > 1 => l - 1 \in 1 .. Len(s)
      BY <1>1
    <3>. QED
      BY <1>3, <1>4, <3>1, <3>2
  <2>2. /\ n.pc \notin {"mkdir", "load"} /\ n.pc # "link"
        /\ n.pc \in Placing => t[1].next <= Len(Entries[t[1].tree])
    BY <1>3, <1>8 DEF Placing, e, s, t
  <2>. QED
    BY <1>2, <1>3, <2>1, <2>2 DEF Walked, t
<1>11. Opened(n, V)
  <2>1. \A l \in 1 .. Len(s) : Path(r.dest, s[l].at) \in DOMAIN V
    BY <1>2, <1>6 DEF Opened, s
  <2>. QED
    BY <1>2, <1>3, <1>4, <2>1 DEF Opened, t
<1>12. Closed(n.dest, V)
  <2>1. Path(r.dest, at) \in DOMAIN U
    BY <1>1, <1>2 DEF Opened, at, s
  <2>2. ASSUME NEW bt \in Seq(Nat), NEW k \in Nat, Path(r.dest, Append(bt, k)) \in DOMAIN V
        PROVE  Path(r.dest, bt) \in DOMAIN V
    <3>1. CASE Path(r.dest, Append(bt, k)) \in DOMAIN U
      BY <1>2, <1>6, <3>1 DEF Closed
    <3>2. CASE Path(r.dest, Append(bt, k)) = c
      <4>1. bt = at
        BY <1>1, <3>2, ChildPath DEF c
      <4>. QED
        BY <1>6, <2>1, <4>1
    <3>. QED
      BY <1>6, <2>2, <3>1, <3>2
  <2>. QED
    BY <1>2, <2>2 DEF Closed
<1>13. Ahead(n, V)
  <2>1. ASSUME NEW l \in 1 .. Len(s), NEW i \in Nat, i >= Reached(n, l)
        PROVE  Path(r.dest, Append(s[l].at, i)) \notin DOMAIN V
    <3>1. l = 1 \/ l \in 2 .. Len(s)
      BY <1>1
    <3>2. i >= Reached(r, l)
      BY <1>1, <1>5, <2>1, <3>1
    <3>3. Path(r.dest, Append(s[l].at, i)) \notin DOMAIN U
      BY <1>2, <3>2 DEF Ahead, s
    <3>4. Path(r.dest, Append(s[l].at, i)) # c
      <4> SUFFICES ASSUME Path(r.dest, Append(s[l].at, i)) = c PROVE FALSE
        OBVIOUS
      <4>1. s[l].at = at /\ i = e
        BY <1>1, ChildPath DEF c
      <4>2. l = 1
        <5>1. Len(s[l].at) = Len(s) - l /\ Len(s[l].at) = Len(at)
          BY <1>7, <4>1
        <5>. QED
          BY <1>1, <1>7, <5>1
      <4>. QED
        BY <1>1, <1>5, <2>1, <4>1, <4>2
    <3>. QED
      BY <1>6, <3>3, <3>4
  <2>. QED
    BY <1>2, <1>3, <1>4, <2>1 DEF Ahead, t
<1>14. Behind(n, V)
  <2>1. ASSUME NEW p \in DOMAIN V, Resolve(r.root, p.at).kind = "dir"
        PROVE  /\ Len(p.at) <= MaxDepth
               /\ \A i \in 1 .. Len(Entries[Resolve(r.root, p.at).digest]) :
                    \/ Path(r.dest, Append(p.at, i)) \in DOMAIN V
                    \/ \E l \in 1 .. Len(t) : t[l].at = p.at /\ i >= t[l].next
    <3>1. p \in DOMAIN U
      <4>1. p # c
        BY <1>9, <2>1, PathFields DEF c
      <4>. QED
        BY <1>6, <4>1
    <3>2. Len(p.at) <= MaxDepth
      BY <1>2, <2>1, <3>1 DEF Behind
    <3>3. ASSUME NEW i \in 1 .. Len(Entries[Resolve(r.root, p.at).digest]),
                 Path(r.dest, Append(p.at, i)) \notin DOMAIN V
          PROVE  \E l \in 1 .. Len(t) : t[l].at = p.at /\ i >= t[l].next
      <4>1. PICK l \in 1 .. Len(s) : s[l].at = p.at /\ i >= s[l].next
        BY <1>2, <1>6, <2>1, <3>1, <3>3 DEF Behind, s
      <4>2. CASE l = 1
        <5>1. i # e
          BY <1>6, <3>3, <4>1, <4>2 DEF c, at
        <5>2. i >= t[1].next
          BY <1>1, <1>3, <4>1, <4>2, <5>1 DEF e
        <5>. QED
          BY <1>1, <1>3, <1>4, <4>1, <4>2, <5>2
      <4>3. CASE l > 1
        BY <1>3, <1>4, <4>1, <4>3
      <4>. QED
        BY <4>2, <4>3
    <3>. QED
      BY <3>2, <3>3
  <2>. QED
    BY <1>2, <2>1 DEF Behind, t
<1>. QED
  BY <1>10, <1>11, <1>12, <1>13, <1>14

\* Where the next entry is made
LEMMA ChildAt ==
  ASSUME NEW r, JobOK(r), r.pc \notin Over
  PROVE  /\ ChildOf(r) = Path(r.dest, Append(r.stack[1].at, r.stack[1].next))
         /\ ChildOf(r).at = Append(r.stack[1].at, r.stack[1].next)
<1> DEFINE x == Append(r.stack[1].at, r.stack[1].next)
<1>1. Head(r.stack) = r.stack[1]
  BY StackIs
<1>2. ChildOf(r) = Path(r.dest, x)
  BY <1>1 DEF ChildOf
<1> HIDE DEF x
<1>3. ChildOf(r).at = x
  BY <1>2, PathFields
<1>. QED
  BY <1>2, <1>3 DEF x

\* The entry is not there before
LEMMA ChildIsNew ==
  ASSUME NEW r, JobOK(r), r.pc \notin Over \cup {"chmod"}, NEW U, Progress(r, U)
  PROVE  ChildOf(r) \notin DOMAIN U /\ ChildOf(r).at = Append(r.stack[1].at, r.stack[1].next)
<1>1. /\ 1 \in 1 .. Len(r.stack) /\ r.stack[1].next \in Nat /\ Head(r.stack) = r.stack[1]
  BY StackIs
<1>2. r.stack[1].next >= Reached(r, 1)
  BY <1>1 DEF Reached
<1>3. Ahead(r, U)
  BY DEF Progress
<1>4. Path(r.dest, Append(r.stack[1].at, r.stack[1].next)) \notin DOMAIN U
  BY <1>1, <1>2, <1>3 DEF Ahead
<1>. QED
  BY <1>4, ChildAt

\* A symlink or a hardlink, which is final
LEMMA LinkProgress ==
  ASSUME NEW r, JobOK(r), NEW n, NEW U, NEW V, Progress(r, U), Continues(r, n),
         r.pc \in {"loop", "link"}, n.pc = "loop", Advanced(r.stack, n.stack),
         r.stack[1].next <= Len(Entries[r.stack[1].tree]), NodeOf(r).kind # "dir",
         NEW f \in FileSet, Grows(U, ChildOf(r), f, V), Fits(f, NodeOf(r), r.intent),
         Counts(V, n.stats)
  PROVE  Progress(n, V)
<1>0. r.pc \notin Over \cup {"mkdir"} /\ r.pc # "chmod" /\ n.pc # "chmod"
  BY DEF Over
<1>1. DOMAIN V = DOMAIN U \cup {ChildOf(r)} /\ V[ChildOf(r)] = f /\ \A q \in DOMAIN U : V[q] = U[q]
  BY DEF Grows
<1>2. Walked(n) /\ Opened(n, V) /\ Closed(n.dest, V) /\ Ahead(n, V) /\ Behind(n, V)
  BY <1>0, <1>1, PlacedProgress
<1>3. Resolve(r.root, ChildOf(r).at) = NodeOf(r)
  BY <1>0, ChildIsNew, ChildNode DEF Progress
<1>4. Fitting(r, U) /\ n.root = r.root /\ n.intent = r.intent
  BY DEF Progress, Continues
<1>5. Fitting(n, V)
  BY <1>0, <1>1, <1>3, <1>4 DEF Fitting
<1>. QED
  BY <1>2, <1>5 DEF Progress

\* A clone or a copy, whose mode is next
LEMMA CopyProgress ==
  ASSUME NEW r, JobOK(r), NEW n, NEW U, NEW V, Progress(r, U), Continues(r, n),
         r.pc \in {"place", "copy"}, n.pc = "chmod", n.stack = r.stack,
         NEW f \in FileSet, Grows(U, ChildOf(r), f, V), FitsButMode(f, NodeOf(r)),
         Counts(V, n.stats)
  PROVE  Progress(n, V)
<1>0. r.pc \notin Over \cup {"mkdir"} /\ r.pc # "chmod" /\ r.pc \in Placing
  BY DEF Over, Placing
<1>1. DOMAIN V = DOMAIN U \cup {ChildOf(r)} /\ V[ChildOf(r)] = f /\ \A q \in DOMAIN U : V[q] = U[q]
  BY DEF Grows
<1>2. r.stack[1].next <= Len(Entries[r.stack[1].tree]) /\ NodeOf(r).kind # "dir"
  BY <1>0 DEF Progress, Walked, FitsButMode
<1>3. Walked(n) /\ Opened(n, V) /\ Closed(n.dest, V) /\ Ahead(n, V) /\ Behind(n, V)
  BY <1>0, <1>1, <1>2, PlacedProgress
<1>4. Resolve(r.root, ChildOf(r).at) = NodeOf(r)
  BY <1>0, <1>2, ChildIsNew, ChildNode DEF Progress
<1>5. Fitting(r, U) /\ n.root = r.root /\ n.intent = r.intent /\ ChildOf(n) = ChildOf(r)
  BY DEF Progress, Continues, ChildOf
<1>6. Fitting(n, V)
  <2> SUFFICES ASSUME NEW p \in DOMAIN V
               PROVE  IF p = ChildOf(r) THEN FitsButMode(V[p], Resolve(r.root, p.at))
                                        ELSE Fits(V[p], Resolve(r.root, p.at), r.intent)
    BY <1>5 DEF Fitting
  <2>. QED
    BY <1>0, <1>1, <1>4, <1>5 DEF Fitting
<1>. QED
  BY <1>3, <1>6 DEF Progress

\* The mode is set
LEMMA SealProgress ==
  ASSUME NEW r, JobOK(r), NEW n, NEW U, NEW V, Progress(r, U), Continues(r, n),
         r.pc = "chmod", n.pc = "loop", Advanced(r.stack, n.stack), n.stats = r.stats,
         ChildOf(r) \in DOMAIN U, U[ChildOf(r)] \in OwnSet, DOMAIN V = DOMAIN U,
         V[ChildOf(r)] = [U[ChildOf(r)] EXCEPT !.mode = Want(r.intent, NodeOf(r).executable)],
         Want(r.intent, NodeOf(r).executable) \in Modes,
         \A q \in DOMAIN U : q # ChildOf(r) => V[q] = U[q]
  PROVE  Progress(n, V)
<1>0. r.pc \notin Over \cup {"mkdir"} /\ n.pc # "chmod" /\ r.pc \in Placing
  BY DEF Over, Placing
<1> DEFINE c == ChildOf(r)
           w == Want(r.intent, NodeOf(r).executable)
<1>1. r.stack[1].next <= Len(Entries[r.stack[1].tree]) /\ NodeOf(r).kind # "dir"
  BY <1>0 DEF Progress, Walked, JobOK
<1>2. Walked(n) /\ Opened(n, V) /\ Closed(n.dest, V) /\ Ahead(n, V) /\ Behind(n, V)
  <2>1. DOMAIN V = DOMAIN U \cup {ChildOf(r)}
    OBVIOUS
  <2>. QED
    BY <1>0, <1>1, <2>1, PlacedProgress
<1>3. Resolve(r.root, c.at) = NodeOf(r)
  <2>1. c.at = Append(r.stack[1].at, r.stack[1].next)
    BY <1>0, ChildAt
  <2>. QED
    BY <1>0, <1>1, <2>1, ChildNode DEF Progress
<1>4. Fitting(r, U) /\ n.root = r.root /\ n.intent = r.intent
  BY DEF Progress, Continues
<1>5. V[c] \in OwnSet /\ Mode(V[c]) = w /\ Data(V[c]) = Data(U[c])
  <2>1. ASSUME NEW old \in OwnSet, NEW m \in Modes, NEW new, new = [old EXCEPT !.mode = m]
        PROVE  /\ new \in OwnSet /\ new.mode = m /\ new.data = old.data
               /\ new.ino = None /\ old.ino = None
    BY <2>1 DEF OwnSet
  <2> HIDE DEF w, c
  <2>2. U[c] \in OwnSet /\ w \in Modes /\ V[c] = [U[c] EXCEPT !.mode = w]
    BY DEF c, w
  <2>3. /\ V[c] \in OwnSet /\ V[c].mode = w /\ V[c].data = U[c].data /\ V[c].ino = None
        /\ U[c].ino = None
    BY <2>1, <2>2
  <2>. QED
    BY <2>3 DEF Mode, Data
<1>6. FitsButMode(U[c], NodeOf(r))
  BY <1>3, <1>4 DEF Fitting
<1>7. Fits(V[c], NodeOf(r), r.intent)
  BY <1>5, <1>6, FileKinds DEF Fits, FitsButMode
<1>8. Fitting(n, V)
  <2> SUFFICES ASSUME NEW p \in DOMAIN V
               PROVE  Fits(V[p], Resolve(r.root, p.at), r.intent)
    BY <1>0, <1>4 DEF Fitting
  <2>1. CASE p = c
    BY <1>3, <1>7, <2>1
  <2>2. CASE p # c
    BY <1>4, <2>2 DEF Fitting
  <2>. QED
    BY <2>1, <2>2
<1>9. Counts(V, n.stats)
  <2>1. \A p \in DOMAIN U : V[p] = U[p] \/ (U[p] \in OwnSet /\ V[p] \in OwnSet)
    BY <1>5
  <2>. QED
    BY <2>1, SameCounts DEF Progress
<1>. QED
  BY <1>2, <1>8, <1>9 DEF Progress

\* A directory below the destination
LEMMA EnterProgress ==
  ASSUME NEW r, JobOK(r), NEW n, NEW U, NEW V, Progress(r, U), Continues(r, n),
         r.pc = "mkdir", r.stack[1].at # <<>>, Len(r.stack[1].at) <= MaxDepth,
         n.pc = "load", n.stack = r.stack,
         Grows(U, Path(r.dest, r.stack[1].at), Dir, V), Counts(V, n.stats)
  PROVE  Progress(n, V)
<1> DEFINE s == r.stack
           c == Path(r.dest, s[1].at)
<1>0. r.pc \notin Over /\ r.pc # "chmod" /\ n.pc \notin Placing /\ n.pc # "link" /\ n.pc # "chmod"
  BY DEF Over, Placing
<1>1. /\ Len(s) \in Nat \ {0} /\ 1 \in 1 .. Len(s)
      /\ \A l \in 1 .. Len(s) : /\ s[l].at \in Seq(Nat) /\ s[l].next \in Nat \ {0}
                                /\ s[l].tree \in Trees
  BY <1>0, StackIs
<1>2. /\ Walked(r) /\ Opened(r, U) /\ Closed(r.dest, U) /\ Ahead(r, U) /\ Behind(r, U)
      /\ Fitting(r, U) /\ n.dest = r.dest /\ n.root = r.root /\ n.intent = r.intent
  BY DEF Progress, Continues
<1>3. c \notin DOMAIN U /\ DOMAIN V = DOMAIN U \cup {c} /\ V[c] = Dir
      /\ \A q \in DOMAIN U : V[q] = U[q]
  BY DEF Grows
<1>4. \A l \in 1 .. Len(s) : Len(s[l].at) = Len(s) - l
  BY <1>2 DEF Walked
<1>5. 2 \in 1 .. Len(s)
  <2>1. ASSUME NEW x \in Seq(Nat), x # <<>> PROVE Len(x) # 0
    BY <2>1
  <2>2. Len(s[1].at) # 0
    BY <1>1, <2>1
  <2>. QED
    BY <1>1, <1>4, <2>2
<1>6. s[1].at = Append(s[2].at, s[2].next) /\ s[1].next = 1
  <2>1. 2 > 1 /\ 2 - 1 = 1
    OBVIOUS
  <2>. QED
    BY <1>2, <1>5, <2>1 DEF Walked
<1>7. /\ Resolve(r.root, s[1].at) = DirNode(s[1].tree) /\ c.at = s[1].at
      /\ Len(s[1].at) <= MaxDepth
  BY <1>1, <1>2, PathFields DEF Walked
<1> HIDE DEF s, c
<1>8. Walked(n)
  BY <1>0, <1>2 DEF Walked
<1>9. Opened(n, V)
  <2>1. ASSUME NEW l \in 1 .. Len(s) PROVE Path(r.dest, s[l].at) \in DOMAIN V
    <3>1. CASE l = 1
      BY <1>3, <3>1 DEF c
    <3>2. CASE l > 1
      BY <1>2, <1>3, <3>2 DEF Opened, s
    <3>. QED
      BY <3>1, <3>2
  <2>. QED
    BY <1>2, <2>1 DEF Opened, s
<1>10. Closed(n.dest, V)
  <2>1. Path(r.dest, s[2].at) \in DOMAIN U
    BY <1>2, <1>5 DEF Opened, s
  <2>2. Grows(U, Path(r.dest, Append(s[2].at, s[2].next)), Dir, V)
    BY <1>6 DEF s
  <2>3. s[2].at \in Seq(Nat) /\ s[2].next \in Nat
    BY <1>1, <1>5
  <2>4. Closed(r.dest, V)
    BY <1>2, <2>1, <2>2, <2>3, GrowClosed
  <2>. QED
    BY <1>2, <2>4
<1>11. Ahead(n, V)
  <2>1. ASSUME NEW l \in 1 .. Len(s), NEW i \in Nat, i >= Reached(r, l)
        PROVE  Path(r.dest, Append(s[l].at, i)) \notin DOMAIN V
    <3>1. Path(r.dest, Append(s[l].at, i)) \notin DOMAIN U
      BY <1>2, <2>1 DEF Ahead, s
    <3>2. Path(r.dest, Append(s[l].at, i)) # c
      <4> SUFFICES ASSUME Path(r.dest, Append(s[l].at, i)) = c PROVE FALSE
        OBVIOUS
      <4>1. s[l].at = s[2].at /\ i = s[2].next
        <5>1. Path(r.dest, Append(s[l].at, i)) = Path(r.dest, Append(s[2].at, s[2].next))
          BY <1>6 DEF c
        <5>2. /\ s[2].at \in Seq(Nat) /\ s[2].next \in Nat /\ s[l].at \in Seq(Nat)
          BY <1>1, <1>5
        <5>. QED
          BY <5>1, <5>2, ChildPath
      <4>2. l = 2
        <5>1. Len(s[l].at) = Len(s) - l /\ Len(s[l].at) = Len(s) - 2
          BY <1>4, <1>5, <4>1
        <5>. QED
          BY <1>1, <5>1
      <4>3. Reached(r, 2) = s[2].next + 1
        BY DEF Reached, s
      <4>. QED
        BY <1>1, <1>5, <2>1, <4>1, <4>2, <4>3
    <3>. QED
      BY <1>3, <3>1, <3>2
  <2>2. \A l \in 1 .. Len(s) : Reached(n, l) = Reached(r, l)
    BY <1>0 DEF Reached
  <2>. QED
    BY <1>2, <2>1, <2>2 DEF Ahead, s
<1>12. Behind(n, V)
  <2>1. ASSUME NEW p \in DOMAIN V, Resolve(r.root, p.at).kind = "dir"
        PROVE  /\ Len(p.at) <= MaxDepth
               /\ \A i \in 1 .. Len(Entries[Resolve(r.root, p.at).digest]) :
                    \/ Path(r.dest, Append(p.at, i)) \in DOMAIN V
                    \/ \E l \in 1 .. Len(s) : s[l].at = p.at /\ i >= s[l].next
    <3>1. CASE p = c
      <4>1. p.at = s[1].at /\ Len(p.at) <= MaxDepth /\ 1 \in 1 .. Len(s) /\ s[1].next = 1
        BY <1>1, <1>6, <1>7, <3>1
      <4>2. \A i \in 1 .. Len(Entries[Resolve(r.root, p.at).digest]) : i >= 1
        OBVIOUS
      <4>. QED
        BY <4>1, <4>2
    <3>2. CASE p \in DOMAIN U
      BY <1>2, <1>3, <2>1, <3>2 DEF Behind, s
    <3>. QED
      BY <1>3, <3>1, <3>2
  <2>. QED
    BY <1>2, <2>1 DEF Behind, s
<1>13. Fitting(n, V)
  <2>1. Fits(Dir, DirNode(s[1].tree), r.intent)
    <3>1. s[1].tree \in Trees /\ Dir.kind = "dir"
      BY <1>1 DEF Dir
    <3>. QED
      BY <3>1, DirIs DEF Fits
  <2> SUFFICES ASSUME NEW p \in DOMAIN V
               PROVE  Fits(V[p], Resolve(r.root, p.at), r.intent)
    BY <1>0, <1>2 DEF Fitting
  <2>. QED
    BY <1>0, <1>2, <1>3, <1>7, <2>1 DEF Fitting
<1>. QED
  BY <1>8, <1>9, <1>10, <1>11, <1>12, <1>13 DEF Progress

\* The destination itself
LEMMA EnterRootProgress ==
  ASSUME NEW r, JobOK(r), NEW n, NEW V, Continues(r, n), r.pc = "mkdir", Fresh(r),
         n.pc = "load", n.stack = r.stack, n.stats = [r.stats EXCEPT !["dirs"] = @ + 1],
         DOMAIN V = {Path(r.dest, <<>>)}, V[Path(r.dest, <<>>)] = Dir
  PROVE  Progress(n, V)
<1> DEFINE c == Path(r.dest, <<>>)
           f == Frame(<<>>, r.root)
<1>0. n.pc \notin Placing /\ n.pc # "link" /\ n.pc # "chmod"
  BY DEF Placing
<1>1. /\ f.at = <<>> /\ f.tree = r.root /\ f.next = 1
  BY DEF Frame
<1>2. /\ n.stack = <<f>> /\ r.root \in Trees /\ n.dest = r.dest /\ n.root = r.root
      /\ n.intent = r.intent
  BY DEF Fresh, Continues
<1>3. c.at = <<>> /\ DOMAIN V = {c} /\ V[c] = Dir
  BY PathFields
<1>4. Resolve(r.root, <<>>) = DirNode(r.root)
  BY ResolveRoot
<1>5. Len(n.stack) = 1 /\ n.stack[1] = f /\ Len(<<>>) = 0 /\ MaxDepth \in Nat
  BY <1>2, BoundsAssumption
<1>s. ASSUME NEW at \in Seq(Nat), NEW i \in Nat PROVE Path(r.dest, Append(at, i)) # c
  <2> DEFINE x == Append(at, i)
  <2>1. Len(x) = Len(at) + 1 /\ Len(at) \in Nat
    OBVIOUS
  <2> HIDE DEF x
  <2>2. x # <<>>
    BY <2>1
  <2>3. Path(r.dest, x).at = x
    BY PathFields
  <2>4. Path(r.dest, x) # c
    BY <1>3, <2>2, <2>3
  <2>. QED
    BY <2>4 DEF x
<1> HIDE DEF c, f
<1>6. Walked(n)
  <2>1. ASSUME NEW l \in 1 .. Len(n.stack) PROVE l = 1
    BY <1>5
  <2>. QED
    BY <1>0, <1>1, <1>2, <1>4, <1>5, <2>1 DEF Walked
<1>7. Opened(n, V)
  <2>1. ASSUME NEW l \in 1 .. Len(n.stack) PROVE l = 1
    BY <1>5
  <2>. QED
    BY <1>1, <1>2, <1>3, <1>5, <2>1 DEF Opened, c
<1>8. Closed(n.dest, V)
  BY <1>2, <1>3, <1>s DEF Closed
<1>9. Ahead(n, V)
  <2>1. ASSUME NEW l \in 1 .. Len(n.stack), NEW i \in Nat
        PROVE  Path(n.dest, Append(n.stack[l].at, i)) # c
    <3>1. l = 1 /\ n.stack[l].at = <<>> /\ <<>> \in Seq(Nat)
      BY <1>1, <1>5
    <3>. QED
      BY <1>2, <1>s, <3>1
  <2>. QED
    BY <1>3, <2>1 DEF Ahead
<1>10. Behind(n, V)
  <2>1. ASSUME NEW i \in 1 .. Len(Entries[Resolve(r.root, <<>>).digest])
        PROVE  \E l \in 1 .. Len(n.stack) : n.stack[l].at = <<>> /\ i >= n.stack[l].next
    <3>1. 1 \in 1 .. Len(n.stack) /\ i >= 1
      BY <1>5
    <3>. QED
      BY <1>1, <1>5, <3>1
  <2>. QED
    BY <1>2, <1>3, <1>5, <2>1 DEF Behind
<1>11. Fitting(n, V)
  <2>1. Dir.kind = "dir"
    BY DEF Dir
  <2>2. Fits(Dir, DirNode(r.root), r.intent)
    BY <1>2, <2>1, DirIs DEF Fits
  <2>. QED
    BY <1>0, <1>2, <1>3, <1>4, <2>2 DEF Fitting
<1>12. Counts(V, n.stats)
  <2> DEFINE E == [q \in {} |-> Dir]
             z == [e \in Counters |-> 0]
  <2>1. DOMAIN E = {}
    OBVIOUS
  <2>2. z \in [Counters -> Nat] /\ \A e \in Counters : z[e] = 0
    OBVIOUS
  <2>3. {"dirs", "symlinks", "hardlinked", "reflinked", "copied"} \subseteq Counters
    BY DEF Counters
  <2> HIDE DEF E, z
  <2>4. Dirs(E) = {} /\ Symlinks(E) = {} /\ Linked(E) = {} /\ Private(E) = {}
    BY <2>1 DEF Dirs, Symlinks, Linked, Private
  <2>5. Counts(E, z)
    BY <2>1, <2>2, <2>3, <2>4, FS_EmptySet DEF Counts
  <2>6. Grows(E, c, Dir, V)
    BY <1>3, <2>1 DEF Grows
  <2>7. Dir \in FileSet /\ CounterOf("dirs", Dir) /\ "dirs" \in Counters
    BY <2>3 DEF FileSet, CounterOf
  <2>8. Bumped(z, "dirs", n.stats)
    BY <2>2, <2>3 DEF Fresh, z, Bumped
  <2>. QED
    BY <2>2, <2>5, <2>6, <2>7, <2>8, GrowCounts
<1>. QED
  BY <1>6, <1>7, <1>8, <1>9, <1>10, <1>11, <1>12 DEF Progress

\* The last entry of the destination is behind
LEMMA FinishedIs ==
  ASSUME NEW r, JobOK(r), NEW U, Progress(r, U), r.pc = "loop", Len(r.stack) = 1,
         r.stack[1].next > Len(Entries[r.stack[1].tree]),
         NEW m, m.root = r.root, m.intent = r.intent, m.stats = r.stats
  PROVE  Finished(m, r.dest, U)
<1> DEFINE f == r.stack[1]
<1>0. r.pc \notin Over /\ r.pc # "chmod"
  BY DEF Over
<1>1. /\ f.tree \in Trees /\ f.next \in Nat /\ 1 \in 1 .. Len(r.stack)
  BY <1>0, StackIs
<1>2. Resolve(r.root, f.at) = DirNode(f.tree)
  BY <1>1 DEF Progress, Walked
<1>3. m.intent \in Intents /\ Counts(U, m.stats)
  BY <1>0 DEF Progress, JobOK
<1>4. \A p \in DOMAIN U : Fits(U[p], Resolve(m.root, p.at), m.intent)
  BY <1>0 DEF Progress, Fitting
<1>5. ASSUME NEW p \in DOMAIN U, Resolve(r.root, p.at).kind = "dir"
      PROVE  /\ Len(p.at) <= MaxDepth
             /\ \A i \in 1 .. Len(Entries[Resolve(r.root, p.at).digest]) :
                  Path(r.dest, Append(p.at, i)) \in DOMAIN U
  <2>1. Len(p.at) <= MaxDepth
    BY <1>5 DEF Progress, Behind
  <2>2. ASSUME NEW i \in 1 .. Len(Entries[Resolve(r.root, p.at).digest]),
               Path(r.dest, Append(p.at, i)) \notin DOMAIN U
        PROVE  FALSE
    <3>1. PICK l \in 1 .. Len(r.stack) : r.stack[l].at = p.at /\ i >= r.stack[l].next
      BY <1>5, <2>2 DEF Progress, Behind
    <3>2. l = 1
      OBVIOUS
    <3>3. i \in 1 .. Len(Entries[f.tree]) /\ i >= f.next
      BY <1>1, <1>2, <2>2, <3>1, <3>2, DirIs
    <3>4. Len(Entries[f.tree]) \in Nat /\ f.next > Len(Entries[f.tree])
      BY <1>1, GraphAssumption
    <3>. QED
      BY <1>1, <3>3, <3>4
  <2>. QED
    BY <2>1, <2>2
<1>. QED
  BY <1>3, <1>4, <1>5 DEF Finished

(***************************************************************************)
(* The steps of a call                                                      *)
(***************************************************************************)
\* What the operations on the stack do
LEMMA AdvancedIs ==
  ASSUME NEW s \in Seq(FrameSet), s # <<>>
  PROVE  Advanced(s, Advance(s))
<1>1. Len(s) \in Nat \ {0} /\ DOMAIN s = 1 .. Len(s) /\ s[1] \in FrameSet
  OBVIOUS
<1>2. ASSUME NEW old \in FrameSet, NEW f, f = [old EXCEPT !.next = @ + 1]
      PROVE  f.at = old.at /\ f.tree = old.tree /\ f.next = old.next + 1
  BY <1>2 DEF FrameSet
<1> DEFINE f == [s[1] EXCEPT !.next = @ + 1]
           t == [s EXCEPT ![1] = f]
<1>3. f.at = s[1].at /\ f.tree = s[1].tree /\ f.next = s[1].next + 1
  BY <1>1, <1>2
<1>4. Advance(s) = t
  BY DEF Advance
<1> HIDE DEF f
<1>5. Len(t) = Len(s) /\ t[1] = f /\ \A l \in 2 .. Len(s) : t[l] = s[l]
  BY <1>1
<1> HIDE DEF t
<1>. QED
  BY <1>3, <1>4, <1>5 DEF Advanced

LEMMA PoppedIs ==
  ASSUME NEW s \in Seq(FrameSet), Len(s) > 1
  PROVE  Popped(s, Advance(Tail(s)))
<1> DEFINE t == Tail(s)
<1>1. t \in Seq(FrameSet) /\ Len(t) = Len(s) - 1 /\ \A l \in 1 .. Len(t) : t[l] = s[l + 1]
  OBVIOUS
<1>2. Len(s) \in Nat
  OBVIOUS
<1> HIDE DEF t
<1>3. t # <<>> /\ t[1] = s[2]
  BY <1>1, <1>2
<1> DEFINE u == Advance(t)
<1>4. Advanced(t, u)
  BY <1>1, <1>3, AdvancedIs
<1> HIDE DEF u
<1>5. /\ Len(u) = Len(s) - 1 /\ u[1].at = s[2].at /\ u[1].tree = s[2].tree
      /\ u[1].next = s[2].next + 1
  BY <1>1, <1>3, <1>4 DEF Advanced
<1>6. ASSUME NEW l \in 2 .. Len(u) PROVE u[l] = s[l + 1]
  <2>1. l \in 2 .. Len(t) /\ l \in 1 .. Len(t)
    BY <1>1, <1>2, <1>5
  <2>. QED
    BY <1>1, <1>4, <2>1 DEF Advanced
<1>7. Popped(s, u)
  BY <1>5, <1>6 DEF Popped
<1>. QED
  BY <1>7 DEF t, u

LEMMA PushedIs ==
  ASSUME NEW s \in Seq(FrameSet), NEW f \in FrameSet
  PROVE  Pushed(s, f, <<f>> \o s)
BY DEF Pushed

\* Only j's own destination changes, which is nobody else's
Local(j) ==
    \A e \in Dests :
        \/ Part(files', e) = Part(files, e)
        \/ made[e] = None /\ \A k \in Jobs : k # j /\ Inside(job[k]) => job[k].dest # e

\* A step of call j that preserves the second invariant
Leads(j) ==
    /\ \E n : job' = [job EXCEPT ![j] = n] /\ CallOK(n, files')
    /\ Local(j)
    /\ \/ UNCHANGED made
       \/ \E m : /\ made' = [made EXCEPT ![job[j].dest] = m]
                 /\ Finished(m, job[j].dest, Part(files', job[j].dest))

\* Such a step preserves the second invariant
LEMMA LeadsInv ==
  ASSUME IInv, ExactInv, NEW j \in Jobs, Leads(j)
  PROVE  ExactInv'
<1>1. PICK n : job' = [job EXCEPT ![j] = n] /\ CallOK(n, files')
  BY DEF Leads
<1>2. /\ job'[j] = n /\ \A k \in Jobs : k # j => job'[k] = job[k]
  BY <1>1 DEF IInv, JobsInv
<1>3. ASSUME NEW k \in Jobs PROVE CallOK(job'[k], files')
  <2>1. CASE k = j
    BY <1>1, <1>2, <2>1
  <2>2. CASE k # j
    <3>1. job'[k] = job[k] /\ CallOK(job[k], files)
      BY <1>2, <2>2 DEF ExactInv, CallsInv
    <3>2. Inside(job[k]) => Part(files', job[k].dest) = Part(files, job[k].dest)
      BY <2>2, Alone DEF Leads, Local
    <3>. QED
      BY <3>1, <3>2 DEF CallOK
  <2>. QED
    BY <2>1, <2>2
<1>4. ASSUME NEW d \in Dests, made'[d] # None PROVE Finished(made'[d], d, Part(files', d))
  <2>1. ASSUME made'[d] = made[d] PROVE Finished(made'[d], d, Part(files', d))
    BY <1>4, <2>1 DEF Leads, Local, ExactInv, MadeInv
  <2>2. made = [e \in Dests |-> made[e]]
    BY DEF IInv, OwnerInv
  <2>3. CASE UNCHANGED made
    BY <2>1, <2>3
  <2>4. CASE \E m : /\ made' = [made EXCEPT ![job[j].dest] = m]
                    /\ Finished(m, job[j].dest, Part(files', job[j].dest))
    <3>1. PICK m : /\ made' = [made EXCEPT ![job[j].dest] = m]
                   /\ Finished(m, job[j].dest, Part(files', job[j].dest))
      BY <2>4
    <3>2. CASE d = job[j].dest
      <4>1. made'[d] = m
        BY <2>2, <3>1, <3>2
      <4>. QED
        BY <3>1, <3>2, <4>1
    <3>3. CASE d # job[j].dest
      <4>1. made'[d] = made[d]
        BY <2>2, <3>1, <3>3
      <4>. QED
        BY <2>1, <4>1
    <3>. QED
      BY <3>2, <3>3
  <2>. QED
    BY <2>3, <2>4 DEF Leads
<1>. QED
  BY <1>3, <1>4 DEF ExactInv, CallsInv, MadeInv

\* A destination where nothing changes
LEMMA PartSame ==
  ASSUME NEW F, NEW G, NEW d,
         \A p : p.dest = d => (p \in DOMAIN F <=> p \in DOMAIN G) /\ (p \in DOMAIN F => F[p] = G[p])
  PROVE  Part(F, d) = Part(G, d)
<1>1. {p \in DOMAIN F : p.dest = d} = {p \in DOMAIN G : p.dest = d}
  OBVIOUS
<1>2. \A p \in {q \in DOMAIN F : q.dest = d} : F[p] = G[p]
  OBVIOUS
<1>. QED
  BY <1>1, <1>2 DEF Part

\* A call inside its destination
LEMMA InsideIs ==
  ASSUME IInv, ExactInv, NEW j \in Jobs, Inside(job[j])
  PROVE  /\ JobOK(job[j]) /\ job[j] \in JobSet /\ job[j].pc \notin Over
         /\ job[j].dest \in Dests /\ job[j].stack \in Seq(FrameSet) /\ job[j].stack # <<>>
         /\ job[j].stats \in [Counters -> Nat]
         /\ Top(j) = job[j].stack[1] /\ Node(j) = NodeOf(job[j]) /\ Child(j) = ChildOf(job[j])
         /\ Progress(job[j], Part(files, job[j].dest))
<1>1. JobOK(job[j]) /\ job[j] \in JobSet /\ job[j].pc \notin Over
  BY DEF IInv, JobsInv, JobOK, Inside
<1>2. /\ job[j].dest \in Dests /\ job[j].stack \in Seq(FrameSet) /\ job[j].stack # <<>>
      /\ job[j].stats \in [Counters -> Nat]
  BY <1>1 DEF JobOK, JobSet
<1>3. Head(job[j].stack) = job[j].stack[1]
  BY <1>1, StackIs
<1>4. Top(j) = job[j].stack[1] /\ Node(j) = NodeOf(job[j]) /\ Child(j) = ChildOf(job[j])
  BY <1>3 DEF Top, Node, NodeOf, Child, ChildOf
<1>5. Progress(job[j], Part(files, job[j].dest))
  BY DEF ExactInv, CallsInv, CallOK
<1>. QED
  BY <1>1, <1>2, <1>4, <1>5

\* A call that changes nothing outside its destination
LEMMA LocalChange ==
  ASSUME IInv, NEW j \in Jobs, Inside(job[j]),
         \A p : p.dest # job[j].dest =>
           /\ p \in DOMAIN files <=> p \in DOMAIN files'
           /\ p \in DOMAIN files => files[p] = files'[p]
  PROVE  Local(j)
<1>1. \A e \in Dests : e # job[j].dest => Part(files, e) = Part(files', e)
  BY PartSame
<1>. QED
  BY <1>1, Alone DEF Local

\* A call that makes a file in its destination
LEMMA BindLocal ==
  ASSUME IInv, NEW j \in Jobs, Inside(job[j]), NEW p, p.dest = job[j].dest, NEW f,
         files' = Bind(p, f)
  PROVE  /\ Local(j)
         /\ p \notin DOMAIN Part(files, job[j].dest) =>
              Grows(Part(files, job[j].dest), p, f, Part(files', job[j].dest))
<1>1. /\ DOMAIN files' = DOMAIN files \cup {p} /\ files'[p] = f
      /\ \A q \in DOMAIN files : q # p => files'[q] = files[q]
  BY BindIs DEF IInv
<1>2. Local(j)
  BY <1>1, LocalChange
<1>3. ASSUME p \notin DOMAIN Part(files, job[j].dest)
      PROVE  Grows(Part(files, job[j].dest), p, f, Part(files', job[j].dest))
  <2> DEFINE d == job[j].dest
             U == Part(files, d)
             V == Part(files', d)
  <2>1. /\ DOMAIN U = {q \in DOMAIN files : q.dest = d} /\ \A q \in DOMAIN U : U[q] = files[q]
        /\ DOMAIN V = {q \in DOMAIN files' : q.dest = d} /\ \A q \in DOMAIN V : V[q] = files'[q]
    BY DEF Part
  <2>2. p.dest = d /\ p \notin DOMAIN U
    BY <1>3
  <2> HIDE DEF U, V, d
  <2>3. DOMAIN V = DOMAIN U \cup {p}
    BY <1>1, <2>1, <2>2
  <2>4. V[p] = f /\ \A q \in DOMAIN U : V[q] = U[q]
    BY <1>1, <2>1, <2>2, <2>3
  <2>. QED
    BY <2>2, <2>3, <2>4 DEF Grows, U, V, d
<1>. QED
  BY <1>2, <1>3

\* A call that is over
LEMMA OverLeads ==
  ASSUME NEW j \in Jobs, NEW n, job' = [job EXCEPT ![j] = n], n.pc \in Over, UNCHANGED made,
         Local(j)
  PROVE  Leads(j)
<1>1. CallOK(n, files')
  BY DEF CallOK, Inside, Over
<1>. QED
  BY <1>1 DEF Leads

\* A call that makes nothing
LEMMA SameLocal ==
  ASSUME NEW j, UNCHANGED files
  PROVE  Local(j)
BY DEF Local

\* A call that fails
LEMMA FailLeads ==
  ASSUME JobsInv, NEW j \in Jobs, NEW error \in Errors, Fail(j, error), UNCHANGED made, Local(j)
  PROVE  Leads(j)
<1>1. "failed" \in Pcs /\ "failed" \in Over
  BY DEF Pcs, Over
<1>2. PICK n \in JobSet : To(j, n, "failed", <<>>, job[j].stats)
  BY <1>1, Moves
<1>. QED
  BY <1>1, <1>2, OverLeads DEF To

\* A call that goes on
LEMMA GoLeads ==
  ASSUME NEW j \in Jobs, NEW n, NEW pc, NEW stack, NEW stats, To(j, n, pc, stack, stats),
         pc = "mkdir" => Head(stack).at # <<>>,
         Progress(n, Part(files', job[j].dest)), UNCHANGED made, Local(j)
  PROVE  Leads(j)
<1>1. CallOK(n, files')
  BY DEF CallOK, To
<1>. QED
  BY <1>1 DEF Leads, To

LEMMA ToContinues ==
  ASSUME NEW j, NEW n, NEW pc, NEW stack, NEW stats, To(j, n, pc, stack, stats)
  PROVE  /\ Continues(job[j], n) /\ n.pc = pc /\ n.stack = stack /\ n.stats = stats
         /\ job' = [job EXCEPT ![j] = n]
BY DEF To, Continues

\* One more is counted
LEMMA CountedIs ==
  ASSUME JobsInv, NEW j \in Jobs, NEW c \in Counters
  PROVE  Bumped(job[j].stats, c, Counted(j, c)) /\ job[j].stats \in [Counters -> Nat]
<1>1. job[j].stats \in [Counters -> Nat]
  BY DEF JobsInv, JobOK, JobSet
<1>. QED
  BY <1>1 DEF Counted, Bumped

\* A call makes an entry and counts it
LEMMA Placement ==
  ASSUME IInv, ExactInv, NEW j \in Jobs, Inside(job[j]), job[j].pc \notin {"chmod", "mkdir"},
         NEW f \in FileSet, files' = Bind(Child(j), f), NEW c \in Counters, CounterOf(c, f)
  PROVE  /\ Local(j)
         /\ Grows(Part(files, job[j].dest), ChildOf(job[j]), f, Part(files', job[j].dest))
         /\ Counts(Part(files', job[j].dest), Counted(j, c))
<1> DEFINE U == Part(files, job[j].dest)
           V == Part(files', job[j].dest)
           p == ChildOf(job[j])
<1>1. /\ JobOK(job[j]) /\ job[j].pc \notin Over \cup {"chmod"} /\ Child(j) = p
      /\ Progress(job[j], U)
  BY InsideIs
<1>2. p \notin DOMAIN U /\ p.dest = job[j].dest
  BY <1>1, ChildIsNew, PathFields DEF ChildOf
<1>3. Local(j) /\ Grows(U, p, f, V)
  BY <1>1, <1>2, BindLocal
<1>4. Bumped(job[j].stats, c, Counted(j, c)) /\ job[j].stats \in [Counters -> Nat]
  BY CountedIs DEF IInv
<1>5. Counts(U, job[j].stats)
  BY <1>1 DEF Progress
<1> HIDE DEF U, V, p
<1>6. Counts(V, Counted(j, c))
  BY <1>3, <1>4, <1>5, GrowCounts
<1>. QED
  BY <1>3, <1>6 DEF U, V, p

\* The steps, one by one
LEMMA EnterDirLeads ==
  ASSUME IInv, ExactInv, NEW j \in Jobs, EnterDir(j)
  PROVE  Leads(j)
<1> DEFINE r == job[j]
           d == r.dest
           U == Part(files, d)
           V == Part(files', d)
<1>0. r.pc = "mkdir" /\ UNCHANGED made /\ r.pc \notin Over /\ JobsInv
  BY DEF EnterDir, Over, IInv
<1>1. /\ JobOK(r) /\ d \in Dests /\ r.stack[1].at \in Seq(Nat) /\ Top(j) = r.stack[1]
      /\ Head(r.stack) = r.stack[1] /\ 1 \in 1 .. Len(r.stack)
  BY <1>0, UnderWay, StackIs DEF Top
<1> DEFINE at == r.stack[1].at
           p == Path(d, at)
<1>2. \/ \E error \in Errors : Fail(j, error) /\ UNCHANGED files
      \/ p \notin DOMAIN files /\ MakeDir(j, Counted(j, "dirs")) /\ Len(at) <= MaxDepth
  BY <1>1 DEF EnterDir, Errors
<1>3. CASE \E error \in Errors : Fail(j, error) /\ UNCHANGED files
  BY <1>0, <1>3, FailLeads, SameLocal
<1>4. CASE p \notin DOMAIN files /\ MakeDir(j, Counted(j, "dirs")) /\ Len(at) <= MaxDepth
  <2>1. /\ files' = Bind(p, Dir)
        /\ job' = [job EXCEPT ![j].pc = "load", ![j].stats = Counted(j, "dirs")]
    BY <1>1, <1>4 DEF MakeDir
  <2>2. "load" \in Pcs /\ "dirs" \in Counters
    BY DEF Pcs, Counters
  <2>3. PICK n \in JobSet : To(j, n, "load", r.stack, Counted(j, "dirs"))
    BY <1>0, <2>1, <2>2, CountedType, Moves
  <2>4. /\ Continues(r, n) /\ n.pc = "load" /\ n.stack = r.stack /\ n.stats = Counted(j, "dirs")
    BY <2>3, ToContinues
  <2>5. Bumped(r.stats, "dirs", Counted(j, "dirs")) /\ r.stats \in [Counters -> Nat]
    BY <1>0, <2>2, CountedIs
  <2>6. /\ DOMAIN files' = DOMAIN files \cup {p} /\ files'[p] = Dir
        /\ \A q \in DOMAIN files : q # p => files'[q] = files[q]
    BY <2>1, BindIs DEF IInv
  <2>7. p.dest = d /\ Dir \in FileSet /\ CounterOf("dirs", Dir)
    BY PathFields DEF FileSet, CounterOf
  <2>8. CASE at # <<>>
    <3>1. Inside(r)
      BY <1>0, <1>1, <2>8 DEF Inside
    <3>2. Progress(r, U)
      BY <3>1, InsideIs
    <3>3. p \notin DOMAIN U
      BY <1>4 DEF Part
    <3>4. Local(j) /\ Grows(U, p, Dir, V)
      BY <2>1, <2>7, <3>1, <3>3, BindLocal
    <3>5. Counts(U, r.stats)
      BY <3>2 DEF Progress
    <3>6. Counts(V, n.stats)
      <4> HIDE DEF U, V, p, r, d
      <4>. QED
        BY <2>2, <2>4, <2>5, <2>7, <3>4, <3>5, GrowCounts
    <3>7. Progress(n, V)
      <4> HIDE DEF U, V, r
      <4>. QED
        BY <1>0, <1>1, <1>4, <2>4, <2>8, <3>2, <3>4, <3>6, EnterProgress
    <3>. QED
      BY <1>0, <2>3, <3>4, <3>7, GoLeads
  <2>9. CASE at = <<>>
    <3>1. Fresh(r)
      BY <1>0, <1>1, <2>9 DEF ExactInv, CallsInv, CallOK
    <3>2. \A q \in DOMAIN files : q.dest # d
      BY <1>4, <2>9 DEF IInv, FilesInv
    <3>3. DOMAIN V = {p} /\ V[p] = Dir
      BY <2>6, <2>7, <3>2 DEF Part
    <3>4. n.stats = [r.stats EXCEPT !["dirs"] = @ + 1]
      BY <2>4 DEF Counted
    <3>5. Progress(n, V)
      <4>1. p = Path(d, <<>>)
        BY <2>9
      <4> HIDE DEF V, r, p
      <4>. QED
        BY <1>0, <1>1, <2>4, <3>1, <3>3, <3>4, <4>1, EnterRootProgress
    <3>6. Local(j)
      <4>1. made[d] = None /\ \A k \in Jobs : Inside(job[k]) => job[k].dest # d
        BY <1>1, <1>4, <2>9 DEF IInv, OwnerInv
      <4>2. \A e \in Dests : e # d => Part(files, e) = Part(files', e)
        BY <2>6, <2>7, PartSame
      <4>. QED
        BY <4>1, <4>2 DEF Local
    <3>. QED
      BY <1>0, <2>3, <3>5, <3>6, GoLeads
  <2>. QED
    BY <2>8, <2>9
<1>. QED
  BY <1>2, <1>3, <1>4

LEMMA KeepLeads ==
  ASSUME IInv, ExactInv, NEW j \in Jobs, Inside(job[j]), job[j].pc \notin {"mkdir", "chmod"},
         NEW pc \in {"loop", "place", "link", "copy"}, Goto(j, pc), UNCHANGED <<files, made>>,
         pc # "loop" => job[j].stack[1].next <= Len(Entries[job[j].stack[1].tree]),
         pc = "link" => ~NodeOf(job[j]).executable
  PROVE  Leads(j)
<1>1. pc \in Pcs /\ pc \notin {"mkdir", "load", "chmod"} /\ (pc \in Placing => pc # "loop")
  BY DEF Pcs, Placing
<1>2. PICK n \in JobSet : To(j, n, pc, job[j].stack, job[j].stats)
  BY <1>1, Moves DEF IInv
<1>3. Continues(job[j], n) /\ n.pc = pc /\ n.stack = job[j].stack /\ n.stats = job[j].stats
  BY <1>2, ToContinues
<1>4. Progress(n, Part(files, job[j].dest))
  BY <1>1, <1>3, InsideIs, KeepProgress
<1>5. Progress(n, Part(files', job[j].dest))
  BY <1>4
<1>. QED
  BY <1>1, <1>2, <1>5, SameLocal, GoLeads

LEMMA LoadTreeLeads ==
  ASSUME IInv, ExactInv, NEW j \in Jobs, LoadTree(j)
  PROVE  Leads(j)
<1>1. /\ job[j].pc = "load" /\ UNCHANGED <<files, made>>
      /\ Goto(j, "loop") \/ Fail(j, "Missing") \/ Fail(j, "get_tree")
  BY DEF LoadTree
<1>2. Inside(job[j]) /\ "Missing" \in Errors /\ "get_tree" \in Errors /\ JobsInv
  BY <1>1 DEF Inside, Over, Errors, IInv
<1>3. CASE Goto(j, "loop")
  BY <1>1, <1>2, <1>3, KeepLeads
<1>4. CASE Fail(j, "Missing") \/ Fail(j, "get_tree")
  BY <1>1, <1>2, <1>4, FailLeads, SameLocal
<1>. QED
  BY <1>1, <1>3, <1>4

\* The entry a call is at, in its loop or while it places it
LEMMA EntryIs ==
  ASSUME IInv, ExactInv, NEW j \in Jobs, job[j].pc \in Placing
  PROVE  /\ Inside(job[j]) /\ Source(j) = NodeOf(job[j]).digest /\ NodeOf(job[j]).kind = "file"
         /\ NodeOf(job[j]).executable \in BOOLEAN /\ NodeOf(job[j]) # None
         /\ Source(j) \in Blobs /\ store[Source(j)].data = Source(j)
         /\ store[Source(j)].mode = "0444"
         /\ job[j].stack[1].next <= Len(Entries[job[j].stack[1].tree])
<1>1. /\ Inside(job[j]) /\ Source(j) = NodeOf(job[j]).digest /\ Source(j) \in Blobs
      /\ NodeOf(job[j]).kind = "file" /\ NodeOf(job[j]).executable \in BOOLEAN
  BY PlacingIs DEF IInv, Source
<1>2. JobOK(job[j]) /\ job[j].pc \notin Over /\ Walked(job[j])
  BY <1>1, InsideIs DEF Progress
<1>3. job[j].stack[1].next <= Len(Entries[job[j].stack[1].tree])
  BY <1>2 DEF Walked
<1>4. NodeOf(job[j]) # None
  BY <1>2, <1>3, ChildNode
<1>5. store[Source(j)].data = Source(j) /\ store[Source(j)].mode = "0444"
  BY <1>1 DEF IInv, StoreInv
<1>. QED
  BY <1>1, <1>3, <1>4, <1>5

\* A final entry is made: a symlink or a hardlink
LEMMA FinalLeads ==
  ASSUME IInv, ExactInv, NEW j \in Jobs, Inside(job[j]), job[j].pc \in {"loop", "link"},
         job[j].stack[1].next <= Len(Entries[job[j].stack[1].tree]),
         NodeOf(job[j]).kind # "dir",
         NEW f \in FileSet, Fits(f, NodeOf(job[j]), job[j].intent),
         NEW c \in Counters, CounterOf(c, f),
         files' = Bind(Child(j), f), NextEntry(j, Counted(j, c)), UNCHANGED made
  PROVE  Leads(j)
<1> DEFINE r == job[j]
           U == Part(files, r.dest)
           V == Part(files', r.dest)
<1>1. JobOK(r) /\ r.stack \in Seq(FrameSet) /\ r.stack # <<>> /\ Progress(r, U) /\ JobsInv
  BY InsideIs DEF IInv
<1>2. Local(j) /\ Grows(U, ChildOf(r), f, V) /\ Counts(V, Counted(j, c))
  BY Placement
<1>3. PICK n \in JobSet : To(j, n, "loop", Advance(r.stack), Counted(j, c))
  <2>1. "loop" \in Pcs
    BY DEF Pcs
  <2>. QED
    BY <1>1, <2>1, CountedType, Moves
<1>4. /\ Continues(r, n) /\ n.pc = "loop" /\ n.stack = Advance(r.stack)
      /\ n.stats = Counted(j, c)
  BY <1>3, ToContinues
<1>5. Advanced(r.stack, n.stack)
  BY <1>1, <1>4, AdvancedIs
<1>6. Progress(n, V)
  <2> HIDE DEF r, U, V
  <2>1. /\ r.pc \in {"loop", "link"} /\ r.stack[1].next <= Len(Entries[r.stack[1].tree])
        /\ NodeOf(r).kind # "dir" /\ Fits(f, NodeOf(r), r.intent)
    BY DEF r
  <2>2. Counts(V, n.stats)
    BY <1>2, <1>4
  <2>. QED
    BY <1>1, <1>2, <1>4, <1>5, <2>1, <2>2, LinkProgress
<1>. QED
  BY <1>2, <1>3, <1>6, GoLeads

\* A file is made whose mode is next: a clone or a copy
LEMMA OwnLeads ==
  ASSUME IInv, ExactInv, NEW j \in Jobs, job[j].pc \in {"place", "copy"},
         NEW m \in Modes, NEW c \in {"reflinked", "copied"},
         files' = Bind(Child(j), Own(store[Source(j)].data, m)),
         job' = [job EXCEPT ![j].pc = "chmod", ![j].stats = Counted(j, c)], UNCHANGED made
  PROVE  Leads(j)
<1> DEFINE r == job[j]
           U == Part(files, r.dest)
           V == Part(files', r.dest)
           f == Own(store[Source(j)].data, m)
<1>0. r.pc \in Placing /\ r.pc \notin {"chmod", "mkdir"} /\ c \in Counters /\ "chmod" \in Pcs
  BY DEF Placing, Counters, Pcs
<1>1. /\ Inside(r) /\ NodeOf(r) # None /\ NodeOf(r).kind = "file"
      /\ store[Source(j)].data = NodeOf(r).digest /\ NodeOf(r).digest \in Blobs
  BY <1>0, EntryIs
<1>2. f \in OwnSet /\ f.data = NodeOf(r).digest
  BY <1>1 DEF Own, OwnSet
<1>3. f \in FileSet /\ CounterOf(c, f) /\ f.ino = None /\ f.kind = "file"
  BY <1>2, FileKinds DEF FileSet, CounterOf
<1>4. JobOK(r) /\ Progress(r, U) /\ JobsInv
  BY <1>1, InsideIs DEF IInv
<1> HIDE DEF f
<1>5. files' = Bind(Child(j), f)
  BY DEF f
<1>6. Local(j) /\ Grows(U, ChildOf(r), f, V) /\ Counts(V, Counted(j, c))
  BY <1>0, <1>1, <1>3, <1>5, Placement
<1>7. PICK n \in JobSet : To(j, n, "chmod", r.stack, Counted(j, c))
  BY <1>0, <1>4, CountedType, Moves
<1>8. Continues(r, n) /\ n.pc = "chmod" /\ n.stack = r.stack /\ n.stats = Counted(j, c)
  BY <1>7 DEF To, Continues
<1>9. FitsButMode(f, NodeOf(r))
  BY <1>1, <1>2, <1>3 DEF FitsButMode, Data
<1>10. Progress(n, V)
  <2>1. r.pc \in {"place", "copy"} /\ Counts(V, n.stats)
    BY <1>6, <1>8
  <2> HIDE DEF r, U, V
  <2>. QED
    BY <1>3, <1>4, <1>6, <1>8, <1>9, <2>1, CopyProgress
<1>. QED
  BY <1>6, <1>7, <1>10, GoLeads

LEMMA VisitLeads ==
  ASSUME IInv, ExactInv, NEW j \in Jobs, Visit(j)
  PROVE  Leads(j)
<1> DEFINE r == job[j]
<1>1. /\ r.pc = "loop" /\ UNCHANGED made
      /\ Top(j).next <= Len(Entries[Top(j).tree])
      /\ VisitFile(j) \/ VisitDir(j) \/ VisitSymlink(j)
  BY DEF Visit
<1>2. Inside(r) /\ r.pc \notin Over \cup {"mkdir", "chmod"} /\ JobsInv
  BY <1>1 DEF Inside, Over, IInv
<1>3. /\ JobOK(r) /\ r.stack \in Seq(FrameSet) /\ Top(j) = r.stack[1] /\ Node(j) = NodeOf(r)
      /\ Child(j) = ChildOf(r) /\ Progress(r, Part(files, r.dest))
  BY <1>2, InsideIs
<1>4. r.stack[1].next <= Len(Entries[r.stack[1].tree])
  BY <1>1, <1>3
<1>5. NodeOf(r) # None /\ NodeOf(r) \in Nodes
  BY <1>2, <1>3, <1>4, ChildNode DEF Progress
<1>6. CASE VisitFile(j)
  <2>1. UNCHANGED files /\ (Goto(j, "place") \/ Fail(j, "Missing")) /\ "Missing" \in Errors
    BY <1>6 DEF VisitFile, Errors
  <2>2. CASE Goto(j, "place")
    BY <1>1, <1>2, <1>4, <2>1, <2>2, KeepLeads
  <2>3. CASE Fail(j, "Missing")
    BY <1>1, <1>2, <2>1, <2>3, FailLeads, SameLocal
  <2>. QED
    BY <2>1, <2>2, <2>3
<1>7. CASE VisitDir(j)
  <2> DEFINE at == Append(r.stack[1].at, r.stack[1].next)
             frame == Frame(at, NodeOf(r).digest)
             stack == <<frame>> \o r.stack
  <2>1. /\ NodeOf(r).kind = "dir" /\ UNCHANGED files
        /\ job' = [job EXCEPT ![j].pc = "mkdir", ![j].stack = stack]
    <3>1. Child(j).at = at
      BY <1>2, <1>3, ChildAt
    <3>. QED
      BY <1>3, <1>7, <3>1 DEF VisitDir, IInv, JobsInv, JobOK, JobSet
  <2>2. NodeOf(r).digest \in Trees
    <3>1. Head(r.stack) = r.stack[1]
      BY <1>2, <1>3, StackIs
    <3>. QED
      BY <1>1, <1>3, <1>4, <2>1, <3>1, NodeIs
  <2>3. at \in Seq(Nat) /\ at # <<>>
    <3>1. Head(r.stack) = r.stack[1]
      BY <1>2, <1>3, StackIs
    <3>. QED
      BY <1>2, <3>1, UnderWay
  <2>4. frame \in FrameSet /\ frame.at = at
    <3>1. ASSUME NEW a \in Seq(Nat), NEW t \in Trees
          PROVE  Frame(a, t) \in FrameSet /\ Frame(a, t).at = a
      BY DEF Frame, FrameSet
    <3> HIDE DEF at
    <3>. QED
      BY <2>2, <2>3, <3>1
  <2>5. stack \in Seq(FrameSet) /\ Head(stack) = frame /\ Pushed(r.stack, frame, stack)
    <3>1. ASSUME NEW f \in FrameSet, NEW t \in Seq(FrameSet)
          PROVE  <<f>> \o t \in Seq(FrameSet) /\ Head(<<f>> \o t) = f
      OBVIOUS
    <3> HIDE DEF frame
    <3>. QED
      BY <1>3, <2>4, <3>1, PushedIs
  <2>6. "mkdir" \in Pcs
    BY DEF Pcs
  <2> HIDE DEF stack
  <2>7. PICK n \in JobSet : To(j, n, "mkdir", stack, r.stats)
    BY <1>2, <2>1, <2>5, <2>6, Moves
  <2>8. Continues(r, n) /\ n.pc = "mkdir" /\ n.stack = stack /\ n.stats = r.stats
    BY <2>7, ToContinues
  <2>9. Pushed(r.stack, Frame(Append(r.stack[1].at, r.stack[1].next), NodeOf(r).digest), n.stack)
    BY <2>5, <2>8
  <2>10. Progress(n, Part(files, r.dest))
    BY <1>1, <1>3, <1>4, <2>1, <2>8, <2>9, PushProgress
  <2>11. Progress(n, Part(files', r.dest)) /\ Head(stack).at # <<>>
    BY <2>1, <2>3, <2>4, <2>5, <2>10
  <2>. QED
    BY <1>1, <2>1, <2>7, <2>11, SameLocal, GoLeads
<1>8. CASE VisitSymlink(j)
  <2>1. CASE Fail(j, "symlink") /\ UNCHANGED files
    <3>1. "symlink" \in Errors
      BY DEF Errors
    <3>. QED
      BY <1>1, <1>2, <2>1, <3>1, FailLeads, SameLocal
  <2>2. CASE files' = Bind(Child(j), Symlink) /\ NextEntry(j, Counted(j, "symlinks"))
    <3>1. NodeOf(r).kind = "symlink"
      BY <1>3, <1>8 DEF VisitSymlink
    <3>2. Symlink \in FileSet /\ "symlinks" \in Counters /\ CounterOf("symlinks", Symlink)
      BY DEF FileSet, Counters, CounterOf
    <3>3. Fits(Symlink, NodeOf(r), r.intent)
      BY <1>5, <3>1 DEF Fits, Symlink
    <3>4. NodeOf(r).kind # "dir" /\ r.pc \in {"loop", "link"}
      BY <1>1, <3>1
    <3>. QED
      BY <1>1, <1>2, <1>4, <2>2, <3>2, <3>3, <3>4, FinalLeads
  <2>. QED
    BY <1>8, <2>1, <2>2 DEF VisitSymlink
<1>. QED
  BY <1>1, <1>6, <1>7, <1>8

LEMMA LeaveLeads ==
  ASSUME IInv, ExactInv, NEW j \in Jobs, Leave(j)
  PROVE  Leads(j)
<1> DEFINE r == job[j]
           U == Part(files, r.dest)
<1>1. r.pc = "loop" /\ UNCHANGED files /\ Top(j).next > Len(Entries[Top(j).tree])
  BY DEF Leave
<1>2. Inside(r) /\ {"done", "loop"} \subseteq Pcs /\ "done" \in Over /\ JobsInv
  BY <1>1 DEF Inside, Over, Pcs, IInv
<1>3. /\ JobOK(r) /\ r.stack \in Seq(FrameSet) /\ r.stack # <<>> /\ Top(j) = r.stack[1]
      /\ Progress(r, U) /\ <<>> \in Seq(FrameSet)
  BY <1>2, InsideIs
<1>4. r.stack[1].next > Len(Entries[r.stack[1].tree])
  BY <1>1, <1>3
<1>5. CASE Len(r.stack) = 1
  <2> DEFINE m == [root |-> r.root, intent |-> r.intent, stats |-> r.stats]
  <2>1. /\ job' = [job EXCEPT ![j].pc = "done", ![j].stack = <<>>]
        /\ made' = [made EXCEPT ![r.dest] = m]
    BY <1>5 DEF Leave
  <2>2. PICK n \in JobSet : To(j, n, "done", <<>>, r.stats)
    BY <1>2, <1>3, <2>1, Moves
  <2>3. n.pc \in Over /\ job' = [job EXCEPT ![j] = n]
    BY <1>2, <2>2 DEF To
  <2>4. CallOK(n, files')
    BY <2>3 DEF CallOK, Inside, Over
  <2>5. m.root = r.root /\ m.intent = r.intent /\ m.stats = r.stats
    OBVIOUS
  <2> HIDE DEF m
  <2>6. Finished(m, r.dest, U)
    BY <1>1, <1>3, <1>4, <1>5, <2>5, FinishedIs
  <2>7. Finished(m, r.dest, Part(files', r.dest)) /\ Local(j)
    BY <1>1, <2>6, SameLocal
  <2>. QED
    BY <2>1, <2>3, <2>4, <2>7 DEF Leads
<1>6. CASE Len(r.stack) # 1
  <2> DEFINE t == Tail(r.stack)
             stack == Advance(t)
  <2>1. job' = [job EXCEPT ![j].pc = "loop", ![j].stack = stack] /\ UNCHANGED made
    BY <1>6 DEF Leave, IInv, JobsInv, JobOK, JobSet
  <2>2. Len(r.stack) > 1
    <3> DEFINE n == Len(r.stack)
    <3>1. n \in Nat \ {0} /\ n # 1
      BY <1>2, <1>3, <1>6, StackIs DEF Inside
    <3> HIDE DEF n
    <3>2. n > 1
      BY <3>1
    <3>. QED
      BY <3>2 DEF n
  <2>3. t \in Seq(FrameSet) /\ t # <<>>
    <3>1. t \in Seq(FrameSet) /\ Len(t) = Len(r.stack) - 1 /\ Len(r.stack) \in Nat
      BY <1>3
    <3> HIDE DEF t
    <3>. QED
      BY <2>2, <3>1
  <2>4. stack \in Seq(FrameSet) /\ Popped(r.stack, stack)
    BY <1>3, <2>2, <2>3, AdvanceFacts, PoppedIs
  <2> HIDE DEF stack
  <2>5. PICK n \in JobSet : To(j, n, "loop", stack, r.stats)
    BY <1>2, <2>1, <2>4, Moves
  <2>6. Continues(r, n) /\ n.pc = "loop" /\ n.stack = stack /\ n.stats = r.stats
    BY <2>5, ToContinues
  <2>7. Progress(n, U)
    <3>1. Popped(r.stack, n.stack)
      BY <2>4, <2>6
    <3>. QED
      BY <1>1, <1>3, <1>4, <2>2, <2>6, <3>1, PopProgress
  <2>8. Progress(n, Part(files', r.dest))
    BY <1>1, <2>7
  <2>. QED
    BY <1>1, <2>1, <2>5, <2>8, SameLocal, GoLeads
<1>. QED
  BY <1>5, <1>6

LEMMA CloneLeads ==
  ASSUME IInv, ExactInv, NEW j \in Jobs, Clone(j) \/ SkipClone(j)
  PROVE  Leads(j)
<1>1. job[j].pc = "place" /\ UNCHANGED made
  BY DEF Clone, SkipClone
<1>2. job[j].pc \in Placing /\ "clone" \in Errors /\ "0644" \in Modes /\ JobsInv
  BY <1>1 DEF Placing, Errors, Modes, IInv
<1>3. /\ Inside(job[j]) /\ job[j].stack[1].next <= Len(Entries[job[j].stack[1].tree])
      /\ Node(j) = NodeOf(job[j])
  BY <1>2, EntryIs, PlacingIs
<1>4. /\ AfterClone(j) \in {"link", "copy"}
      /\ AfterClone(j) = "link" => ~NodeOf(job[j]).executable
  BY <1>3 DEF AfterClone, PlaceIntent
<1>5. \/ CloneWorks(j)
      \/ Goto(j, AfterClone(j)) /\ UNCHANGED files
      \/ Fail(j, "clone") /\ UNCHANGED files
      \/ Fail(j, "clone") /\ files' = Bind(Child(j), Own(None, "0644"))
  BY DEF Clone, SkipClone, CloneUnsupported, CloneFails
<1>6. CASE CloneWorks(j)
  BY <1>1, <1>2, <1>6, OwnLeads DEF CloneWorks
<1>7. CASE Goto(j, AfterClone(j)) /\ UNCHANGED files
  <2>1. /\ job[j].pc \notin {"mkdir", "chmod"} /\ UNCHANGED <<files, made>>
        /\ AfterClone(j) \in {"loop", "place", "link", "copy"}
    BY <1>1, <1>4, <1>7
  <2>. QED
    BY <1>3, <1>4, <1>7, <2>1, KeepLeads
<1>8. CASE Fail(j, "clone") /\ UNCHANGED files
  BY <1>1, <1>2, <1>8, FailLeads, SameLocal
<1>9. CASE Fail(j, "clone") /\ files' = Bind(Child(j), Own(None, "0644"))
  <2>1. Child(j) = ChildOf(job[j]) /\ Child(j).dest = job[j].dest
    BY <1>2, PlacingIs, PathFields DEF ChildOf
  <2>2. Local(j)
    BY <1>3, <1>9, <2>1, BindLocal
  <2>. QED
    BY <1>1, <1>2, <1>9, <2>2, FailLeads
<1>. QED
  BY <1>5, <1>6, <1>7, <1>8, <1>9

LEMMA LinkLeads ==
  ASSUME IInv, ExactInv, NEW j \in Jobs, Link(j)
  PROVE  Leads(j)
<1> DEFINE r == job[j]
<1>1. r.pc = "link" /\ UNCHANGED made
  BY DEF Link
<1>2. r.pc \in Placing /\ "link" \in Errors /\ "hardlinked" \in Counters /\ JobsInv
  BY <1>1 DEF Placing, Errors, Counters, IInv
<1>3. /\ Inside(r) /\ Source(j) = NodeOf(r).digest /\ NodeOf(r).kind = "file" /\ NodeOf(r) # None
      /\ Source(j) \in Blobs /\ r.stack[1].next <= Len(Entries[r.stack[1].tree])
  BY <1>2, EntryIs
<1>4. r.intent = "OverlayLower" /\ ~NodeOf(r).executable
  BY <1>1, <1>3, InsideIs DEF JobOK, Progress, Walked
<1>5. \/ files' = Bind(Child(j), Shared(Source(j))) /\ NextEntry(j, Counted(j, "hardlinked"))
      \/ Goto(j, "copy") /\ UNCHANGED files
      \/ Fail(j, "link") /\ UNCHANGED files
  BY DEF Link
<1>6. CASE files' = Bind(Child(j), Shared(Source(j))) /\ NextEntry(j, Counted(j, "hardlinked"))
  <2> DEFINE f == Shared(Source(j))
  <2>1. f \in SharedSet /\ f.ino = Source(j) /\ f.kind = "file"
    BY <1>3 DEF Shared, SharedSet
  <2> HIDE DEF f
  <2>2. f \in FileSet /\ CounterOf("hardlinked", f) /\ f.ino # None
    BY <2>1, FileKinds DEF FileSet, CounterOf
  <2>3. Want(r.intent, NodeOf(r).executable) = "0444"
    BY <1>4 DEF Want
  <2>4. Fits(f, NodeOf(r), r.intent)
    BY <1>3, <2>1, <2>2, <2>3 DEF Fits, Mode, Data
  <2>5. files' = Bind(Child(j), f) /\ NodeOf(r).kind # "dir" /\ r.pc \in {"loop", "link"}
    BY <1>1, <1>3, <1>6 DEF f
  <2>. QED
    BY <1>1, <1>2, <1>3, <1>6, <2>2, <2>4, <2>5, FinalLeads
<1>7. CASE Goto(j, "copy") /\ UNCHANGED files
  BY <1>1, <1>3, <1>7, KeepLeads
<1>8. CASE Fail(j, "link") /\ UNCHANGED files
  BY <1>1, <1>2, <1>8, FailLeads, SameLocal
<1>. QED
  BY <1>5, <1>6, <1>7, <1>8

LEMMA CopyLeads ==
  ASSUME IInv, ExactInv, NEW j \in Jobs, Copy(j)
  PROVE  Leads(j)
<1>1. job[j].pc = "copy" /\ UNCHANGED made
  BY DEF Copy
<1>2. job[j].pc \in Placing /\ "copy" \in Errors /\ JobsInv /\ "0444" \in Modes
  BY <1>1 DEF Placing, Errors, IInv, Modes
<1>3. Inside(job[j]) /\ store[Source(j)].mode = "0444" /\ Child(j) = ChildOf(job[j])
  BY <1>2, EntryIs, PlacingIs
<1>4. \/ /\ files' = Bind(Child(j), Own(store[Source(j)].data, store[Source(j)].mode))
         /\ job' = [job EXCEPT ![j].pc = "chmod", ![j].stats = Counted(j, "copied")]
      \/ /\ files' = Bind(Child(j), Own(None, store[Source(j)].mode))
         /\ Fail(j, "copy")
      \/ Fail(j, "copy") /\ UNCHANGED files
  BY DEF Copy
<1>5. CASE /\ files' = Bind(Child(j), Own(store[Source(j)].data, store[Source(j)].mode))
           /\ job' = [job EXCEPT ![j].pc = "chmod", ![j].stats = Counted(j, "copied")]
  BY <1>1, <1>2, <1>3, <1>5, OwnLeads
<1>6. CASE files' = Bind(Child(j), Own(None, store[Source(j)].mode)) /\ Fail(j, "copy")
  <2>1. Child(j).dest = job[j].dest
    BY <1>3, PathFields DEF ChildOf
  <2>2. Local(j)
    BY <1>3, <1>6, <2>1, BindLocal
  <2>. QED
    BY <1>1, <1>2, <1>6, <2>2, FailLeads
<1>7. CASE Fail(j, "copy") /\ UNCHANGED files
  BY <1>1, <1>2, <1>7, FailLeads, SameLocal
<1>. QED
  BY <1>4, <1>5, <1>6, <1>7

LEMMA ChmodLeads ==
  ASSUME IInv, ExactInv, NEW j \in Jobs, Chmod(j)
  PROVE  Leads(j)
<1> DEFINE r == job[j]
           U == Part(files, r.dest)
           V == Part(files', r.dest)
           c == ChildOf(r)
           m == Want(r.intent, NodeOf(r).executable)
<1>1. r.pc = "chmod" /\ UNCHANGED made
  BY DEF Chmod
<1>2. r.pc \in Placing /\ "chmod" \in Errors /\ "loop" \in Pcs /\ JobsInv
  BY <1>1 DEF Placing, Errors, Pcs, IInv
<1>3. Inside(r) /\ Child(j) = c /\ Node(j) = NodeOf(r) /\ NodeOf(r).executable \in BOOLEAN
  BY <1>2, PlacingIs
<1>4. /\ JobOK(r) /\ r.stack \in Seq(FrameSet) /\ r.stack # <<>> /\ Progress(r, U)
      /\ r.stats \in [Counters -> Nat] /\ r.intent \in Intents
  BY <1>3, InsideIs DEF JobOK
<1>5. \/ files' = [files EXCEPT ![c].mode = m] /\ NextEntry(j, r.stats)
      \/ Fail(j, "chmod") /\ UNCHANGED files
  BY <1>3 DEF Chmod
<1>6. CASE files' = [files EXCEPT ![c].mode = m] /\ NextEntry(j, r.stats)
  <2>1. m \in Modes
    BY <1>3, <1>4, WantIs
  <2>2. /\ c \in DOMAIN files /\ files[c] \in OwnSet /\ c.dest = r.dest
        /\ files = [q \in DOMAIN files |-> files[q]]
    BY <1>1, PathFields DEF IInv, ChmodInv, FilesInv, ChildOf
  <2>3. PICK n \in JobSet : To(j, n, "loop", Advance(r.stack), r.stats)
    BY <1>2, <1>4, <1>6, Moves
  <2>4. Continues(r, n) /\ n.pc = "loop" /\ n.stack = Advance(r.stack) /\ n.stats = r.stats
    BY <2>3, ToContinues
  <2>5. Advanced(r.stack, n.stack)
    BY <1>4, <2>4, AdvancedIs
  <2> HIDE DEF c, m
  <2> DEFINE f == [files[c] EXCEPT !.mode = m]
  <2>6. files' = [files EXCEPT ![c] = f]
    BY <1>6, <2>2
  <2> HIDE DEF f
  <2>7. /\ DOMAIN files' = DOMAIN files /\ files'[c] = f
        /\ \A q \in DOMAIN files : q # c => files'[q] = files[q]
    BY <2>2, <2>6
  <2>8. Local(j)
    BY <1>3, <2>2, <2>7, LocalChange
  <2>9. /\ c \in DOMAIN U /\ U[c] = files[c] /\ DOMAIN V = DOMAIN U /\ V[c] = f
        /\ \A q \in DOMAIN U : q # c => V[q] = U[q]
    BY <2>2, <2>7 DEF Part
  <2>10. Progress(n, V)
    <3>1. U[c] \in OwnSet /\ V[c] = [U[c] EXCEPT !.mode = m]
      BY <2>2, <2>9 DEF f
    <3> HIDE DEF U, V, r
    <3>. QED
      BY <1>1, <1>4, <2>1, <2>4, <2>5, <2>9, <3>1, SealProgress DEF c, m
  <2>. QED
    BY <1>1, <2>3, <2>8, <2>10, GoLeads
<1>7. CASE Fail(j, "chmod") /\ UNCHANGED files
  BY <1>1, <1>2, <1>7, FailLeads, SameLocal
<1>. QED
  BY <1>5, <1>6, <1>7

LEMMA StopLeads ==
  ASSUME NEW j \in Jobs, Return(j) \/ Kill(j)
  PROVE  Leads(j)
<1>1. job' = [job EXCEPT ![j] = Idle] /\ UNCHANGED <<files, made>>
  BY DEF Return, Kill
<1>2. Idle.pc \in Over
  BY DEF Idle, Over
<1>. QED
  BY <1>1, <1>2, OverLeads, SameLocal

LEMMA StartLeads ==
  ASSUME NEW j \in Jobs, NEW d \in Dests, NEW t \in Roots, NEW i \in Intents, Start(j, d, t, i)
  PROVE  Leads(j)
<1> DEFINE refused == [Idle EXCEPT !.pc = "failed", !.error = "DestinationExists"]
           stack == <<Frame(<<>>, t)>>
           begun == [Idle EXCEPT !.pc = "mkdir", !.dest = d, !.root = t, !.intent = i,
                                 !.stack = stack]
<1>1. /\ UNCHANGED <<files, made>>
      /\ job' = [job EXCEPT ![j] = refused] \/ job' = [job EXCEPT ![j] = begun]
  BY DEF Start
<1>2. Local(j)
  BY <1>1, SameLocal
<1>3. CASE job' = [job EXCEPT ![j] = refused]
  <2>1. refused.pc \in Over
    BY DEF Idle, Over
  <2> HIDE DEF refused
  <2>. QED
    BY <1>1, <1>2, <1>3, <2>1, OverLeads
<1>4. CASE job' = [job EXCEPT ![j] = begun]
  <2>1. t \in Trees /\ Idle \in JobSet /\ Idle.stats = [c \in Counters |-> 0]
    BY GraphAssumption, IdleOK DEF JobOK, Idle
  <2>2. Head(stack).at = <<>>
    BY DEF Frame
  <2>3. stack = <<Frame(<<>>, t)>>
    OBVIOUS
  <2> HIDE DEF stack
  <2>4. begun.pc = "mkdir" /\ begun.root = t /\ begun.stack = stack /\ begun.stats = Idle.stats
    BY <2>1 DEF JobSet
  <2> HIDE DEF begun
  <2>5. ~Inside(begun)
    BY <2>2, <2>4 DEF Inside
  <2>6. Fresh(begun)
    BY <2>1, <2>3, <2>4 DEF Fresh
  <2>7. CallOK(begun, files')
    BY <2>5, <2>6 DEF CallOK
  <2>. QED
    BY <1>1, <1>2, <1>4, <2>7 DEF Leads
<1>. QED
  BY <1>1, <1>3, <1>4

(***************************************************************************)
(* The steps of the environment                                             *)
(***************************************************************************)
LEMMA StillExact ==
  ASSUME ExactInv, UNCHANGED <<files, job, made>>
  PROVE  ExactInv'
BY DEF ExactInv, CallsInv, MadeInv

\* A write is to a private workspace, which may hold what its steps write
LEMMA WriteExact ==
  ASSUME IInv, ExactInv, NEW p \in DOMAIN files, Write(p)
  PROVE  ExactInv'
<1> DEFINE d == p.dest
<1>1. /\ files[p] \in OwnSet /\ made[d].intent # "OverlayLower" /\ made[d] # None
      /\ files' = [files EXCEPT ![p].data = "edited"] /\ job' = job /\ made' = made
  BY WriteIs DEF Write
<1>2. /\ DOMAIN files' = DOMAIN files /\ files'[p] \in OwnSet
      /\ \A q \in DOMAIN files : q # p => files'[q] = files[q]
  BY WriteInv
<1>3. files'[p].data = "edited" /\ files'[p].mode = files[p].mode
  <2>1. ASSUME NEW old \in OwnSet, NEW new, new = [old EXCEPT !.data = "edited"]
        PROVE  new.data = "edited" /\ new.mode = old.mode
    BY <2>1 DEF OwnSet
  <2>2. files'[p] = [files[p] EXCEPT !.data = "edited"]
    BY <1>1 DEF IInv, FilesInv
  <2>. QED
    BY <1>1, <2>1, <2>2
<1>4. \A e \in Dests : e # d => Part(files, e) = Part(files', e)
  BY <1>2, PartSame
<1>5. ASSUME NEW k \in Jobs PROVE CallOK(job'[k], files')
  <2>1. CallOK(job[k], files) /\ job'[k] = job[k]
    BY <1>1 DEF ExactInv, CallsInv
  <2>2. Inside(job[k]) => job[k].dest \in Dests /\ job[k].dest # d
    BY <1>1, Alone DEF IInv, OwnerInv
  <2>. QED
    BY <1>4, <2>1, <2>2 DEF CallOK
<1>6. ASSUME NEW e \in Dests, made'[e] # None PROVE Finished(made'[e], e, Part(files', e))
  <2>1. made'[e] = made[e] /\ Finished(made[e], e, Part(files, e))
    BY <1>1, <1>6 DEF ExactInv, MadeInv
  <2>2. CASE e # d
    BY <1>4, <2>1, <2>2
  <2>3. CASE e = d
    <3> DEFINE U == Part(files, d)
               V == Part(files', d)
               m == made[d]
    <3>1. /\ DOMAIN V = DOMAIN U /\ p \in DOMAIN U /\ U[p] = files[p] /\ V[p] = files'[p]
          /\ \A q \in DOMAIN U : q # p => V[q] = U[q]
      BY <1>2 DEF Part
    <3>2. Finished(m, d, U) /\ m.intent = "PrivateInode"
      BY <1>1, <2>1, <2>3 DEF Finished, Intents
    <3> HIDE DEF U, V, m, d
    <3>3. Counts(V, m.stats)
      <4>1. \A q \in DOMAIN U : V[q] = U[q] \/ (U[q] \in OwnSet /\ V[q] \in OwnSet)
        BY <1>1, <1>2, <3>1
      <4>. QED
        BY <3>1, <3>2, <4>1, SameCounts DEF Finished
    <3>4. Fits(V[p], Resolve(m.root, p.at), m.intent)
      <4>1. Fits(U[p], Resolve(m.root, p.at), m.intent)
        BY <3>1, <3>2 DEF Finished
      <4>2. /\ V[p].kind = "file" /\ U[p].kind = "file" /\ V[p].ino = None /\ U[p].ino = None
            /\ V[p].mode = U[p].mode /\ V[p].data = "edited"
        BY <1>1, <1>2, <1>3, <3>1, FileKinds
      <4>3. Mode(V[p]) = Mode(U[p]) /\ Data(V[p]) = "edited"
        BY <4>2 DEF Mode, Data
      <4>. QED
        BY <3>2, <4>1, <4>2, <4>3 DEF Fits
    <3>5. \A q \in DOMAIN V : Fits(V[q], Resolve(m.root, q.at), m.intent)
      BY <3>1, <3>2, <3>4 DEF Finished
    <3>6. Finished(m, d, V)
      BY <3>1, <3>2, <3>3, <3>5 DEF Finished
    <3>. QED
      BY <2>1, <2>3, <3>6 DEF V, m
  <2>. QED
    BY <2>2, <2>3
<1>. QED
  BY <1>5, <1>6 DEF ExactInv, CallsInv, MadeInv

\* What is removed was nobody's
LEMMA CleanExact ==
  ASSUME IInv, ExactInv, NEW d \in Dests, Clean(d)
  PROVE  ExactInv'
<1>1. /\ \A j \in Jobs : job[j].pc \notin Over => job[j].dest # d
      /\ files' = [p \in DOMAIN files \ Under(d) |-> files[p]]
      /\ made' = [made EXCEPT ![d] = None] /\ job' = job
  BY DEF Clean, Running, Over
<1>2. /\ DOMAIN files' = {p \in DOMAIN files : p.dest # d}
      /\ \A p \in DOMAIN files' : files'[p] = files[p]
  BY <1>1 DEF Under
<1>3. \A e \in Dests : e # d => Part(files, e) = Part(files', e)
  BY <1>2, PartSame
<1>4. ASSUME NEW k \in Jobs PROVE CallOK(job'[k], files')
  <2>1. CallOK(job[k], files) /\ job'[k] = job[k]
    BY <1>1 DEF ExactInv, CallsInv
  <2>2. Inside(job[k]) => job[k].dest \in Dests /\ job[k].dest # d
    BY <1>1, Alone DEF Inside
  <2>. QED
    BY <1>3, <2>1, <2>2 DEF CallOK
<1>5. ASSUME NEW e \in Dests, made'[e] # None PROVE Finished(made'[e], e, Part(files', e))
  <2>1. e # d /\ made'[e] = made[e]
    BY <1>1, <1>5 DEF IInv, OwnerInv
  <2>2. Finished(made[e], e, Part(files, e))
    BY <1>5, <2>1 DEF ExactInv, MadeInv
  <2>. QED
    BY <1>3, <2>1, <2>2
<1>. QED
  BY <1>4, <1>5 DEF ExactInv, CallsInv, MadeInv

\* At the start no call is under way, and none has returned
LEMMA ExactInit == Init => ExactInv
<1> SUFFICES ASSUME Init PROVE ExactInv
  OBVIOUS
<1>1. job = [j \in Jobs |-> Idle] /\ made = [d \in Dests |-> None]
  BY DEF Init
<1>2. Idle.pc = "idle"
  BY DEF Idle
<1>3. CallOK(Idle, files)
  BY <1>2, IdleOK DEF CallOK
<1>. QED
  BY <1>1, <1>3 DEF ExactInv, CallsInv, MadeInv

LEMMA ExactStep == IInv /\ ExactInv /\ [Next]_vars => ExactInv'
<1> SUFFICES ASSUME IInv, ExactInv, [Next]_vars PROVE ExactInv'
  OBVIOUS
<1>1. ASSUME NEW j \in Jobs, \/ \E d \in Dests, t \in Roots, i \in Intents : Start(j, d, t, i)
                             \/ Step(j) \/ Return(j) \/ Kill(j)
      PROVE  ExactInv'
  <2>1. Leads(j)
    BY <1>1, StartLeads, StopLeads, EnterDirLeads, LoadTreeLeads, VisitLeads, LeaveLeads,
       CloneLeads, LinkLeads, CopyLeads, ChmodLeads DEF Step
  <2>. QED
    BY <2>1, LeadsInv
<1>2. CASE UNCHANGED vars
  BY <1>2, StillExact DEF vars
<1>3. ASSUME NEW o, Unlink(o) PROVE ExactInv'
  BY <1>3, StillExact DEF Unlink
<1>. QED
  BY <1>1, <1>2, <1>3, WriteExact, CleanExact DEF Next

\* The names of a store that is what it was have the objects' bytes and mode
LEMMA InodeIs ==
  ASSUME StoreInv, NEW f \in FileSet, f.kind = "file"
  PROVE  Inode(f).data = Data(f) /\ Inode(f).mode = Mode(f)
<1>1. f \in SharedSet \/ f \in OwnSet
  BY DEF FileSet, Dir, Symlink
<1>2. CASE f \in OwnSet
  BY <1>2, FileKinds DEF Inode, Data, Mode
<1>3. CASE f \in SharedSet
  <2>1. f.ino \in Blobs /\ f.ino # None
    BY <1>3, FileKinds DEF SharedSet
  <2>. QED
    BY <2>1 DEF Inode, Data, Mode, StoreInv
<1>. QED
  BY <1>1, <1>2, <1>3

LEMMA ExactImplies == IInv /\ ExactInv => CompletedIsExact
<1> SUFFICES ASSUME IInv, ExactInv, NEW d \in Dests, made[d] # None
             PROVE  /\ Path(d, <<>>) \in DOMAIN files
                    /\ StatsMatch(d, made[d].stats)
                    /\ \A p \in Under(d) :
                         LET node == Resolve(made[d].root, p.at)
                         IN  /\ Matches(files[p], node, made[d].intent)
                             /\ node.kind = "dir" =>
                                  /\ Len(p.at) <= MaxDepth
                                  /\ \A i \in 1 .. Len(Entries[node.digest]) :
                                       Path(d, Append(p.at, i)) \in DOMAIN files
  BY DEF CompletedIsExact
<1> DEFINE U == Part(files, d)
           m == made[d]
<1>1. Path(d, <<>>) \in DOMAIN files
  BY DEF IInv, OwnerInv
<1>2. Finished(m, d, U)
  BY DEF ExactInv, MadeInv
<1>3. DOMAIN U = Under(d) /\ \A p \in Under(d) : U[p] = files[p] /\ p \in DOMAIN files
  BY DEF Part, Under
<1> HIDE DEF U, m
<1>4. StatsMatch(d, m.stats)
  <2>1. /\ Dirs(U) = {p \in Under(d) : files[p].kind = "dir"}
        /\ Symlinks(U) = {p \in Under(d) : files[p].kind = "symlink"}
        /\ Linked(U) = {p \in Under(d) : files[p].kind = "file" /\ files[p].ino # None}
        /\ Private(U) = {p \in Under(d) : files[p].kind = "file" /\ files[p].ino = None}
    BY <1>3 DEF Dirs, Symlinks, Linked, Private
  <2>2. Counts(U, m.stats)
    BY <1>2 DEF Finished
  <2>. QED
    BY <2>1, <2>2, Zenon DEF Counts, StatsMatch
<1>5. ASSUME NEW p \in Under(d)
      PROVE  /\ Matches(files[p], Resolve(m.root, p.at), m.intent)
             /\ Resolve(m.root, p.at).kind = "dir" =>
                  /\ Len(p.at) <= MaxDepth
                  /\ \A i \in 1 .. Len(Entries[Resolve(m.root, p.at).digest]) :
                       Path(d, Append(p.at, i)) \in DOMAIN files
  <2> DEFINE node == Resolve(m.root, p.at)
  <2>1. p \in DOMAIN U /\ U[p] = files[p] /\ files[p] \in FileSet
    BY <1>3 DEF IInv, FilesInv
  <2>2. Fits(files[p], node, m.intent)
    BY <1>2, <2>1 DEF Finished
  <2>3. node.kind = "dir" =>
          /\ Len(p.at) <= MaxDepth
          /\ \A i \in 1 .. Len(Entries[node.digest]) : Path(d, Append(p.at, i)) \in DOMAIN U
    BY <1>2, <2>1 DEF Finished
  <2>4. \A q \in DOMAIN U : q \in DOMAIN files
    BY <1>3
  <2>5. files[p].kind = "file" =>
          Inode(files[p]).data = Data(files[p]) /\ Inode(files[p]).mode = Mode(files[p])
    BY <2>1, InodeIs DEF IInv
  <2> HIDE DEF node
  <2>6. Matches(files[p], node, m.intent)
    BY <2>2, <2>5 DEF Fits, Matches
  <2>. QED
    BY <2>3, <2>4, <2>6 DEF node
<1>. QED
  BY <1>1, <1>4, <1>5 DEF m

\* A call that returns Ok has made exactly the tree it was asked for, for every
\* tree, at every depth, for any number of calls, faults and kills: each entry is
\* there with its bytes and its mode, nothing else is, no directory is deeper than
\* the bound, and the statistics count what is there (store.rs, materialize_tree and
\* materialize_into).
THEOREM CompletedExact == Spec => []CompletedIsExact
<1>1. Init => IInv /\ ExactInv
  BY InvInit, ExactInit
<1>2. IInv /\ ExactInv /\ [Next]_vars => IInv' /\ ExactInv'
  BY InvStep, ExactStep
<1>. QED
  BY <1>1, <1>2, ExactImplies, PTL DEF Spec
=============================================================================
