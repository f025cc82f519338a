------------------------------- MODULE CasGc --------------------------------
(***************************************************************************)
(* ObjectStore::gc against steps that ingest directories, one action per   *)
(* object either side handles.  Inserts and reads are atomic here: Cas     *)
(* shows that the store implements AtomicStore.                            *)
(*                                                                         *)
(* An object's age is the time since its mtime, saturated at MinAge; the   *)
(* durations of steps and marks are measured on the same clock.            *)
(***************************************************************************)
EXTENDS Naturals, Sequences, Functions

CONSTANTS
  Trees, Blobs,  \* the objects
  Children,      \* Children[t]: the digests tree t names
  Order,         \* Order[t]: the order ingest_dir inserts t's objects in
  Steps,         \* build steps that may run at the same time
  MinAge,        \* gc's min_age
  MaxStep,       \* the longest step runtime
  MaxMark,       \* the longest time from choosing the roots to reading the clock
  Rebuilds,      \* a step may produce objects that are already in the store
  MaxFaults      \* bound: reads, listings and unlinks that fail (EIO, EMFILE)

Objects == Trees \cup Blobs
Absent == MinAge + 1
Closure(t) == Range(Order[t])

\* What an idle step's local holds.
Unused == CHOOSE t \in Trees : TRUE

ASSUME TreeAssumption ==
  /\ Trees # {} /\ Trees \cap Blobs = {}
  /\ Children \in [Trees -> SUBSET Objects]
ASSUME OrderAssumption ==
  \A t \in Trees :
    /\ Order[t] \in Seq(Objects)
    /\ Order[t] # << >>
    /\ Order[t][Len(Order[t])] = t
    /\ \A i \in DOMAIN Order[t] : Order[t][i] \in Trees =>
         Children[Order[t][i]] \subseteq {Order[t][j] : j \in 1 .. i - 1}
    /\ \A i \in 1 .. Len(Order[t]) - 1 :
         \E j \in i + 1 .. Len(Order[t]) :
           Order[t][j] \in Trees /\ Order[t][i] \in Children[Order[t][j]]
ASSUME TimeAssumption ==
  /\ MinAge \in Nat /\ MaxStep \in Nat /\ MaxMark \in Nat
  /\ MaxFaults \in Nat /\ Rebuilds \in BOOLEAN

VARIABLES
  age,           \* age[d] of a stored object, or Absent
  roots,         \* the tree digests the caller keeps
  spc,           \* what each step is doing
  root,          \* the tree it ingests
  done,          \* how many of its objects it has inserted
  elapsed,       \* how long it has been running
  gpc,           \* what gc is doing
  queue, live,   \* gc's mark state
  marking,       \* time since gc's roots were chosen
  aged,          \* objects at least MinAge old when gc read the clock
  unseen,        \* objects the sweep has yet to come to
  faults

stepVars == <<spc, root, done, elapsed>>
gcVars == <<gpc, queue, live, marking, aged, unseen, faults>>
vars == <<age, roots, spc, root, done, elapsed, gpc, queue, live, marking, aged, unseen,
          faults>>

Stored == {d \in Objects : age[d] # Absent}
Inserted(s) == {Order[root[s]][i] : i \in 1 .. done[s]}
Reachable == UNION {Closure(t) : t \in roots}

TypeOK ==
  /\ age \in [Objects -> 0 .. Absent]
  /\ roots \subseteq Trees
  /\ spc \in [Steps -> {"idle", "ingest"}]
  /\ root \in [Steps -> Trees]
  /\ done \in [Steps -> Nat]
  /\ \A s \in Steps : done[s] <= Len(Order[root[s]])
  /\ elapsed \in [Steps -> 0 .. MaxStep]
  /\ gpc \in {"idle", "mark", "sweep"}
  /\ queue \subseteq Objects
  /\ live \subseteq Objects
  /\ marking \in 0 .. MaxMark
  /\ aged \subseteq Objects
  /\ unseen \subseteq Objects
  /\ faults \in 0 .. MaxFaults

Init ==
  /\ age = [d \in Objects |-> Absent]
  /\ roots = {}
  /\ spc = [s \in Steps |-> "idle"]
  /\ root = [s \in Steps |-> Unused]
  /\ done = [s \in Steps |-> 0]
  /\ elapsed = [s \in Steps |-> 0]
  /\ gpc = "idle"
  /\ queue = {} /\ live = {} /\ marking = 0 /\ aged = {} /\ unseen = {}
  /\ faults = 0

-----------------------------------------------------------------------------
(* A step: ingest_dir, then its caller records the tree *)

Begin(s, t) ==
  /\ spc[s] = "idle"
  /\ Rebuilds \/ Closure(t) \cap Stored = {}
  /\ spc' = [spc EXCEPT ![s] = "ingest"]
  /\ root' = [root EXCEPT ![s] = t]
  /\ UNCHANGED <<age, roots, done, elapsed, gcVars>>

\* put_file or put_tree: a new object has age 0, the dedupe leaves the age of
\* an existing one as it is.
Put(s) ==
  /\ spc[s] = "ingest"
  /\ done[s] < Len(Order[root[s]])
  /\ LET d == Order[root[s]][done[s] + 1] IN
       age' = [age EXCEPT ![d] = IF @ = Absent THEN 0 ELSE @]
  /\ done' = [done EXCEPT ![s] = @ + 1]
  /\ UNCHANGED <<roots, spc, root, elapsed, gcVars>>

Leave(s) ==
  /\ spc[s] = "ingest"
  /\ spc' = [spc EXCEPT ![s] = "idle"]
  /\ root' = [root EXCEPT ![s] = Unused]
  /\ done' = [done EXCEPT ![s] = 0]
  /\ elapsed' = [elapsed EXCEPT ![s] = 0]

Commit(s) ==
  /\ done[s] = Len(Order[root[s]])
  /\ Leave(s)
  /\ roots' = roots \cup {root[s]}
  /\ UNCHANGED <<age, gcVars>>

\* ingest_dir fails (an unsupported file, an I/O error) or the step dies.
Abandon(s) ==
  /\ Leave(s)
  /\ UNCHANGED <<age, roots, gcVars>>

\* The caller stops keeping a tree.
Forget(t) ==
  /\ t \in roots
  /\ roots' = roots \ {t}
  /\ UNCHANGED <<age, stepVars, gcVars>>

-----------------------------------------------------------------------------
(* gc(roots, min_age) *)

\* Mutant of GcStart: what earlier runs marked stays marked.
GcStartUnreset ==
  /\ gpc = "idle"
  /\ gpc' = "mark"
  /\ queue' = roots
  /\ UNCHANGED <<age, roots, stepVars, live, marking, aged, unseen, faults>>

GcStart ==
  /\ gpc = "idle"
  /\ gpc' = "mark"
  /\ queue' = roots
  /\ live' = {}
  /\ UNCHANGED <<age, roots, stepVars, marking, aged, unseen, faults>>

\* Mutant of Visit: only blobs are followed.
VisitFlat(d) ==
  /\ gpc = "mark"
  /\ d \in queue
  /\ queue' = queue \ {d}
  /\ live' = live \cup {d} \cup
       (IF d \in Stored \cap Trees THEN Children[d] \cap Blobs ELSE {})
  /\ UNCHANGED <<age, roots, stepVars, gpc, marking, aged, unseen, faults>>

\* Pop one digest; a tree that can be read has its blobs marked and its
\* subtrees queued, anything else is a leaf.
Visit(d) ==
  /\ gpc = "mark"
  /\ d \in queue
  /\ LET kids == IF d \in live \/ d \notin Stored \cap Trees THEN {} ELSE Children[d] IN
       \/ /\ live' = live \cup {d} \cup (kids \cap Blobs)
          /\ queue' = (queue \ {d}) \cup ((kids \cap Trees) \ live')
          /\ UNCHANGED faults
       \/ /\ kids # {} /\ faults < MaxFaults
          /\ faults' = faults + 1
          /\ live' = live \cup {d}
          /\ queue' = queue \ {d}
  /\ UNCHANGED <<age, roots, stepVars, gpc, marking, aged, unseen>>

\* Mutant of ReadClock: min_age is not looked at.
ReadClockAgeless ==
  /\ gpc = "mark"
  /\ queue = {}
  /\ gpc' = "sweep"
  /\ aged' = Stored
  /\ unseen' = Objects
  /\ marking' = 0
  /\ UNCHANGED <<age, roots, stepVars, queue, live, faults>>

\* let now = SystemTime::now(), then list the objects.
ReadClock ==
  /\ gpc = "mark"
  /\ queue = {}
  /\ gpc' = "sweep"
  /\ aged' = {d \in Stored : age[d] = MinAge}
  /\ unseen' = Objects
  /\ marking' = 0
  /\ UNCHANGED <<age, roots, stepVars, queue, live, faults>>

\* Come to one object: keep it if marked or young, else unlink it.  A directory
\* that cannot be listed or an unlink that fails ends the sweep; what cannot be
\* looked at (an object, or a directory of them) is passed over.
Sweep(d) ==
  /\ gpc = "sweep"
  /\ d \in unseen
  /\ \/ /\ unseen' = unseen \ {d}
        /\ age' = [age EXCEPT ![d] = IF d \in aged \ live THEN Absent ELSE @]
        /\ UNCHANGED faults
     \/ /\ faults < MaxFaults
        /\ faults' = faults + 1
        /\ unseen' \in SUBSET (unseen \ {d})
        /\ UNCHANGED age
  /\ gpc' = IF unseen' = {} THEN "idle" ELSE "sweep"
  /\ aged' = IF unseen' = {} THEN {} ELSE aged
  /\ UNCHANGED <<roots, stepVars, queue, live, marking>>

-----------------------------------------------------------------------------

\* Time passes; no step and no mark outlasts its bound.
Tick ==
  /\ \A s \in Steps : spc[s] = "ingest" => elapsed[s] < MaxStep
  /\ gpc = "mark" => marking < MaxMark
  /\ age' = [d \in Objects |-> IF age[d] < MinAge THEN age[d] + 1 ELSE age[d]]
  /\ elapsed' = [s \in Steps |-> IF spc[s] = "ingest" THEN elapsed[s] + 1 ELSE elapsed[s]]
  /\ marking' = IF gpc = "mark" THEN marking + 1 ELSE marking
  /\ UNCHANGED <<roots, spc, root, done, gpc, queue, live, aged, unseen, faults>>

Gc ==
  \/ GcStart
  \/ ReadClock
  \/ \E d \in Objects : Visit(d) \/ Sweep(d)

Ingest(s) == Put(s) \/ Commit(s) \/ Abandon(s)

Next ==
  \/ \E s \in Steps : Ingest(s) \/ \E t \in Trees : Begin(s, t)
  \/ \E t \in Trees : Forget(t)
  \/ Gc
  \/ Tick

Spec == Init /\ [][Next]_vars

\* Time passes, gc is run again and again to its end, and steps end.
FairSpec ==
  /\ Spec
  /\ SF_vars(Tick)
  /\ WF_vars(Gc)
  /\ \A s \in Steps : WF_vars(Ingest(s))

-----------------------------------------------------------------------------
(* Properties *)

\* Every object of every tree the caller keeps is in the store, whatever gc
\* swept while the tree was being ingested and recorded (store.rs:485-490), as
\* long as no read failed during a mark.
RootsComplete ==
  faults = 0 => \A t \in roots : Closure(t) \subseteq Stored

\* gc never deletes an object out from under a step that has inserted it and
\* is still running (store.rs:485-489).
RunningStepsKeepObjects ==
  \A s \in Steps : spc[s] = "ingest" => Inserted(s) \subseteq Stored

\* Nothing unreachable stays in the store forever.
GarbageReclaimed ==
  \A d \in Objects : ~<>[](d \in Stored \ Reachable)
=============================================================================
