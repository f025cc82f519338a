---------------------------- MODULE CasGcProofs -----------------------------
(***************************************************************************)
(* Proofs about what is kept in the store: CasGc, for any store, any number*)
(* of steps and any runs of gc, under the condition the comment on gc puts *)
(* on its caller; and the formats the store rests on, the tree manifests   *)
(* that ingest_dir puts and get_tree reads and the digests objects are     *)
(* named by, for inputs of any size.                                       *)
(***************************************************************************)
EXTENDS CasGc, Manifests, Digests, FiniteSetTheorems, WellFoundedInduction, TLAPS

\* min_age is above the runtime of every step and the duration of every mark,
\* and no step produces an object that is in the store already.
Grace == ~Rebuilds /\ MaxStep + MaxMark < MinAge

(***************************************************************************)
(* The inductive invariant                                                 *)
(***************************************************************************)

\* A step that does not run has nothing.
Idle == \A s \in Steps : spc[s] = "idle" => done[s] = 0 /\ elapsed[s] = 0

\* What a running step is to ingest was not there when it began, so whatever of
\* it is there, whoever inserted it, is no older than the step.
StepObjectsYoung ==
  \A s \in Steps : spc[s] = "ingest" =>
    \A d \in Closure(root[s]) \cap Stored : age[d] <= elapsed[s]

\* What the sweep can still delete has been in the store since the clock was
\* read, and was old then.
SweptAreOld == gpc = "sweep" => \A d \in aged \cap unseen : age[d] = MinAge

NoMark == gpc # "mark" => marking = 0

\* Objects of trees that are complete in the store.
Whole == {d \in Objects : \E t \in Trees : d \in Closure(t) /\ Closure(t) \subseteq Stored}

\* While no read has failed, the mark goes through complete trees only, has
\* handled the children of what it has marked, and misses a tree only if it was
\* recorded since the roots were chosen, which is not long ago.
MarkInv ==
  gpc = "mark" /\ faults = 0 =>
    /\ queue \cup live \subseteq Whole
    /\ \A d \in live \cap Trees : Children[d] \subseteq live \cup (queue \cap Trees)
    /\ \A t \in roots : \/ t \in queue \cup live
                        \/ \A d \in Closure(t) : age[d] <= MaxStep + marking

\* The sweep deletes nothing of a tree that is kept.
SweepInv ==
  gpc = "sweep" /\ faults = 0 =>
    \A t \in roots : Closure(t) \cap aged \cap unseen \subseteq live

StepInv == TypeOK /\ Idle /\ StepObjectsYoung /\ SweptAreOld /\ RunningStepsKeepObjects

RootInv == NoMark /\ MarkInv /\ SweepInv /\ RootsComplete

IInv == StepInv /\ RootInv

(***************************************************************************)
(* Lemmas on trees                                                         *)
(***************************************************************************)

\* A tree's objects are objects, it is one of them, and with a subtree come the
\* subtree's children.
LEMMA ClosureFacts ==
  ASSUME NEW t \in Trees
  PROVE  /\ Len(Order[t]) \in Nat \ {0}
         /\ DOMAIN Order[t] = 1 .. Len(Order[t])
         /\ Closure(t) = {Order[t][i] : i \in 1 .. Len(Order[t])}
         /\ Closure(t) \subseteq Objects
         /\ t \in Closure(t)
         /\ \A d \in Closure(t) \cap Trees : Children[d] \subseteq Closure(t)
<1>1. Order[t] \in Seq(Objects) /\ Order[t] # << >> /\ Order[t][Len(Order[t])] = t
  BY OrderAssumption
<1>2. Len(Order[t]) \in Nat \ {0} /\ DOMAIN Order[t] = 1 .. Len(Order[t])
  BY <1>1
<1>3. Closure(t) = {Order[t][i] : i \in 1 .. Len(Order[t])}
  BY <1>2 DEF Closure, Range
<1>4. Closure(t) \subseteq Objects /\ t \in Closure(t)
  BY <1>1, <1>2, <1>3
<1>5. ASSUME NEW d \in Closure(t) \cap Trees PROVE Children[d] \subseteq Closure(t)
  <2>1. PICK i \in DOMAIN Order[t] : Order[t][i] = d
    BY <1>2, <1>3
  <2>2. Children[d] \subseteq {Order[t][j] : j \in 1 .. i - 1}
    BY <2>1, OrderAssumption
  <2>3. \A j \in 1 .. i - 1 : j \in 1 .. Len(Order[t])
    BY <1>2, <2>1
  <2>. QED
    BY <1>3, <2>2, <2>3
<1>. QED
  BY <1>2, <1>3, <1>4, <1>5

\* A set of positions that is not empty has a last one.
LEMMA LastPosition ==
  ASSUME NEW n \in Nat, NEW P \in SUBSET (1 .. n), P # {}
  PROVE  \E i \in P : \A j \in P : j <= i
<1> DEFINE D == {n - i : i \in P}
<1>0. \A i \in P : i \in Nat /\ i <= n /\ n - i \in Nat /\ n - i \in D
  OBVIOUS
<1>1. D \in SUBSET Nat /\ D # {}
  BY <1>0
<1>2. PICK m \in D : \A k \in D : m <= k
  <2> DEFINE Less == {p \in Nat \X Nat : p[1] < p[2]}
  <2>1. IsWellFoundedOn(Less, Nat)
    BY NatLessThanWellFounded, Zenon DEF OpToRel
  <2> HIDE DEF D
  <2>2. PICK m \in D : \A k \in D : ~(<<k, m>> \in Less)
    BY <1>1, <2>1, WFMin, Zenon
  <2>3. ASSUME NEW k \in D PROVE m <= k
    <3>1. m \in Nat /\ k \in Nat
      BY <1>1
    <3>2. k < m => <<k, m>> \in Less
      BY <3>1
    <3> HIDE DEF Less
    <3>. QED
      BY <2>2, <3>1, <3>2
  <2>. QED
    BY <2>3
<1>3. PICK i \in P : m = n - i
  OBVIOUS
<1>4. ASSUME NEW j \in P PROVE j <= i
  <2>1. n - i <= n - j
    BY <1>0, <1>2, <1>3
  <2>. QED
    BY <1>0, <2>1
<1>. QED
  BY <1>4

\* A set with a tree and with all the children of its trees has the whole of the
\* tree: the last object that were missing is named by one after it.
LEMMA MarkedWhole ==
  ASSUME NEW t \in Trees, NEW M, t \in M, \A d \in M \cap Trees : Children[d] \subseteq M
  PROVE  Closure(t) \subseteq M
<1> DEFINE n == Len(Order[t])
           P == {i \in 1 .. n : Order[t][i] \notin M}
<1>1. n \in Nat \ {0} /\ Closure(t) = {Order[t][i] : i \in 1 .. n} /\ Order[t][n] = t
  BY ClosureFacts, OrderAssumption
<1>2. ASSUME P # {} PROVE FALSE
  <2>1. PICK i \in P : \A j \in P : j <= i
    <3>1. P \in SUBSET (1 .. n) /\ n \in Nat
      BY <1>1
    <3> HIDE DEF P, n
    <3>. QED
      BY <1>2, <3>1, LastPosition
  <2>2. i \in 1 .. n - 1
    BY <1>1
  <2>3. PICK j \in i + 1 .. n : Order[t][j] \in Trees /\ Order[t][i] \in Children[Order[t][j]]
    BY <2>2, OrderAssumption
  <2>4. j \in 1 .. n /\ ~(j <= i)
    BY <1>1, <2>2, <2>3
  <2>5. Order[t][j] \in M
    BY <2>1, <2>4
  <2>. QED
    BY <2>3, <2>5
<1>. QED
  BY <1>1, <1>2

(***************************************************************************)
(* Type correctness                                                        *)
(***************************************************************************)

\* What Put and Sweep do to the ages.
LEMMA PutAge ==
  ASSUME TypeOK, NEW s \in Steps, Put(s)
  PROVE  LET d == Order[root[s]][done[s] + 1] IN
           /\ d \in Closure(root[s]) /\ d \in Objects
           /\ age' = [x \in Objects |-> IF x = d /\ age[x] = Absent THEN 0 ELSE age[x]]
<1> DEFINE d == Order[root[s]][done[s] + 1]
<1>1. root[s] \in Trees /\ done[s] \in Nat /\ DOMAIN age = Objects
  BY DEF TypeOK
<1>2. done[s] + 1 \in 1 .. Len(Order[root[s]])
  BY <1>1, ClosureFacts DEF Put
<1>3. d \in Closure(root[s]) /\ d \in Objects
  BY <1>1, <1>2, ClosureFacts
<1>4. age' = [age EXCEPT ![d] = IF @ = Absent THEN 0 ELSE @]
  BY DEF Put
<1> HIDE DEF d
<1>5. age = [x \in Objects |-> age[x]]
  BY DEF TypeOK
<1>6. age' = [x \in Objects |-> IF x = d /\ age[x] = Absent THEN 0 ELSE age[x]]
  BY <1>3, <1>4, <1>5
<1>. QED
  BY <1>3, <1>6 DEF d

\* Put stores its object and deletes none.
LEMMA PutStores ==
  ASSUME TypeOK, NEW s \in Steps, Put(s)
  PROVE  Stored \subseteq Stored' /\ Order[root[s]][done[s] + 1] \in Stored'
<1> DEFINE d == Order[root[s]][done[s] + 1]
<1>1. /\ d \in Objects
      /\ age' = [x \in Objects |-> IF x = d /\ age[x] = Absent THEN 0 ELSE age[x]]
  BY PutAge
<1>2. 0 # Absent
  BY TimeAssumption DEF Absent
<1> HIDE DEF d
<1>3. d \in Stored' /\ Stored \subseteq Stored'
  BY <1>1, <1>2 DEF Stored
<1>. QED
  BY <1>3 DEF d

\* A sweep deletes at most one object: one it had not visited, old and not live.
LEMMA SweepAge ==
  ASSUME TypeOK, NEW d \in Objects, Sweep(d)
  PROVE  \/ UNCHANGED age
         \/ /\ d \in (aged \cap unseen) \ live
            /\ age' = [x \in Objects |-> IF x = d THEN Absent ELSE age[x]]
<1>1. age = [x \in Objects |-> age[x]]
  BY DEF TypeOK
<1>2. UNCHANGED age \/ age' = [age EXCEPT ![d] = IF d \in aged \ live THEN Absent ELSE @]
  BY DEF Sweep
<1>3. d \in unseen
  BY DEF Sweep
<1>4. CASE d \in aged \ live
  BY <1>1, <1>2, <1>3, <1>4
<1>5. CASE d \notin aged \ live
  BY <1>1, <1>2, <1>5
<1>. QED
  BY <1>4, <1>5

\* Every step keeps the types.
LEMMA TypeStep == TypeOK /\ Idle /\ [Next]_vars => TypeOK' /\ Idle'
<1> SUFFICES ASSUME TypeOK, Idle, [Next]_vars PROVE TypeOK' /\ Idle'
  OBVIOUS
<1> USE TimeAssumption DEF TypeOK, Idle, gcVars, stepVars, Absent
<1>0. Unused \in Trees /\ \A t \in Trees : Len(Order[t]) \in Nat
  BY TreeAssumption, ClosureFacts DEF Unused
<1>1. ASSUME NEW s \in Steps, NEW t \in Trees, Begin(s, t) PROVE TypeOK' /\ Idle'
  BY <1>0, <1>1 DEF Begin
<1>2. ASSUME NEW s \in Steps, Put(s) PROVE TypeOK' /\ Idle'
  <2>1. root[s] \in Trees /\ done[s] \in Nat /\ Len(Order[root[s]]) \in Nat
    BY <1>0
  <2>2. done[s] + 1 <= Len(Order[root[s]])
    BY <1>2, <2>1 DEF Put
  <2>3. /\ done' \in [Steps -> Nat]
        /\ \A q \in Steps : done'[q] <= Len(Order[root[q]])
    BY <1>2, <2>1, <2>2 DEF Put
  <2>4. age' \in [Objects -> 0 .. Absent]
    BY <1>2, PutAge
  <2>. QED
    BY <1>2, <2>3, <2>4 DEF Put
<1>3. ASSUME NEW s \in Steps, Commit(s) PROVE TypeOK' /\ Idle'
  BY <1>0, <1>3 DEF Commit, Leave
<1>4. ASSUME NEW s \in Steps, Abandon(s) PROVE TypeOK' /\ Idle'
  BY <1>0, <1>4 DEF Abandon, Leave
<1>5. ASSUME NEW t \in Trees, Forget(t) PROVE TypeOK' /\ Idle'
  BY <1>5 DEF Forget
<1>6. ASSUME GcStart PROVE TypeOK' /\ Idle'
  BY <1>6 DEF GcStart, Objects
<1>7. ASSUME NEW d \in Objects, Visit(d) PROVE TypeOK' /\ Idle'
  BY <1>7, TreeAssumption DEF Visit, Objects, Stored
<1>8. ASSUME ReadClock PROVE TypeOK' /\ Idle'
  BY <1>8 DEF ReadClock, Stored
<1>9. ASSUME NEW d \in Objects, Sweep(d) PROVE TypeOK' /\ Idle'
  <2>1. age' \in [Objects -> 0 .. Absent]
    BY <1>9, SweepAge
  <2>. QED
    BY <1>9, <2>1 DEF Sweep
<1>10. ASSUME Tick PROVE TypeOK' /\ Idle'
  BY <1>10 DEF Tick
<1>11. ASSUME UNCHANGED vars PROVE TypeOK' /\ Idle'
  BY <1>11 DEF vars
<1>. QED
  BY <1>1, <1>2, <1>3, <1>4, <1>5, <1>6, <1>7, <1>8, <1>9, <1>10, <1>11 DEF Next, Ingest, Gc

\* The types hold at the start.
LEMMA TypeInit == Init => TypeOK /\ Idle
<1>1. Unused \in Trees /\ \A t \in Trees : Len(Order[t]) \in Nat
  BY TreeAssumption, ClosureFacts DEF Unused
<1>. QED
  BY <1>1, TimeAssumption DEF Init, TypeOK, Idle, Absent

(***************************************************************************)
(* Running steps                                                           *)
(***************************************************************************)

\* What a running step has inserted belongs to its tree.
LEMMA InsertedFacts ==
  ASSUME TypeOK, NEW s \in Steps
  PROVE  /\ Inserted(s) \subseteq Closure(root[s])
         /\ Closure(root[s]) \subseteq Objects
<1>1. root[s] \in Trees /\ done[s] \in Nat /\ done[s] <= Len(Order[root[s]])
  BY DEF TypeOK
<1>. QED
  BY <1>1, ClosureFacts DEF Inserted

\* Every step keeps what is known of the running steps and the sweep.
LEMMA StepInvStep ==
  ASSUME Grace, StepInv, [Next]_vars
  PROVE  StepInv'
<1> USE TimeAssumption
<1>0. TypeOK /\ TypeOK' /\ Idle /\ Idle' /\ MaxStep < MinAge
  BY TypeStep DEF StepInv, Grace
<1>1. StepObjectsYoung'
  <2> SUFFICES ASSUME NEW s \in Steps, spc'[s] = "ingest",
                      NEW d \in Closure(root'[s]), d \in Stored'
               PROVE  age'[d] <= elapsed'[s]
    BY DEF StepObjectsYoung
  <2>0. /\ root'[s] \in Trees /\ d \in Objects /\ age[d] \in 0 .. MinAge + 1
        /\ age'[d] \in 0 .. MinAge + 1 /\ age'[d] # MinAge + 1
        /\ elapsed[s] \in Nat /\ elapsed'[s] \in Nat
    BY <1>0, ClosureFacts DEF TypeOK, Stored, Absent
  <2>1. spc[s] = "ingest" /\ root'[s] = root[s] /\ d \in Stored => age[d] <= elapsed[s]
    BY DEF StepInv, StepObjectsYoung
  <2>2. ASSUME NEW q \in Steps, NEW t \in Trees, Begin(q, t) PROVE age'[d] <= elapsed'[s]
    <3>1. age' = age /\ elapsed' = elapsed /\ Stored' = Stored
      BY <2>2 DEF Begin, Stored
    <3>2. CASE q = s
      <4>1. root'[s] = t /\ Closure(t) \cap Stored = {}
        BY <1>0, <2>2, <3>2 DEF Begin, TypeOK, Grace
      <4>. QED
        BY <3>1, <4>1
    <3>3. CASE q # s
      BY <1>0, <2>1, <2>2, <3>1, <3>3 DEF Begin, TypeOK
    <3>. QED
      BY <3>2, <3>3
  <2>3. ASSUME NEW q \in Steps, Put(q) PROVE age'[d] <= elapsed'[s]
    <3>1. UNCHANGED <<spc, root, elapsed>>
      BY <2>3 DEF Put
    <3>2. age'[d] = 0 \/ age'[d] = age[d]
      BY <1>0, <2>0, <2>3, PutAge
    <3>3. CASE age'[d] = age[d]
      BY <2>0, <2>1, <3>1, <3>3 DEF Stored, Absent
    <3>. QED
      BY <2>0, <3>2, <3>3
  <2>4. ASSUME NEW q \in Steps, Commit(q) \/ Abandon(q) PROVE age'[d] <= elapsed'[s]
    <3>1. q # s
      BY <1>0, <2>4 DEF Commit, Abandon, Leave, TypeOK
    <3>. QED
      BY <1>0, <2>1, <2>4, <3>1 DEF Commit, Abandon, Leave, TypeOK, Stored
  <2>5. ASSUME NEW t \in Trees, Forget(t) PROVE age'[d] <= elapsed'[s]
    BY <2>1, <2>5 DEF Forget, stepVars, Stored
  <2>6. ASSUME GcStart \/ ReadClock \/ \E x \in Objects : Visit(x) PROVE age'[d] <= elapsed'[s]
    BY <2>1, <2>6 DEF GcStart, ReadClock, Visit, stepVars, Stored
  <2>7. ASSUME NEW x \in Objects, Sweep(x) PROVE age'[d] <= elapsed'[s]
    <3>1. age'[d] = age[d]
      BY <1>0, <2>0, <2>7, SweepAge DEF Absent
    <3>. QED
      BY <2>0, <2>1, <2>7, <3>1 DEF Sweep, stepVars, Stored, Absent
  <2>8. ASSUME Tick PROVE age'[d] <= elapsed'[s]
    <3>1. /\ age'[d] = IF age[d] < MinAge THEN age[d] + 1 ELSE age[d]
          /\ elapsed'[s] = elapsed[s] + 1 /\ UNCHANGED <<spc, root>>
      BY <1>0, <2>0, <2>8 DEF Tick
    <3>2. age[d] <= elapsed[s]
      BY <2>0, <2>1, <3>1 DEF Stored, Absent
    <3>. QED
      BY <2>0, <3>1, <3>2
  <2>9. ASSUME UNCHANGED vars PROVE age'[d] <= elapsed'[s]
    BY <2>1, <2>9 DEF vars, Stored
  <2>. QED
    BY <2>2, <2>3, <2>4, <2>5, <2>6, <2>7, <2>8, <2>9 DEF Next, Ingest, Gc
<1>2. SweptAreOld'
  <2> SUFFICES ASSUME gpc' = "sweep", NEW d \in aged' \cap unseen' PROVE age'[d] = MinAge
    BY DEF SweptAreOld
  <2>0. d \in Objects /\ age[d] \in 0 .. MinAge + 1
    BY <1>0 DEF TypeOK, Absent
  <2>1. gpc = "sweep" /\ d \in aged \cap unseen => age[d] = MinAge
    BY DEF StepInv, SweptAreOld
  <2>2. ASSUME NEW q \in Steps, Put(q) PROVE age'[d] = MinAge
    <3>1. age[d] = MinAge
      BY <2>1, <2>2 DEF Put, gcVars
    <3>. QED
      BY <1>0, <2>0, <2>2, <3>1, PutAge DEF Absent
  <2>3. ASSUME ReadClock PROVE age'[d] = MinAge
    BY <2>3 DEF ReadClock
  <2>4. ASSUME NEW x \in Objects, Sweep(x) PROVE age'[d] = MinAge
    <3>1. d \in aged \cap unseen /\ gpc = "sweep" /\ d # x
      BY <2>4 DEF Sweep
    <3>. QED
      BY <1>0, <2>0, <2>1, <2>4, <3>1, SweepAge
  <2>5. ASSUME Tick PROVE age'[d] = MinAge
    BY <2>0, <2>1, <2>5 DEF Tick
  <2>6. ASSUME NEW x \in Objects, Visit(x) PROVE FALSE
    BY <2>6 DEF Visit
  <2>7. ASSUME GcStart PROVE FALSE
    BY <2>7 DEF GcStart
  <2>8. ASSUME \/ UNCHANGED vars
               \/ \E t \in Trees : Forget(t)
               \/ \E s \in Steps : Commit(s) \/ Abandon(s) \/ \E t \in Trees : Begin(s, t)
        PROVE  age'[d] = MinAge
    BY <2>1, <2>8 DEF vars, Forget, Commit, Abandon, Begin, gcVars
  <2>. QED
    BY <2>2, <2>3, <2>4, <2>5, <2>6, <2>7, <2>8 DEF Next, Ingest, Gc
<1>3. RunningStepsKeepObjects'
  <2> SUFFICES ASSUME NEW s \in Steps, spc'[s] = "ingest", NEW d \in Inserted(s)'
               PROVE  d \in Stored'
    BY DEF RunningStepsKeepObjects
  <2>0. d \in Objects
    <3>1. Inserted(s)' \subseteq Objects
      <4>1. root'[s] \in Trees /\ done'[s] \in Nat /\ done'[s] <= Len(Order[root'[s]])
        BY <1>0 DEF TypeOK
      <4>. QED
        BY <4>1, ClosureFacts DEF Inserted
    <3>. QED
      BY <3>1
  <2>1. spc[s] = "ingest" /\ d \in Inserted(s) =>
          d \in Stored /\ age[d] <= elapsed[s] /\ age[d] < MinAge
    <3> SUFFICES ASSUME spc[s] = "ingest", d \in Inserted(s)
                 PROVE  d \in Stored /\ age[d] <= elapsed[s] /\ age[d] < MinAge
      OBVIOUS
    <3>1. d \in Stored /\ d \in Closure(root[s])
      BY <1>0, InsertedFacts DEF StepInv, RunningStepsKeepObjects
    <3>2. age[d] <= elapsed[s]
      BY <3>1 DEF StepInv, StepObjectsYoung
    <3>3. age[d] \in Nat /\ elapsed[s] \in Nat /\ elapsed[s] <= MaxStep
      BY <1>0, <2>0 DEF TypeOK, Absent
    <3>. QED
      BY <1>0, <3>1, <3>2, <3>3
  <2>2. ASSUME NEW q \in Steps, NEW t \in Trees, Begin(q, t) PROVE d \in Stored'
    <3>1. CASE q = s
      <4>1. done'[s] = 0
        BY <1>0, <2>2, <3>1 DEF Begin, Idle
      <4>. QED
        BY <4>1 DEF Inserted
    <3>2. CASE q # s
      BY <1>0, <2>1, <2>2, <3>2 DEF Begin, TypeOK, Inserted, Stored
    <3>. QED
      BY <3>1, <3>2
  <2>3. ASSUME NEW q \in Steps, Put(q) PROVE d \in Stored'
    <3>1. Stored \subseteq Stored' /\ Order[root[q]][done[q] + 1] \in Stored'
      BY <1>0, <2>3, PutStores
    <3>2. UNCHANGED <<spc, root>> /\ done' = [done EXCEPT ![q] = @ + 1]
      BY <2>3 DEF Put
    <3>3. d \in Inserted(s) \/ (q = s /\ d = Order[root[q]][done[q] + 1])
      <4>1. done \in [Steps -> Nat]
        BY <1>0 DEF TypeOK
      <4>2. PICK i \in 1 .. done'[s] : d = Order[root[s]][i]
        BY <3>2 DEF Inserted
      <4>3. CASE q # s
        BY <3>2, <4>1, <4>2, <4>3 DEF Inserted
      <4>4. CASE q = s
        <5>1. i \in 1 .. done[s] \/ i = done[s] + 1
          BY <3>2, <4>1, <4>2, <4>4
        <5>. QED
          BY <4>2, <4>4, <5>1 DEF Inserted
      <4>. QED
        BY <4>3, <4>4
    <3>. QED
      BY <2>1, <3>1, <3>2, <3>3
  <2>4. ASSUME NEW q \in Steps, Commit(q) \/ Abandon(q) PROVE d \in Stored'
    <3>1. q # s
      BY <1>0, <2>4 DEF Commit, Abandon, Leave, TypeOK
    <3>. QED
      BY <1>0, <2>1, <2>4, <3>1 DEF Commit, Abandon, Leave, TypeOK, Inserted, Stored
  <2>5. ASSUME NEW x \in Objects, Sweep(x) PROVE d \in Stored'
    <3>1. d \in Inserted(s) /\ spc[s] = "ingest" /\ gpc = "sweep"
      BY <2>5 DEF Sweep, stepVars, Inserted
    <3>2. age[d] # MinAge /\ d \in Stored
      BY <1>0, <2>0, <2>1, <3>1 DEF TypeOK
    <3>3. d \notin aged \cap unseen
      BY <3>1, <3>2 DEF StepInv, SweptAreOld
    <3>4. age'[d] = age[d]
      BY <1>0, <2>0, <2>5, <3>3, SweepAge
    <3>. QED
      BY <2>0, <3>2, <3>4 DEF Stored
  <2>6. ASSUME Tick PROVE d \in Stored'
    <3>1. d \in Stored /\ age[d] \in 0 .. MinAge + 1
      BY <1>0, <2>0, <2>1, <2>6 DEF Tick, Inserted, TypeOK, Absent
    <3>. QED
      BY <2>0, <2>6, <3>1 DEF Tick, Stored, Absent
  <2>7. ASSUME \/ UNCHANGED vars \/ GcStart \/ ReadClock
               \/ \E t \in Trees : Forget(t)
               \/ \E x \in Objects : Visit(x)
        PROVE  d \in Stored'
    BY <2>1, <2>7 DEF vars, Forget, GcStart, ReadClock, Visit, stepVars, Inserted, Stored
  <2>. QED
    BY <2>2, <2>3, <2>4, <2>5, <2>6, <2>7 DEF Next, Ingest, Gc
<1>. QED
  BY <1>0, <1>1, <1>2, <1>3 DEF StepInv

(***************************************************************************)
(* Trees that are kept                                                     *)
(***************************************************************************)

\* Only the sweep takes an object out of the store, one that it may delete.
LEMMA StoredKept ==
  ASSUME StepInv, [Next]_vars
  PROVE  \/ Stored \subseteq Stored'
         \/ \E d \in Objects : /\ Sweep(d) /\ d \in (aged \cap unseen) \ live
                              /\ Stored' = Stored \ {d}
<1>0. TypeOK
  BY DEF StepInv
<1>1. ASSUME NEW s \in Steps, Put(s) PROVE Stored \subseteq Stored'
  BY <1>0, <1>1, PutStores
<1>2. ASSUME NEW d \in Objects, Sweep(d)
      PROVE  \/ Stored \subseteq Stored'
             \/ d \in (aged \cap unseen) \ live /\ Stored' = Stored \ {d}
  BY <1>0, <1>2, SweepAge DEF Stored
<1>3. ASSUME Tick PROVE Stored \subseteq Stored'
  BY <1>0, <1>3, TimeAssumption DEF Tick, Stored, TypeOK, Absent
<1>4. ASSUME UNCHANGED age PROVE Stored \subseteq Stored'
  BY <1>4 DEF Stored
<1>5. \/ \E s \in Steps : Put(s)
      \/ \E d \in Objects : Sweep(d)
      \/ Tick \/ UNCHANGED age
  BY DEF Next, Ingest, Gc, Begin, Commit, Abandon, Forget, GcStart, ReadClock, Visit, vars
<1>. QED
  BY <1>1, <1>2, <1>3, <1>4, <1>5

\* A step that commits has its whole tree in the store, and all of it is young.
LEMMA CommittedYoung ==
  ASSUME StepInv, NEW s \in Steps, Commit(s)
  PROVE  \A d \in Closure(root[s]) : d \in Stored /\ age[d] \in Nat /\ age[d] <= MaxStep
<1>1. /\ root[s] \in Trees /\ spc[s] = "ingest" /\ done[s] = Len(Order[root[s]])
      /\ elapsed[s] \in 0 .. MaxStep /\ age \in [Objects -> 0 .. Absent]
  BY DEF StepInv, TypeOK, Commit, Leave
<1>2. Closure(root[s]) = Inserted(s) /\ Closure(root[s]) \subseteq Objects
  BY <1>1, ClosureFacts DEF Inserted
<1>3. \A d \in Closure(root[s]) : d \in Stored /\ age[d] <= elapsed[s]
  BY <1>1, <1>2 DEF StepInv, RunningStepsKeepObjects, StepObjectsYoung
<1>4. \A d \in Objects : age[d] \in Nat
  BY <1>1, TimeAssumption DEF Absent
<1>. QED
  BY <1>1, <1>2, <1>3, <1>4, TimeAssumption

\* How roots change.
LEMMA RootsChange ==
  ASSUME [Next]_vars
  PROVE  \/ roots' \subseteq roots
         \/ \E s \in Steps : Commit(s) /\ roots' = roots \cup {root[s]}
BY DEF Next, Ingest, Gc, Begin, Put, Commit, Abandon, Forget, GcStart, ReadClock, Visit, Sweep,
       Tick, vars

\* Faults are never taken back.
LEMMA FaultsGrow ==
  ASSUME TypeOK, [Next]_vars, faults' = 0
  PROVE  faults = 0 /\ UNCHANGED faults
<1>1. faults \in Nat /\ (faults' = faults \/ faults' = faults + 1)
  BY TimeAssumption DEF TypeOK, Next, Ingest, Gc, Begin, Put, Commit, Abandon, Forget, GcStart,
       ReadClock, Visit, Sweep, Tick, vars, gcVars
<1>. QED
  BY <1>1

\* Kept trees stay complete: the sweep's exemptions cover them.
LEMMA RootsCompleteStep ==
  ASSUME IInv, [Next]_vars
  PROVE  RootsComplete'
<1> SUFFICES ASSUME faults' = 0, NEW t \in roots', NEW d \in Closure(t)
             PROVE  d \in Stored'
  BY DEF RootsComplete
<1>0. /\ StepInv /\ TypeOK /\ faults = 0
      /\ \A r \in roots : Closure(r) \subseteq Stored
  BY FaultsGrow DEF IInv, StepInv, RootInv, RootsComplete
<1>1. d \in Stored
  BY <1>0, RootsChange, CommittedYoung
<1>2. ASSUME NEW x \in Objects, Sweep(x), x \in (aged \cap unseen) \ live PROVE d # x
  <2>1. t \in roots /\ gpc = "sweep"
    BY <1>2 DEF Sweep
  <2>. QED
    BY <1>0, <1>2, <2>1 DEF IInv, RootInv, SweepInv
<1>. QED
  BY <1>0, <1>1, <1>2, StoredKept

\* The mark.
LEMMA MarkStep ==
  ASSUME Grace, IInv, [Next]_vars
  PROVE  NoMark' /\ MarkInv'
<1> USE TimeAssumption
<1>0. /\ StepInv /\ TypeOK /\ NoMark /\ MarkInv /\ TypeOK'
  BY TypeStep DEF IInv, StepInv, RootInv
<1>1. NoMark'
  BY <1>0 DEF NoMark, Next, Ingest, Gc, Begin, Put, Commit, Abandon, Forget, GcStart,
       ReadClock, Visit, Sweep, Tick, vars, gcVars
<1>2. ASSUME gpc' = "mark", faults' = 0
      PROVE  /\ queue' \cup live' \subseteq Whole'
             /\ \A d \in live' \cap Trees : Children[d] \subseteq live' \cup (queue' \cap Trees)
             /\ \A t \in roots' : \/ t \in queue' \cup live'
                                  \/ \A d \in Closure(t) : age'[d] <= MaxStep + marking'
  <2>0. faults = 0 /\ RootsComplete
    BY <1>0, <1>2, FaultsGrow DEF IInv, RootInv
  <2>1. CASE GcStart
    <3>1. queue' = roots /\ live' = {} /\ roots' = roots /\ Stored' = Stored
      BY <2>1 DEF GcStart, Stored
    <3>2. roots \subseteq Whole'
      BY <1>0, <2>0, <3>1, ClosureFacts DEF RootsComplete, Whole, TypeOK
    <3>. QED
      BY <3>1, <3>2
  <2>2. CASE gpc = "mark"
    <3>0. /\ queue \cup live \subseteq Whole
          /\ \A d \in live \cap Trees : Children[d] \subseteq live \cup (queue \cap Trees)
          /\ \A t \in roots : \/ t \in queue \cup live
                              \/ \A d \in Closure(t) : age[d] <= MaxStep + marking
      BY <1>0, <2>0, <2>2 DEF MarkInv
    <3>1. Stored \subseteq Stored' /\ Whole \subseteq Whole'
      <4>1. Stored \subseteq Stored'
        BY <1>0, <2>2, StoredKept DEF Sweep
      <4>. QED
        BY <4>1 DEF Whole
    <3>2. ASSUME NEW x \in Objects, Visit(x)
          PROVE  /\ queue' \cup live' \subseteq Whole
                 /\ \A d \in live' \cap Trees :
                      Children[d] \subseteq live' \cup (queue' \cap Trees)
                 /\ queue \cup live \subseteq queue' \cup live'
      <4> DEFINE kids == IF x \in live \/ x \notin Stored \cap Trees THEN {} ELSE Children[x]
      <4>1. x \in queue /\ x \in Whole
        BY <3>0, <3>2 DEF Visit
      <4>2. /\ live' = live \cup {x} \cup (kids \cap Blobs)
            /\ queue' = (queue \ {x}) \cup ((kids \cap Trees) \ live')
        BY <1>2, <2>0, <3>2 DEF Visit
      <4>3. x \in Stored /\ (x \in Trees => Children[x] \subseteq Whole /\ Children[x] \subseteq Objects)
        BY <4>1, ClosureFacts, TreeAssumption DEF Whole
      <4>4. kids \subseteq Whole /\ kids \subseteq Objects
        BY <4>3
      <4>5. x \in live \/ x \notin Trees \/ kids = Children[x]
        BY <4>3
      <4>6. Trees \cap Blobs = {} /\ Objects = Trees \cup Blobs
        BY TreeAssumption DEF Objects
      <4> HIDE DEF kids
      <4>7. ASSUME NEW d \in live' \cap Trees, NEW c \in Children[d]
            PROVE  c \in live' \cup (queue' \cap Trees)
        <5>1. CASE d \in live
          BY <3>0, <4>2, <4>7, <5>1
        <5>2. CASE d \notin live
          <6>1. d = x /\ c \in kids
            BY <4>2, <4>5, <4>6, <4>7, <5>2
          <6>. QED
            BY <4>2, <4>4, <4>6, <6>1
        <5>. QED
          BY <5>1, <5>2
      <4>8. queue' \cup live' \subseteq Whole
        BY <3>0, <4>1, <4>2, <4>4
      <4>9. queue \cup live \subseteq queue' \cup live'
        BY <4>2
      <4>. QED
        BY <4>7, <4>8, <4>9
    <3>3. /\ queue' \cup live' \subseteq Whole'
          /\ \A d \in live' \cap Trees : Children[d] \subseteq live' \cup (queue' \cap Trees)
          /\ queue \cup live \subseteq queue' \cup live'
      <4>1. CASE UNCHANGED <<queue, live>>
        BY <3>0, <3>1, <4>1
      <4>2. CASE \E x \in Objects : Visit(x)
        BY <3>1, <3>2, <4>2
      <4>3. UNCHANGED <<queue, live>> \/ \E x \in Objects : Visit(x)
        BY <2>2 DEF Next, Ingest, Gc, Begin, Put, Commit, Abandon, Forget, GcStart,
             ReadClock, Sweep, Tick, vars, gcVars
      <4>. QED
        BY <4>1, <4>2, <4>3
    <3>4. ASSUME NEW t \in roots, NEW d \in Closure(t), age[d] <= MaxStep + marking
          PROVE  age'[d] <= MaxStep + marking'
      <4>0. /\ d \in Objects /\ age[d] \in Nat /\ marking \in Nat /\ DOMAIN age = Objects
            /\ age[d] \in 0 .. MinAge + 1 /\ marking <= MaxMark
        BY <1>0, ClosureFacts DEF TypeOK, Absent
      <4>1. CASE Tick
        BY <2>2, <3>4, <4>0, <4>1 DEF Tick
      <4>2. ASSUME NEW s \in Steps, Put(s) PROVE age'[d] <= MaxStep + marking'
        <5>1. age'[d] = 0 \/ age'[d] = age[d]
          BY <1>0, <4>0, <4>2, PutAge
        <5>2. marking' = marking
          BY <4>2 DEF Put, gcVars
        <5>. QED
          BY <3>4, <4>0, <5>1, <5>2
      <4>3. CASE UNCHANGED <<age, marking>>
        BY <3>4, <4>3
      <4>4. Tick \/ (\E s \in Steps : Put(s)) \/ UNCHANGED <<age, marking>>
        BY <1>2, <2>2 DEF Next, Ingest, Gc, Begin, Commit, Abandon, Forget, GcStart,
             ReadClock, Visit, Sweep, vars, gcVars
      <4>. QED
        BY <4>1, <4>2, <4>3, <4>4
    <3>5. ASSUME NEW s \in Steps, Commit(s)
          PROVE  \A d \in Closure(root[s]) : age'[d] <= MaxStep + marking'
      <4>1. UNCHANGED <<age, marking>> /\ marking \in Nat
        BY <1>0, <3>5 DEF Commit, gcVars, TypeOK
      <4>. QED
        BY <1>0, <3>5, <4>1, CommittedYoung
    <3>6. ASSUME NEW t \in roots'
          PROVE  \/ t \in queue' \cup live'
                 \/ \A d \in Closure(t) : age'[d] <= MaxStep + marking'
      <4>1. CASE t \in roots
        BY <3>0, <3>3, <3>4, <4>1
      <4>2. CASE t \notin roots
        BY <3>5, <4>2, RootsChange
      <4>. QED
        BY <4>1, <4>2
    <3>. QED
      BY <3>3, <3>6
  <2>3. GcStart \/ gpc = "mark"
    BY <1>2 DEF Next, Ingest, Gc, Begin, Put, Commit, Abandon, Forget,
         ReadClock, Visit, Sweep, Tick, vars, gcVars
  <2>. QED
    BY <2>1, <2>2, <2>3
<1>. QED
  BY <1>1, <1>2 DEF MarkInv

\* The sweep: a tree whose digest the mark has reached is marked to its last
\* object, and one it has not reached is too young when the clock is read.
LEMMA SweepStep ==
  ASSUME Grace, IInv, [Next]_vars
  PROVE  SweepInv'
<1> USE TimeAssumption
<1> SUFFICES ASSUME gpc' = "sweep", faults' = 0, NEW t \in roots',
                    NEW d \in Closure(t) \cap aged' \cap unseen'
             PROVE  d \in live'
  BY DEF SweepInv
<1>0. /\ StepInv /\ TypeOK /\ faults = 0 /\ MarkInv /\ SweepInv
      /\ aged' \subseteq Objects /\ d \in Objects
  BY TypeStep, FaultsGrow DEF IInv, StepInv, RootInv, TypeOK
<1>1. CASE ReadClock
  <2>1. /\ gpc = "mark" /\ queue = {} /\ roots' = roots /\ live' = live
        /\ aged' = {x \in Stored : age[x] = MinAge}
    BY <1>1 DEF ReadClock
  <2>2. \A x \in live \cap Trees : Children[x] \subseteq live
    BY <1>0, <2>1 DEF MarkInv
  <2>3. t \in roots /\ t \in Trees /\ age[d] = MinAge
    BY <1>0, <2>1 DEF TypeOK
  <2>4. CASE t \in live
    BY <2>1, <2>2, <2>3, <2>4, MarkedWhole
  <2>5. CASE t \notin live
    <3>1. age[d] <= MaxStep + marking
      BY <1>0, <2>1, <2>3, <2>5 DEF MarkInv
    <3>2. marking \in Nat /\ marking <= MaxMark
      BY <1>0 DEF TypeOK
    <3>. QED
      BY <2>3, <3>1, <3>2 DEF Grace
  <2>. QED
    BY <2>4, <2>5
<1>2. CASE gpc = "sweep"
  <2>1. UNCHANGED live /\ aged' \subseteq aged /\ unseen' \subseteq unseen
    BY <1>2 DEF Next, Ingest, Gc, Begin, Put, Commit, Abandon, Forget, GcStart,
         ReadClock, Visit, Sweep, Tick, vars, gcVars
  <2>2. CASE t \in roots
    BY <1>0, <1>2, <2>1, <2>2 DEF SweepInv
  <2>3. CASE t \notin roots
    <3>1. PICK s \in Steps : Commit(s) /\ t = root[s]
      BY <2>3, RootsChange
    <3>2. age[d] \in Nat /\ age[d] <= MaxStep
      BY <1>0, <3>1, CommittedYoung
    <3>3. age[d] = MinAge
      BY <1>0, <1>2, <2>1 DEF StepInv, SweptAreOld
    <3>. QED
      BY <3>2, <3>3 DEF Grace
  <2>. QED
    BY <2>2, <2>3
<1>3. ReadClock \/ gpc = "sweep"
  BY DEF Next, Ingest, Gc, Begin, Put, Commit, Abandon, Forget, GcStart, Visit, Sweep,
       Tick, vars, gcVars
<1>. QED
  BY <1>1, <1>2, <1>3

\* The inductive invariant holds at the start.
LEMMA InvInit == Init => IInv
<1> SUFFICES ASSUME Init PROVE IInv
  OBVIOUS
<1>1. TypeOK /\ Idle
  BY TypeInit
<1>2. StepObjectsYoung /\ RunningStepsKeepObjects /\ SweptAreOld
  BY DEF Init, StepObjectsYoung, RunningStepsKeepObjects, SweptAreOld
<1>3. RootInv
  BY DEF Init, RootInv, NoMark, MarkInv, SweepInv, RootsComplete
<1>. QED
  BY <1>1, <1>2, <1>3 DEF IInv, StepInv

\* Every step keeps the inductive invariant.
LEMMA InvStep == Grace /\ IInv /\ [Next]_vars => IInv'
<1> SUFFICES ASSUME Grace, IInv, [Next]_vars PROVE IInv'
  OBVIOUS
<1>1. StepInv'
  BY StepInvStep DEF IInv
<1>. QED
  BY <1>1, MarkStep, SweepStep, RootsCompleteStep DEF IInv, RootInv

(***************************************************************************)
(* The theorems                                                            *)
(***************************************************************************)

\* CasGc's state always has its type, whatever min_age is and whatever a step
\* produces: a step never counts past its objects, and no age, runtime or
\* duration leaves its range.
THEOREM TypeCorrect == Spec => []TypeOK
<1>1. TypeOK /\ Idle /\ [Next]_vars => (TypeOK /\ Idle)'
  BY TypeStep
<1>. QED
  BY <1>1, TypeInit, PTL DEF Spec

\* gc never deletes an object that a running step has inserted (store.rs:485-490),
\* if min_age is above the runtime of the steps and the steps' objects are new.
THEOREM StepsUndisturbed == Grace => (Spec => []RunningStepsKeepObjects)
<1> SUFFICES ASSUME Grace PROVE Spec => []RunningStepsKeepObjects
  OBVIOUS
<1>1. IInv /\ [Next]_vars => IInv'
  BY InvStep
<1>2. IInv => RunningStepsKeepObjects
  BY DEF IInv, StepInv
<1>. QED
  BY <1>1, <1>2, InvInit, PTL DEF Spec

\* Every tree the caller keeps stays complete through every run of gc, whatever
\* is ingested, recorded and forgotten between its steps, while no read fails
\* (store.rs:485-490), if min_age is above the runtime of a step and the duration
\* of a mark together.
THEOREM RootsStayComplete == Grace => (Spec => []RootsComplete)
<1> SUFFICES ASSUME Grace PROVE Spec => []RootsComplete
  OBVIOUS
<1>1. IInv /\ [Next]_vars => IInv'
  BY InvStep
<1>2. IInv => RootsComplete
  BY DEF IInv, RootInv
<1>. QED
  BY <1>1, <1>2, InvInit, PTL DEF Spec

(***************************************************************************)
(* Tree manifests: what the loop of decode reads (tree.rs, Tree::decode)   *)
(*                                                                         *)
(* The loop, like every recursive function here, is unfolded by a least    *)
(* counterexample: of the numbers of entries for which a claim fails there *)
(* would be a least one, and it is neither 0 nor a successor.              *)
(***************************************************************************)

\* A set of numbers has a least one.
LEMMA Least ==
  ASSUME NEW S \in SUBSET Nat, S # {}
  PROVE  \E n \in S : \A k \in S : n <= k
<1> DEFINE Less == {p \in Nat \X Nat : p[1] < p[2]}
<1>1. IsWellFoundedOn(Less, Nat)
  BY NatLessThanWellFounded, Zenon DEF OpToRel
<1>2. PICK n \in S : \A k \in S : ~(<<k, n>> \in Less)
  BY <1>1, WFMin, Zenon
<1>3. ASSUME NEW k \in S PROVE n <= k
  <2>1. n \in Nat /\ k \in Nat
    OBVIOUS
  <2>2. k < n => <<k, n>> \in Less
    BY <2>1
  <2> HIDE DEF Less
  <2>. QED
    BY <1>2, <2>1, <2>2
<1>. QED
  BY <1>3

\* What decode has before the first entry, and after each of the first m
Start == [at |-> 3, tree |-> [n \in {} |-> <<>>]]
Reading(f, b, m) ==
    f = [k \in 0 .. m |-> IF k = 0 THEN Start ELSE DecodeEntry(b, f[k - 1])]

\* There are such values, for any number of entries.
LEMMA ReadingExists ==
  ASSUME NEW b, NEW m \in Nat
  PROVE  \E f : Reading(f, b, m)
<1> DEFINE Bad == {k \in Nat : ~\E f : Reading(f, b, k)}
<1> SUFFICES ASSUME Bad # {} PROVE FALSE
  OBVIOUS
<1>1. PICK k \in Bad : \A i \in Bad : k <= i
  <2>1. Bad \in SUBSET Nat
    OBVIOUS
  <2> HIDE DEF Bad
  <2>. QED
    BY <2>1, Least
<1>2. k # 0
  <2> DEFINE f == [n \in 0 .. 0 |-> Start]
  <2>1. f = [n \in 0 .. 0 |-> IF n = 0 THEN Start ELSE DecodeEntry(b, f[n - 1])]
    OBVIOUS
  <2> HIDE DEF f
  <2>2. Reading(f, b, 0)
    BY <2>1 DEF Reading
  <2>. QED
    BY <2>2
<1>3. k - 1 \in Nat /\ k - 1 \notin Bad
  <2>1. k \in Nat
    OBVIOUS
  <2> HIDE DEF Bad
  <2>. QED
    BY <1>1, <1>2, <2>1
<1>4. PICK f : Reading(f, b, k - 1)
  BY <1>3
<1> DEFINE g == [n \in 0 .. k |-> IF n = k THEN DecodeEntry(b, f[k - 1]) ELSE f[n]]
           h == [n \in 0 .. k |-> IF n = 0 THEN Start ELSE DecodeEntry(b, g[n - 1])]
<1>5. ASSUME NEW n \in 0 .. k PROVE g[n] = h[n]
  <2>1. CASE n = k
    <3>1. k - 1 \in 0 .. k /\ k - 1 # k /\ g[k - 1] = f[k - 1]
      BY <1>2, <1>3
    <3>. QED
      BY <1>2, <2>1, <3>1
  <2>2. CASE n # k /\ n # 0
    <3>1. n - 1 \in 0 .. k /\ n - 1 # k /\ n \in 0 .. (k - 1) /\ g[n - 1] = f[n - 1] /\ g[n] = f[n]
      BY <1>3, <2>2
    <3>2. f[n] = DecodeEntry(b, f[n - 1])
      BY <1>4, <2>2, <3>1 DEF Reading
    <3>. QED
      BY <2>2, <3>1, <3>2
  <2>3. CASE n # k /\ n = 0
    <3>1. n \in 0 .. (k - 1) /\ g[n] = f[n]
      BY <1>3, <2>3
    <3>2. f[n] = Start
      BY <1>4, <2>3, <3>1 DEF Reading
    <3>. QED
      BY <2>3, <3>1, <3>2
  <2>. QED
    BY <2>1, <2>2, <2>3
<1>6. g = h
  <2>1. g = [n \in 0 .. k |-> g[n]] /\ h = [n \in 0 .. k |-> h[n]]
    OBVIOUS
  <2> HIDE DEF g, h
  <2>. QED
    BY <1>5, <2>1
<1>7. Reading(g, b, k)
  <2>1. g = [n \in 0 .. k |-> IF n = 0 THEN Start ELSE DecodeEntry(b, g[n - 1])]
    BY <1>6
  <2> HIDE DEF g
  <2>. QED
    BY <2>1 DEF Reading
<1>. QED
  BY <1>7

\* decode's loop is at its end in the last of them.
LEMMA LoopIs ==
  ASSUME NEW b, NEW m \in Nat
  PROVE  \E f : Reading(f, b, m) /\ DecodeEntries(b, m) = f[m]
<1> DEFINE P(f) == f = [k \in 0 .. m |->
                          IF k = 0 THEN [at |-> 3, tree |-> [n \in {} |-> <<>>]]
                          ELSE DecodeEntry(b, f[k - 1])]
<1>1. DecodeEntries(b, m) = (CHOOSE f : P(f))[m]
  BY DEF DecodeEntries
<1>2. \A f : P(f) <=> Reading(f, b, m)
  BY DEF Reading, Start
<1>3. \E f : P(f)
  <2>1. \E f : Reading(f, b, m)
    BY ReadingExists
  <2> HIDE DEF P
  <2>. QED
    BY <1>2, <2>1
<1>4. P(CHOOSE f : P(f))
  <2> HIDE DEF P
  <2>. QED
    BY <1>3
<1>. QED
  BY <1>1, <1>2, <1>4

\* Reader::take: the bytes that were asked for.
LEMMA TakenFacts ==
  ASSUME NEW S, NEW b \in Seq(S), NEW at \in Nat \ {0}, NEW n \in Nat, Fits(b, at, n)
  PROVE  /\ Taken(b, at, n) \in Seq(S)
         /\ Len(Taken(b, at, n)) = n
         /\ \A i \in 1 .. n : Taken(b, at, n)[i] = b[at + i - 1]
         /\ DOMAIN Taken(b, at, n) = 1 .. n
  BY DEF Taken, Fits

\* Reading one byte gives a byte.
LEMMA ByteAt ==
  ASSUME NEW b \in Seq(Byte), NEW at \in Nat \ {0}, Fits(b, at, 1)
  PROVE  b[at] \in Byte /\ b[at] \in Nat
<1>1. at \in 1 .. Len(b)
  BY DEF Fits
<1>2. b[at] \in Byte
  BY <1>1
<1>. QED
  BY <1>2, CodecAssumption DEF Byte

\* An error is no result.
LEMMA ErrNotOk == \A why : ~Ok(Err(why))
  BY DEF Ok, Err

\* What DecodeName reads is an EntryName.
LEMMA NameRead ==
  ASSUME NEW b \in Seq(Byte), NEW at \in Nat \ {0}, Ok(DecodeName(b, at))
  PROVE  LET r == DecodeName(b, at)
         IN  /\ r.name \in Seq(Byte) /\ ~Has(r.name, NotUtf8) /\ NameError(r.name) = "none"
             /\ r.at \in Nat \ {0}
<1> DEFINE name == Taken(b, at + 2, b[at + 1])
           r == DecodeName(b, at)
<1>1. Fits(b, at, 2) /\ Fits(b, at + 2, b[at + 1])
  BY ErrNotOk DEF DecodeName
<1>2. ~Has(name, NotUtf8) /\ NameError(name) = "none"
  BY <1>1, ErrNotOk DEF DecodeName
<1>3. r = [tag |-> b[at], name |-> name, at |-> at + 2 + b[at + 1]]
  BY <1>1, <1>2 DEF DecodeName
<1>4. b[at + 1] \in Nat /\ at + 1 \in Nat \ {0} /\ at + 2 \in Nat \ {0}
  <2>1. Fits(b, at + 1, 1) /\ at + 1 \in Nat \ {0}
    BY <1>1 DEF Fits
  <2>. QED
    BY <2>1, ByteAt
<1>5. name \in Seq(Byte)
  BY <1>1, <1>4, TakenFacts
<1> HIDE DEF name, r
<1>6. r.name = name /\ r.at = at + 2 + b[at + 1]
  BY <1>3
<1>7. r.at \in Nat \ {0}
  BY <1>4, <1>6
<1>. QED
  BY <1>2, <1>5, <1>6, <1>7 DEF r

\* What DecodeNode reads is a node that can be stored.
LEMMA NodeRead ==
  ASSUME NEW b \in Seq(Byte), NEW at \in Nat \ {0}, NEW tag, Ok(DecodeNode(b, at, tag))
  PROVE  LET r == DecodeNode(b, at, tag)
         IN  StorableNode(r.node) /\ r.at \in Nat \ {0}
<1> DEFINE r == DecodeNode(b, at, tag)
<1>0. DigestLen \in Nat /\ DigestLen > 0 /\ Base \in Nat
  BY CodecAssumption
<1>1. CASE tag = TagFile
  <2>1. Fits(b, at, DigestLen + 2)
    BY <1>1, ErrNotOk DEF DecodeNode
  <2> DEFINE node == FileNode(Taken(b, at, DigestLen), b[at + DigestLen],
                              b[at + DigestLen + 1] % 2 = 1)
  <2>2. r = [node |-> node, at |-> at + DigestLen + 2]
    BY <1>1, <2>1 DEF DecodeNode
  <2>3. Fits(b, at, DigestLen) /\ Fits(b, at + DigestLen, 1) /\ at + DigestLen \in Nat \ {0}
    BY <1>0, <2>1 DEF Fits
  <2>4. b[at + DigestLen] \in Byte
    BY <2>3, ByteAt
  <2>5. Taken(b, at, DigestLen) \in [1 .. DigestLen -> Byte]
    <3>1. /\ Taken(b, at, DigestLen) \in Seq(Byte)
          /\ Len(Taken(b, at, DigestLen)) = DigestLen
      BY <1>0, <2>3, TakenFacts
    <3>. QED
      BY <3>1
  <2>6. node \in NodeSet /\ node.tag = TagFile
    BY <2>4, <2>5 DEF FileNode, NodeSet
  <2> HIDE DEF node
  <2>7. StorableNode(node)
    BY <2>6 DEF StorableNode, TagFile, TagSymlink
  <2> HIDE DEF r
  <2>8. r.node = node /\ r.at = at + DigestLen + 2
    BY <2>2
  <2>. QED
    BY <1>0, <2>7, <2>8 DEF r
<1>2. CASE tag = TagDir
  <2>1. Fits(b, at, DigestLen)
    BY <1>2, ErrNotOk DEF DecodeNode, TagFile, TagDir
  <2> DEFINE node == DirNode(Taken(b, at, DigestLen))
  <2>2. r = [node |-> node, at |-> at + DigestLen]
    BY <1>2, <2>1 DEF DecodeNode, TagFile, TagDir
  <2>3. Taken(b, at, DigestLen) \in [1 .. DigestLen -> Byte]
    <3>1. /\ Taken(b, at, DigestLen) \in Seq(Byte)
          /\ Len(Taken(b, at, DigestLen)) = DigestLen
      BY <1>0, <2>1, TakenFacts
    <3>. QED
      BY <3>1
  <2>4. node \in NodeSet /\ node.tag = TagDir
    BY <2>3 DEF DirNode, NodeSet
  <2> HIDE DEF node
  <2>5. StorableNode(node)
    BY <2>4 DEF StorableNode, TagDir, TagSymlink
  <2> HIDE DEF r
  <2>6. r.node = node /\ r.at = at + DigestLen
    BY <2>2
  <2>. QED
    BY <1>0, <2>5, <2>6 DEF r
<1>3. CASE tag = TagSymlink
  <2> DEFINE target == Taken(b, at + 1, b[at])
             node == SymlinkNode(target)
  <2>1. Fits(b, at, 1) /\ Fits(b, at + 1, b[at])
    BY <1>3, ErrNotOk DEF DecodeNode, TagFile, TagDir, TagSymlink
  <2>2. ~Has(target, NotUtf8) /\ b[at] # 0
    BY <1>3, <2>1, ErrNotOk DEF DecodeNode, TagFile, TagDir, TagSymlink
  <2>3. r = [node |-> node, at |-> at + 1 + b[at]]
    BY <1>3, <2>1, <2>2 DEF DecodeNode, TagFile, TagDir, TagSymlink
  <2>4. b[at] \in 1 .. Base - 1 /\ b[at] \in Nat /\ at + 1 \in Nat \ {0}
    BY <1>0, <2>1, <2>2, ByteAt DEF Byte
  <2>5. target \in Seq(Byte) /\ Len(target) = b[at]
    BY <2>1, <2>4, TakenFacts
  <2> HIDE DEF target
  <2>6. node \in NodeSet /\ node.target = target
    BY <2>5 DEF SymlinkNode, NodeSet
  <2> HIDE DEF node
  <2>7. StorableNode(node)
    BY <2>2, <2>4, <2>5, <2>6 DEF StorableNode
  <2> HIDE DEF r
  <2>8. r.node = node /\ r.at = at + 1 + b[at]
    BY <2>3
  <2>. QED
    BY <2>4, <2>7, <2>8 DEF r
<1>4. CASE tag \notin {TagFile, TagDir, TagSymlink}
  BY <1>4, ErrNotOk DEF DecodeNode
<1>. QED
  BY <1>1, <1>2, <1>3, <1>4

\* What has been read after at most k entries
ReadOK(r, k) ==
    /\ r.at \in Nat \ {0}
    /\ r.tree = [n \in DOMAIN r.tree |-> r.tree[n]]
    /\ IsFiniteSet(DOMAIN r.tree) /\ Cardinality(DOMAIN r.tree) <= k
    /\ \A n \in DOMAIN r.tree :
         /\ n \in Seq(Byte) /\ ~Has(n, NotUtf8) /\ NameError(n) = "none"
         /\ StorableNode(r.tree[n])

\* Nothing has been read at the start.
LEMMA StartRead == ReadOK(Start, 0)
<1> DEFINE t == [n \in {} |-> <<>>]
<1>1. Start.at = 3 /\ Start.tree = t /\ DOMAIN t = {}
  BY DEF Start
<1>2. t = [n \in DOMAIN t |-> t[n]]
  OBVIOUS
<1> HIDE DEF t
<1>. QED
  BY <1>1, <1>2, FS_EmptySet DEF ReadOK

\* An entry that is read adds a name and a node that can be stored.
LEMMA EntryRead ==
  ASSUME NEW b \in Seq(Byte), NEW k \in Nat, NEW s, Ok(s) => ReadOK(s, k),
         Ok(DecodeEntry(b, s))
  PROVE  ReadOK(DecodeEntry(b, s), k + 1)
<1> DEFINE head == DecodeName(b, s.at)
           body == DecodeNode(b, head.at, head.tag)
           new == [n \in DOMAIN s.tree \cup {head.name} |->
                     IF n = head.name THEN body.node ELSE s.tree[n]]
           r == DecodeEntry(b, s)
<1>1. Ok(s) /\ Ok(head) /\ Ok(body) /\ head.name \notin DOMAIN s.tree
  <2> HIDE DEF head, body
  <2>1. r = IF ~Ok(s) THEN s
        ELSE IF ~Ok(head) THEN head
        ELSE IF ~Ok(body) THEN body
        ELSE IF head.name \in DOMAIN s.tree THEN Err("DuplicateName")
        ELSE [at |-> body.at, tree |-> new]
    BY DEF DecodeEntry, head, body
  <2>2. Ok(r)
    OBVIOUS
  <2> HIDE DEF r, new
  <2>. QED
    BY <2>1, <2>2, ErrNotOk
<1>2. r = [at |-> body.at, tree |-> new]
  <2> HIDE DEF head, body
  <2>. QED
    BY <1>1 DEF DecodeEntry, head, body
<1>3. ReadOK(s, k)
  BY <1>1
<1>4. s.at \in Nat \ {0}
  BY <1>3 DEF ReadOK
<1>5. /\ head.name \in Seq(Byte) /\ ~Has(head.name, NotUtf8) /\ NameError(head.name) = "none"
      /\ head.at \in Nat \ {0}
  BY <1>1, <1>4, NameRead
<1> HIDE DEF head
<1>6. StorableNode(body.node) /\ body.at \in Nat \ {0}
  BY <1>1, <1>5, NodeRead
<1> HIDE DEF body
<1>7. DOMAIN new = DOMAIN s.tree \cup {head.name}
  OBVIOUS
<1>8. IsFiniteSet(DOMAIN new) /\ Cardinality(DOMAIN new) <= k + 1
  <2>1. IsFiniteSet(DOMAIN s.tree) /\ Cardinality(DOMAIN s.tree) <= k
    BY <1>3 DEF ReadOK
  <2>2. Cardinality(DOMAIN s.tree) \in Nat
    BY <2>1, FS_CardinalityType
  <2>3. /\ IsFiniteSet(DOMAIN s.tree \cup {head.name})
        /\ Cardinality(DOMAIN s.tree \cup {head.name}) = Cardinality(DOMAIN s.tree) + 1
    BY <1>1, <2>1, FS_AddElement
  <2> HIDE DEF new
  <2>. QED
    BY <1>7, <2>1, <2>2, <2>3
<1>9. ASSUME NEW n \in DOMAIN new
      PROVE  /\ n \in Seq(Byte) /\ ~Has(n, NotUtf8) /\ NameError(n) = "none"
             /\ StorableNode(new[n])
  <2>1. CASE n = head.name
    BY <1>5, <1>6, <1>7, <2>1
  <2>2. CASE n # head.name
    <3>1. n \in DOMAIN s.tree /\ new[n] = s.tree[n]
      BY <1>7, <2>2
    <3> HIDE DEF new
    <3>. QED
      BY <1>3, <3>1 DEF ReadOK
  <2>. QED
    BY <2>1, <2>2
<1>10. new = [n \in DOMAIN new |-> new[n]]
  OBVIOUS
<1> HIDE DEF new, r
<1>11. r.at = body.at /\ r.tree = new
  BY <1>2
<1>12. ReadOK(r, k + 1)
  BY <1>6, <1>8, <1>9, <1>10, <1>11 DEF ReadOK
<1>. QED
  BY <1>12 DEF r

\* Every entry that is read keeps it so.
LEMMA ReadingOK ==
  ASSUME NEW b \in Seq(Byte), NEW m \in Nat, NEW f, Reading(f, b, m)
  PROVE  \A k \in 0 .. m : Ok(f[k]) => ReadOK(f[k], k)
<1> DEFINE Bad == {k \in 0 .. m : Ok(f[k]) /\ ~ReadOK(f[k], k)}
<1> SUFFICES ASSUME Bad # {} PROVE FALSE
  OBVIOUS
<1>1. PICK k \in Bad : \A i \in Bad : k <= i
  <2>1. Bad \in SUBSET Nat
    OBVIOUS
  <2> HIDE DEF Bad
  <2>. QED
    BY <2>1, Least
<1>2. k \in 0 .. m /\ Ok(f[k]) /\ ~ReadOK(f[k], k)
  OBVIOUS
<1>3. k # 0
  BY <1>2, StartRead DEF Reading
<1>4. k - 1 \in 0 .. m /\ k - 1 \in Nat /\ ~(k <= k - 1)
  BY <1>2, <1>3
<1>5. Ok(f[k - 1]) => ReadOK(f[k - 1], k - 1)
  <2>1. k - 1 \notin Bad
    <3> HIDE DEF Bad
    <3>. QED
      BY <1>1, <1>4
  <2>. QED
    BY <1>4, <2>1
<1>6. f[k] = DecodeEntry(b, f[k - 1])
  BY <1>2, <1>3 DEF Reading
<1>7. ReadOK(f[k], k - 1 + 1)
  BY <1>2, <1>4, <1>5, <1>6, EntryRead
<1>8. k - 1 + 1 = k
  BY <1>2
<1>. QED
  BY <1>2, <1>7, <1>8

\* What decode makes of any bytes is a tree that can be stored.
LEMMA DecodedStorable ==
  ASSUME NEW b \in Seq(Byte), Ok(Decode(b))
  PROVE  Storable(Decode(b).tree) /\ Decode(b) = [tree |-> Decode(b).tree]
<1> DEFINE r == DecodeEntries(b, b[2])
<1>1. Fits(b, 1, 1) /\ Fits(b, 2, 1) /\ b[1] = Version /\ ~(b[2] > Len(b) - 2)
  BY ErrNotOk DEF Decode
<1>2. b[2] \in Byte /\ b[2] \in Nat /\ b[2] < Base
  <2>1. b[2] \in Byte /\ b[2] \in Nat
    BY <1>1, ByteAt
  <2>. QED
    BY <2>1, CodecAssumption DEF Byte
<1>3. PICK f : Reading(f, b, b[2]) /\ r = f[b[2]]
  BY <1>2, LoopIs
<1> HIDE DEF r
<1>4. Ok(r) /\ Decode(b) = [tree |-> r.tree]
  <2>1. Decode(b) = IF ~Ok(r) THEN r
                    ELSE IF r.at # Len(b) + 1 THEN Err("TrailingBytes")
                    ELSE [tree |-> r.tree]
    BY <1>1 DEF Decode, r
  <2>. QED
    BY <2>1, ErrNotOk
<1>5. ReadOK(r, b[2])
  <2>1. b[2] \in 0 .. b[2]
    BY <1>2
  <2>. QED
    BY <1>2, <1>3, <1>4, <2>1, ReadingOK
<1>6. Cardinality(DOMAIN r.tree) < Base
  <2>1. Cardinality(DOMAIN r.tree) \in Nat /\ Cardinality(DOMAIN r.tree) <= b[2]
    BY <1>5, FS_CardinalityType DEF ReadOK
  <2>. QED
    BY <1>2, <2>1, CodecAssumption
<1>7. Storable(r.tree)
  BY <1>5, <1>6 DEF ReadOK, Storable
<1>. QED
  BY <1>4, <1>7

\* The names of a tree that can be stored are single path components.
LEMMA StorableInside ==
  ASSUME NEW tree, Storable(tree), NEW n \in DOMAIN tree
  PROVE  /\ n # <<>> /\ n # <<Dot>> /\ n # <<Dot, Dot>>
         /\ {n[i] : i \in DOMAIN n} \cap {Slash, Nul} = {}
         /\ tree[n].tag = TagSymlink => tree[n].target # <<>>
<1>1. n \in Seq(Byte) /\ NameError(n) = "none" /\ StorableNode(tree[n])
  BY DEF Storable
<1>2. n # <<>> /\ n # <<Dot>> /\ n # <<Dot, Dot>> /\ ~Has(n, Slash) /\ ~Has(n, Nul)
  BY <1>1 DEF NameError
<1>3. {n[i] : i \in DOMAIN n} \cap {Slash, Nul} = {}
  BY <1>2 DEF Has
<1>4. ASSUME tree[n].tag = TagSymlink PROVE tree[n].target # <<>>
  <2>1. Len(tree[n].target) \in 1 .. Base - 1
    BY <1>1, <1>4 DEF StorableNode
  <2>2. Len(<<>>) = 0
    OBVIOUS
  <2>. QED
    BY <2>1, <2>2
<1>. QED
  BY <1>2, <1>3, <1>4

\* Whatever bytes are decoded, no name leaves its directory.
LEMMA AllStayInside ==
  ASSUME NEW b \in Seq(Byte)
  PROVE  StaysInside(b)
  BY DecodedStorable, StorableInside DEF StaysInside

(***************************************************************************)
(* Tree manifests: the order of the entries (tree.rs, Tree::encode)        *)
(***************************************************************************)

\* a and b first differ at i, and a is before b there
Differs(a, b, i) ==
    /\ i \in Nat \ {0} /\ i - 1 <= Len(a) /\ i <= Len(b)
    /\ \A j \in 1 .. i - 1 : a[j] = b[j]
    /\ i <= Len(a) => a[i] < b[i]

\* Bytes are numbers.
LEMMA BytesNat ==
  ASSUME NEW a \in Seq(Byte)
  PROVE  Len(a) \in Nat /\ \A j \in 1 .. Len(a) : a[j] \in Nat
<1>1. \A v \in Byte : v \in Nat
  BY CodecAssumption DEF Byte
<1>2. Len(a) \in Nat /\ \A j \in 1 .. Len(a) : a[j] \in Byte
  OBVIOUS
<1>. QED
  BY <1>1, <1>2

\* Names are compared at the first byte that differs.
LEMMA BeforeIs ==
  ASSUME NEW a \in Seq(Byte), NEW b \in Seq(Byte)
  PROVE  Before(a, b) <=> \E i : Differs(a, b, i)
<1>0. Len(a) \in Nat /\ Len(b) \in Nat /\ DOMAIN a = 1 .. Len(a) /\ DOMAIN b = 1 .. Len(b)
  OBVIOUS
<1>1. ASSUME NEW n \in 0 .. Len(a), n <= Len(b)
      PROVE  SubSeq(a, 1, n) = SubSeq(b, 1, n) <=> \A j \in 1 .. n : a[j] = b[j]
  <2>1. SubSeq(a, 1, n) = [j \in 1 .. n |-> a[j]] /\ SubSeq(b, 1, n) = [j \in 1 .. n |-> b[j]]
    BY <1>1
  <2>. QED
    BY <2>1
<1>2. SubSeq(a, 1, Len(a)) = a
  OBVIOUS
<1>3. ASSUME Len(a) < Len(b), SubSeq(b, 1, Len(a)) = a PROVE Differs(a, b, Len(a) + 1)
  BY <1>0, <1>1, <1>2, <1>3 DEF Differs
<1>4. ASSUME NEW i \in DOMAIN a \cap DOMAIN b, a[i] < b[i],
             SubSeq(a, 1, i - 1) = SubSeq(b, 1, i - 1)
      PROVE  Differs(a, b, i)
  BY <1>0, <1>1, <1>4 DEF Differs
<1>5. ASSUME NEW i, Differs(a, b, i) PROVE Before(a, b)
  <2>1. CASE i <= Len(a)
    <3>1. i \in DOMAIN a \cap DOMAIN b /\ a[i] < b[i] /\ i - 1 \in 0 .. Len(a) /\ i - 1 <= Len(b)
      BY <1>0, <1>5, <2>1 DEF Differs
    <3>2. SubSeq(a, 1, i - 1) = SubSeq(b, 1, i - 1)
      BY <1>1, <1>5, <3>1 DEF Differs
    <3>. QED
      BY <3>1, <3>2 DEF Before
  <2>2. CASE ~(i <= Len(a))
    <3>1. i - 1 = Len(a) /\ Len(a) < Len(b) /\ Len(a) \in 0 .. Len(a) /\ Len(a) <= Len(b)
      BY <1>0, <1>5, <2>2 DEF Differs
    <3>2. SubSeq(b, 1, Len(a)) = a
      BY <1>1, <1>2, <1>5, <3>1 DEF Differs
    <3>. QED
      BY <3>1, <3>2 DEF Before
  <2>. QED
    BY <2>1, <2>2
<1>. QED
  BY <1>3, <1>4, <1>5 DEF Before

\* No name is before itself.
LEMMA BeforeNot ==
  ASSUME NEW a \in Seq(Byte)
  PROVE  ~Before(a, a)
<1>1. ASSUME NEW i, Differs(a, a, i) PROVE FALSE
  <2>1. i \in 1 .. Len(a) /\ a[i] < a[i]
    BY <1>1 DEF Differs
  <2>2. a[i] \in Nat
    BY <2>1, BytesNat
  <2>. QED
    BY <2>1, <2>2
<1>. QED
  BY <1>1, BeforeIs

\* The order of names is transitive.
LEMMA BeforeTransitive ==
  ASSUME NEW a \in Seq(Byte), NEW b \in Seq(Byte), NEW c \in Seq(Byte),
         Before(a, b), Before(b, c)
  PROVE  Before(a, c)
<1>1. PICK i : Differs(a, b, i)
  BY BeforeIs
<1>2. PICK k : Differs(b, c, k)
  BY BeforeIs
<1>3. /\ \A j \in 1 .. Len(a) : a[j] \in Nat
      /\ \A j \in 1 .. Len(b) : b[j] \in Nat
      /\ \A j \in 1 .. Len(c) : c[j] \in Nat
      /\ Len(a) \in Nat /\ Len(b) \in Nat /\ Len(c) \in Nat
  BY BytesNat
<1>4. CASE i < k
  <2>1. Differs(a, c, i)
    BY <1>1, <1>2, <1>3, <1>4 DEF Differs
  <2>. QED
    BY <2>1, BeforeIs
<1>5. CASE i = k
  <2>1. Differs(a, c, i)
    BY <1>1, <1>2, <1>3, <1>5 DEF Differs
  <2>. QED
    BY <2>1, BeforeIs
<1>6. CASE k < i
  <2>1. Differs(a, c, k)
    BY <1>1, <1>2, <1>3, <1>6 DEF Differs
  <2>. QED
    BY <2>1, BeforeIs
<1>7. i \in Nat /\ k \in Nat
  BY <1>1, <1>2 DEF Differs
<1>. QED
  BY <1>4, <1>5, <1>6, <1>7

\* Of two names one is before the other.
LEMMA BeforeTotal ==
  ASSUME NEW a \in Seq(Byte), NEW b \in Seq(Byte), a # b
  PROVE  Before(a, b) \/ Before(b, a)
<1> DEFINE Bad == {i \in Nat \ {0} : \/ i > Len(a) \/ i > Len(b)
                                     \/ i <= Len(a) /\ i <= Len(b) /\ a[i] # b[i]}
<1>0. /\ \A j \in 1 .. Len(a) : a[j] \in Nat
      /\ \A j \in 1 .. Len(b) : b[j] \in Nat
      /\ Len(a) \in Nat /\ Len(b) \in Nat
  BY BytesNat
<1>1. PICK i \in Bad : \A k \in Bad : i <= k
  <2>1. Bad \in SUBSET Nat /\ Len(a) + 1 \in Bad
    BY <1>0
  <2> HIDE DEF Bad
  <2>. QED
    BY <2>1, Least
<1>2. i \in Nat \ {0} /\ (i > Len(a) \/ i > Len(b) \/ a[i] # b[i])
  OBVIOUS
<1>3. ASSUME NEW j \in 1 .. i - 1 PROVE j <= Len(a) /\ j <= Len(b) /\ a[j] = b[j]
  <2>1. j \in Nat \ {0} /\ ~(i <= j)
    BY <1>2
  <2>2. j \notin Bad
    <3> HIDE DEF Bad
    <3>. QED
      BY <1>1, <2>1
  <2>. QED
    BY <1>0, <2>1, <2>2
<1> HIDE DEF Bad
<1>4. i - 1 <= Len(a) /\ i - 1 <= Len(b)
  <2>1. CASE i = 1
    BY <1>0, <2>1
  <2>2. CASE i # 1
    <3>1. i - 1 \in 1 .. i - 1
      BY <1>2, <2>2
    <3>. QED
      BY <1>3, <3>1
  <2>. QED
    BY <2>1, <2>2
<1>5. CASE i <= Len(a) /\ i <= Len(b)
  <2>1. a[i] \in Nat /\ b[i] \in Nat /\ a[i] # b[i]
    BY <1>0, <1>2, <1>5
  <2>2. Differs(a, b, i) \/ Differs(b, a, i)
    BY <1>0, <1>2, <1>3, <1>4, <1>5, <2>1 DEF Differs
  <2>. QED
    BY <2>2, BeforeIs
<1>6. CASE ~(i <= Len(a)) /\ i <= Len(b)
  <2>1. Differs(a, b, i)
    BY <1>0, <1>2, <1>3, <1>4, <1>6 DEF Differs
  <2>. QED
    BY <2>1, BeforeIs
<1>7. CASE i <= Len(a) /\ ~(i <= Len(b))
  <2>1. Differs(b, a, i)
    BY <1>0, <1>2, <1>3, <1>4, <1>7 DEF Differs
  <2>. QED
    BY <2>1, BeforeIs
<1>8. CASE ~(i <= Len(a)) /\ ~(i <= Len(b))
  <2>1. Len(a) = i - 1 /\ Len(b) = i - 1
    BY <1>0, <1>2, <1>4, <1>8
  <2>2. a = [j \in 1 .. i - 1 |-> a[j]] /\ b = [j \in 1 .. i - 1 |-> b[j]]
    BY <2>1
  <2>3. a = b
    BY <1>3, <2>2
  <2>. QED
    BY <2>3
<1>. QED
  BY <1>5, <1>6, <1>7, <1>8

\* The names before n
Earlier(S, n) == {m \in S : Before(m, n)}

\* Each name has its place: Names lists every name once.
LEMMA NamesFacts ==
  ASSUME NEW tree, Storable(tree)
  PROVE  LET c == Cardinality(DOMAIN tree)
         IN  /\ c \in Nat
             /\ Names(tree) \in [1 .. c -> DOMAIN tree]
             /\ \A i, j \in 1 .. c : Names(tree)[i] = Names(tree)[j] => i = j
             /\ \A n \in DOMAIN tree : \E i \in 1 .. c : Names(tree)[i] = n
<1> DEFINE S == DOMAIN tree
           c == Cardinality(S)
           rank == [n \in S |-> Cardinality(Earlier(S, n)) + 1]
<1>1. IsFiniteSet(S) /\ S \subseteq Seq(Byte)
  BY DEF Storable
<1>2. Names(tree) = [i \in 1 .. c |-> CHOOSE n \in S : Cardinality(Earlier(S, n)) = i - 1]
  BY DEF Names, Earlier
<1> HIDE DEF S
<1>3. c \in Nat
  BY <1>1, FS_CardinalityType
<1>4. ASSUME NEW n \in S
      PROVE  /\ IsFiniteSet(Earlier(S, n)) /\ Cardinality(Earlier(S, n)) \in Nat
             /\ Cardinality(Earlier(S, n)) < c
  <2>1. Earlier(S, n) \in SUBSET S /\ n \notin Earlier(S, n)
    BY <1>1, BeforeNot DEF Earlier
  <2>2. /\ IsFiniteSet(Earlier(S, n)) /\ Cardinality(Earlier(S, n)) <= c
        /\ (c = Cardinality(Earlier(S, n)) => S = Earlier(S, n))
    BY <1>1, <2>1, FS_Subset
  <2>3. Cardinality(Earlier(S, n)) \in Nat
    BY <2>2, FS_CardinalityType
  <2>. QED
    BY <1>3, <2>1, <2>2, <2>3
<1>5. ASSUME NEW n \in S, NEW m \in S, Before(m, n)
      PROVE  Cardinality(Earlier(S, m)) < Cardinality(Earlier(S, n))
  <2>1. Earlier(S, m) \in SUBSET Earlier(S, n)
    BY <1>1, <1>5, BeforeTransitive DEF Earlier
  <2>2. m \in Earlier(S, n) /\ m \notin Earlier(S, m)
    BY <1>1, <1>5, BeforeNot DEF Earlier
  <2>3. /\ Cardinality(Earlier(S, m)) <= Cardinality(Earlier(S, n))
        /\ (Cardinality(Earlier(S, n)) = Cardinality(Earlier(S, m))
              => Earlier(S, n) = Earlier(S, m))
    BY <1>4, <2>1, FS_Subset
  <2>. QED
    BY <1>4, <2>2, <2>3
<1>6. ASSUME NEW n \in S, NEW m \in S, Cardinality(Earlier(S, n)) = Cardinality(Earlier(S, m))
      PROVE  n = m
  <2> SUFFICES ASSUME n # m PROVE FALSE
    OBVIOUS
  <2>1. Before(m, n) \/ Before(n, m)
    BY <1>1, BeforeTotal
  <2>. QED
    BY <1>4, <1>5, <1>6, <2>1
<1>7. rank \in Injection(S, 1 .. c)
  <2>1. rank \in [S -> 1 .. c]
    BY <1>3, <1>4
  <2>2. ASSUME NEW n \in S, NEW m \in S, rank[n] = rank[m] PROVE n = m
    BY <1>4, <1>6, <2>2
  <2> HIDE DEF rank
  <2>. QED
    BY <2>1, <2>2 DEF Injection, IsInjective
<1>8. rank \in Surjection(S, 1 .. c)
  <2>1. IsFiniteSet(1 .. c) /\ Cardinality(1 .. c) = c
    BY <1>3, FS_Interval
  <2> HIDE DEF rank
  <2>. QED
    BY <1>7, <2>1, FS_Injection
<1>9. ASSUME NEW i \in 1 .. c
      PROVE  /\ Names(tree)[i] \in S
             /\ Cardinality(Earlier(S, Names(tree)[i])) = i - 1
  <2>1. \E n \in S : rank[n] = i
    <3> HIDE DEF rank
    <3>. QED
      BY <1>8 DEF Surjection
  <2>2. \E n \in S : Cardinality(Earlier(S, n)) = i - 1
    BY <1>4, <2>1
  <2>3. Names(tree)[i] = CHOOSE n \in S : Cardinality(Earlier(S, n)) = i - 1
    BY <1>2
  <2>. QED
    BY <2>2, <2>3
<1>10. Names(tree) \in [1 .. c -> S]
  <2>1. Names(tree) = [i \in 1 .. c |-> Names(tree)[i]]
    BY <1>2
  <2>. QED
    BY <1>9, <2>1
<1>11. ASSUME NEW i \in 1 .. c, NEW j \in 1 .. c, Names(tree)[i] = Names(tree)[j] PROVE i = j
  BY <1>3, <1>9, <1>11
<1>12. ASSUME NEW n \in S PROVE \E i \in 1 .. c : Names(tree)[i] = n
  <2>1. rank[n] \in 1 .. c /\ Cardinality(Earlier(S, n)) = rank[n] - 1
    BY <1>3, <1>4
  <2>2. Names(tree)[rank[n]] = n
    <3> HIDE DEF rank
    <3>. QED
      BY <1>6, <1>9, <2>1
  <2>. QED
    BY <2>1, <2>2
<1>. QED
  BY <1>3, <1>10, <1>11, <1>12 DEF S

(***************************************************************************)
(* Tree manifests: what was encoded is decoded (tree.rs, encode and decode)*)
(***************************************************************************)

\* The elements of two sequences in one.
LEMMA Concatenation ==
  ASSUME NEW S, NEW a \in Seq(S), NEW c \in Seq(S)
  PROVE  /\ a \o c \in Seq(S) /\ Len(a \o c) = Len(a) + Len(c)
         /\ Len(a) \in Nat /\ Len(c) \in Nat
         /\ \A j \in 1 .. Len(a) : (a \o c)[j] = a[j]
         /\ \A j \in 1 .. Len(c) : (a \o c)[Len(a) + j] = c[j]
<1>1. a \o c \in Seq(S) /\ Len(a \o c) = Len(a) + Len(c) /\ Len(a) \in Nat /\ Len(c) \in Nat
  OBVIOUS
<1>2. \A j \in 1 .. Len(a) + Len(c) : (a \o c)[j] = IF j <= Len(a) THEN a[j] ELSE c[j - Len(a)]
  OBVIOUS
<1>3. ASSUME NEW j \in 1 .. Len(c) PROVE (a \o c)[Len(a) + j] = c[j]
  <2>1. Len(a) + j \in 1 .. Len(a) + Len(c) /\ ~(Len(a) + j <= Len(a)) /\ Len(a) + j - Len(a) = j
    BY <1>1
  <2>. QED
    BY <1>2, <2>1
<1>4. ASSUME NEW j \in 1 .. Len(a) PROVE (a \o c)[j] = a[j]
  <2>1. j \in 1 .. Len(a) + Len(c) /\ j <= Len(a)
    BY <1>1
  <2>. QED
    BY <1>2, <2>1
<1>. QED
  BY <1>1, <1>3, <1>4

\* FlattenSeq's sequences: the first of s, the first two, and so on
Joining(f, s, m) == f = [i \in 1 .. m |-> IF i = 1 THEN s[i] ELSE f[i - 1] \o s[i]]

\* There are such sequences, for any s.
LEMMA JoiningExists ==
  ASSUME NEW s, NEW m \in Nat
  PROVE  \E f : Joining(f, s, m)
<1> DEFINE Bad == {k \in Nat : ~\E f : Joining(f, s, k)}
<1> SUFFICES ASSUME Bad # {} PROVE FALSE
  OBVIOUS
<1>1. PICK k \in Bad : \A i \in Bad : k <= i
  <2>1. Bad \in SUBSET Nat
    OBVIOUS
  <2> HIDE DEF Bad
  <2>. QED
    BY <2>1, Least
<1>2. k # 0
  <2> DEFINE f == [i \in 1 .. 0 |-> s[i]]
  <2>1. f = [i \in 1 .. 0 |-> IF i = 1 THEN s[i] ELSE f[i - 1] \o s[i]]
    OBVIOUS
  <2> HIDE DEF f
  <2>2. Joining(f, s, 0)
    BY <2>1 DEF Joining
  <2>. QED
    BY <2>2
<1>3. k \in Nat /\ k - 1 \in Nat /\ k - 1 \notin Bad
  <2>1. k \in Nat
    OBVIOUS
  <2> HIDE DEF Bad
  <2>. QED
    BY <1>1, <1>2, <2>1
<1>4. PICK f : Joining(f, s, k - 1)
  BY <1>3
<1> DEFINE g == [i \in 1 .. k |-> IF i < k THEN f[i]
                                 ELSE IF k = 1 THEN s[k] ELSE f[k - 1] \o s[k]]
           h == [i \in 1 .. k |-> IF i = 1 THEN s[i] ELSE g[i - 1] \o s[i]]
<1>5. ASSUME NEW i \in 1 .. k PROVE g[i] = h[i]
  <2>1. CASE i = k /\ k = 1
    BY <1>3, <2>1
  <2>2. CASE i = k /\ k # 1
    <3>1. k - 1 \in 1 .. k /\ k - 1 < k /\ g[k - 1] = f[k - 1]
      BY <1>3, <2>2
    <3>2. h[k] = g[k - 1] \o s[k]
      <4>1. k \in 1 .. k
        BY <1>3, <2>2
      <4> HIDE DEF g
      <4>. QED
        BY <2>2, <4>1
    <3>3. g[k] = f[k - 1] \o s[k]
      <4>1. k \in 1 .. k /\ ~(k < k)
        BY <1>3, <2>2
      <4>. QED
        BY <2>2, <4>1
    <3>. QED
      BY <2>2, <3>1, <3>2, <3>3
  <2>3. CASE i # k /\ i # 1
    <3>1. i - 1 \in 1 .. k /\ i - 1 < k /\ i < k /\ i \in 1 .. (k - 1)
      BY <1>3, <2>3
    <3>2. g[i - 1] = f[i - 1] /\ g[i] = f[i] /\ h[i] = g[i - 1] \o s[i]
      BY <2>3, <3>1
    <3>3. f[i] = f[i - 1] \o s[i]
      BY <1>4, <2>3, <3>1 DEF Joining
    <3>. QED
      BY <3>2, <3>3
  <2>4. CASE i # k /\ i = 1
    <3>1. i < k /\ i \in 1 .. (k - 1) /\ g[i] = f[i] /\ h[i] = s[i]
      BY <1>3, <2>4
    <3>2. f[i] = s[i]
      BY <1>4, <2>4, <3>1 DEF Joining
    <3>. QED
      BY <3>1, <3>2
  <2>. QED
    BY <2>1, <2>2, <2>3, <2>4
<1>6. g = h
  <2>1. g = [i \in 1 .. k |-> g[i]] /\ h = [i \in 1 .. k |-> h[i]]
    OBVIOUS
  <2> HIDE DEF g, h
  <2>. QED
    BY <1>5, <2>1
<1>7. Joining(g, s, k)
  <2>1. g = [i \in 1 .. k |-> IF i = 1 THEN s[i] ELSE g[i - 1] \o s[i]]
    BY <1>6
  <2> HIDE DEF g
  <2>. QED
    BY <2>1 DEF Joining
<1>. QED
  BY <1>7

\* FlattenSeq is the last of them.
LEMMA FlattenIs ==
  ASSUME NEW s, Len(s) \in Nat \ {0}
  PROVE  \E f : Joining(f, s, Len(s)) /\ FlattenSeq(s) = f[Len(s)]
<1> DEFINE P(f) == f = [i \in 1 .. Len(s) |-> IF i = 1 THEN s[i] ELSE f[i - 1] \o s[i]]
<1>1. FlattenSeq(s) = (CHOOSE f : P(f))[Len(s)]
  BY DEF FlattenSeq
<1>2. \A f : P(f) <=> Joining(f, s, Len(s))
  BY DEF Joining
<1>3. \E f : P(f)
  <2>1. \E f : Joining(f, s, Len(s))
    BY JoiningExists
  <2> HIDE DEF P
  <2>. QED
    BY <1>2, <2>1
<1>4. P(CHOOSE f : P(f))
  <2> HIDE DEF P
  <2>. QED
    BY <1>3
<1>. QED
  BY <1>1, <1>2, <1>4

\* Each is the beginning of those after it.
LEMMA JoiningGrows ==
  ASSUME NEW S, NEW m \in Nat, NEW s \in [1 .. m -> Seq(S)], NEW f, Joining(f, s, m)
  PROVE  \A k \in 1 .. m :
           /\ f[k] \in Seq(S)
           /\ \A i \in 1 .. k : /\ Len(f[i]) <= Len(f[k])
                                /\ \A j \in 1 .. Len(f[i]) : f[k][j] = f[i][j]
<1> DEFINE Good(k) == /\ f[k] \in Seq(S)
                      /\ \A i \in 1 .. k : /\ Len(f[i]) <= Len(f[k])
                                           /\ \A j \in 1 .. Len(f[i]) : f[k][j] = f[i][j]
           Bad == {k \in 1 .. m : ~Good(k)}
<1> SUFFICES ASSUME Bad # {} PROVE FALSE
  OBVIOUS
<1>1. PICK k \in Bad : \A i \in Bad : k <= i
  <2>1. Bad \in SUBSET Nat
    OBVIOUS
  <2> HIDE DEF Bad
  <2>. QED
    BY <2>1, Least
<1>2. k \in 1 .. m /\ ~Good(k)
  OBVIOUS
<1>3. CASE k = 1
  <2>1. f[1] = s[1] /\ 1 \in 1 .. m
    BY <1>2, <1>3 DEF Joining
  <2>2. f[1] \in Seq(S) /\ Len(f[1]) \in Nat
    BY <2>1
  <2>3. \A i \in 1 .. 1 : i = 1
    OBVIOUS
  <2>. QED
    BY <1>2, <1>3, <2>2, <2>3
<1>4. CASE k # 1
  <2>1. k - 1 \in 1 .. m /\ ~(k <= k - 1)
    BY <1>2, <1>4
  <2>2. Good(k - 1)
    <3>1. k - 1 \notin Bad
      <4> HIDE DEF Bad
      <4>. QED
        BY <1>1, <2>1
    <3> HIDE DEF Good
    <3>. QED
      BY <2>1, <3>1
  <2>3. f[k] = f[k - 1] \o s[k] /\ s[k] \in Seq(S)
    BY <1>2, <1>4 DEF Joining
  <2>4. f[k - 1] \in Seq(S)
    BY <2>2
  <2>5. /\ f[k] \in Seq(S) /\ Len(f[k]) = Len(f[k - 1]) + Len(s[k])
        /\ Len(f[k - 1]) \in Nat /\ Len(s[k]) \in Nat
        /\ \A j \in 1 .. Len(f[k - 1]) : f[k][j] = f[k - 1][j]
    BY <2>3, <2>4
  <2>6. ASSUME NEW i \in 1 .. k
        PROVE  Len(f[i]) <= Len(f[k]) /\ \A j \in 1 .. Len(f[i]) : f[k][j] = f[i][j]
    <3>1. CASE i = k
      BY <2>5, <3>1
    <3>2. CASE i # k
      <4>1. i \in 1 .. k - 1 /\ i \in 1 .. m
        BY <1>2, <3>2
      <4>2. Len(f[i]) <= Len(f[k - 1]) /\ \A j \in 1 .. Len(f[i]) : f[k - 1][j] = f[i][j]
        BY <2>2, <4>1
      <4>3. Len(f[i]) \in Nat
        <5>1. CASE i = k - 1
          BY <2>5, <5>1
        <5>2. CASE i # k - 1
          <6>1. i \notin Bad
            <7>1. i \in Nat /\ ~(k <= i)
              BY <1>2, <4>1
            <7> HIDE DEF Bad
            <7>. QED
              BY <1>1, <7>1
          <6>2. f[i] \in Seq(S)
            BY <4>1, <6>1
          <6>. QED
            BY <6>2
        <5>. QED
          BY <5>1, <5>2
      <4>. QED
        BY <2>5, <4>2, <4>3
    <3>. QED
      BY <3>1, <3>2
  <2>7. Good(k)
    BY <2>5, <2>6
  <2>. QED
    BY <1>2, <2>7
<1>. QED
  BY <1>3, <1>4

\* b has s from at on
Holds(b, at, s) ==
    /\ at \in Nat \ {0} /\ at + Len(s) - 1 <= Len(b)
    /\ \A j \in 1 .. Len(s) : b[at + j - 1] = s[j]

\* ends[k] is where the k-th of the sequences s ends in b
Ends(ends, b, s, m) ==
    /\ ends \in [0 .. m -> Nat] /\ ends[0] = 0 /\ ends[m] = Len(b)
    /\ \A k \in 1 .. m : ends[k] = ends[k - 1] + Len(s[k]) /\ Holds(b, ends[k - 1] + 1, s[k])

\* FlattenSeq puts the sequences one behind the other.
LEMMA Flattened ==
  ASSUME NEW S, NEW m \in Nat, NEW s \in [1 .. m -> Seq(S)]
  PROVE  FlattenSeq(s) \in Seq(S) /\ \E ends : Ends(ends, FlattenSeq(s), s, m)
<1>0. s \in Seq(Seq(S)) /\ Len(s) = m
  OBVIOUS
<1>1. CASE m = 0
  <2>1. FlattenSeq(s) = s /\ s = <<>>
    BY <1>0, <1>1 DEF FlattenSeq
  <2> DEFINE ends == [k \in 0 .. 0 |-> 0]
  <2>2. ends \in [0 .. 0 -> Nat] /\ ends[0] = 0
    OBVIOUS
  <2> HIDE DEF ends
  <2>3. <<>> \in Seq(S) /\ Len(<<>>) = 0
    OBVIOUS
  <2>4. Ends(ends, <<>>, <<>>, 0)
    BY <2>2, <2>3 DEF Ends
  <2>. QED
    BY <1>1, <2>1, <2>3, <2>4
<1>2. CASE m # 0
  <2>1. PICK f : Joining(f, s, m) /\ FlattenSeq(s) = f[m]
    BY <1>0, <1>2, FlattenIs
  <2>2. \A k \in 1 .. m :
           /\ f[k] \in Seq(S)
           /\ \A i \in 1 .. k : /\ Len(f[i]) <= Len(f[k])
                                /\ \A j \in 1 .. Len(f[i]) : f[k][j] = f[i][j]
    BY <2>1, JoiningGrows
  <2>3. m \in 1 .. m
    BY <1>2
  <2>4. \A k \in 1 .. m : Len(f[k]) \in Nat
    BY <2>2
  <2> DEFINE ends == [k \in 0 .. m |-> IF k = 0 THEN 0 ELSE Len(f[k])]
  <2>5. ends \in [0 .. m -> Nat] /\ ends[0] = 0 /\ ends[m] = Len(f[m])
    BY <1>2, <2>4
  <2>6. ASSUME NEW k \in 1 .. m
        PROVE  ends[k] = ends[k - 1] + Len(s[k]) /\ Holds(f[m], ends[k - 1] + 1, s[k])
    <3>1. Len(f[k]) <= Len(f[m]) /\ \A j \in 1 .. Len(f[k]) : f[m][j] = f[k][j]
      BY <2>2, <2>3
    <3>2. s[k] \in Seq(S) /\ Len(s[k]) \in Nat /\ Len(f[m]) \in Nat /\ Len(f[k]) \in Nat
      BY <2>3, <2>4
    <3>3. CASE k = 1
      <4>1. f[k] = s[k] /\ ends[k] = Len(s[k]) /\ ends[k - 1] = 0
        BY <2>1, <3>3 DEF Joining
      <4> HIDE DEF ends
      <4>. QED
        BY <3>1, <3>2, <4>1 DEF Holds
    <3>4. CASE k # 1
      <4>1. k - 1 \in 1 .. m /\ ends[k - 1] = Len(f[k - 1]) /\ ends[k] = Len(f[k])
        BY <3>4
      <4>2. f[k] = f[k - 1] \o s[k] /\ f[k - 1] \in Seq(S) /\ Len(f[k - 1]) \in Nat
        BY <2>1, <2>2, <2>4, <3>4, <4>1 DEF Joining
      <4>3. /\ Len(f[k]) = Len(f[k - 1]) + Len(s[k])
            /\ \A j \in 1 .. Len(s[k]) : f[k][Len(f[k - 1]) + j] = s[k][j]
        BY <3>2, <4>2, Concatenation
      <4> HIDE DEF ends
      <4>4. ASSUME NEW j \in 1 .. Len(s[k])
            PROVE  f[m][ends[k - 1] + 1 + j - 1] = s[k][j]
        <5>1. /\ Len(f[k - 1]) + j \in 1 .. Len(f[k])
              /\ ends[k - 1] + 1 + j - 1 = Len(f[k - 1]) + j
          BY <3>2, <4>1, <4>2, <4>3
        <5>2. f[m][Len(f[k - 1]) + j] = f[k][Len(f[k - 1]) + j]
          BY <3>1, <5>1
        <5>. QED
          BY <4>3, <5>1, <5>2
      <4>5. /\ ends[k - 1] + 1 \in Nat \ {0}
            /\ ends[k - 1] + 1 + Len(s[k]) - 1 <= Len(f[m])
        <5> DEFINE x == Len(f[k - 1])
                   l == Len(s[k])
                   n == Len(f[m])
        <5>1. x \in Nat /\ l \in Nat /\ n \in Nat /\ x + l <= n /\ ends[k - 1] = x
          BY <3>1, <3>2, <4>1, <4>2, <4>3
        <5> HIDE DEF x, l, n
        <5>2. x + 1 \in Nat \ {0} /\ x + 1 + l - 1 <= n
          BY <5>1
        <5>. QED
          BY <5>1, <5>2 DEF l, n
      <4>. QED
        BY <4>1, <4>3, <4>4, <4>5 DEF Holds
    <3>. QED
      BY <3>3, <3>4
  <2> HIDE DEF ends
  <2>7. Ends(ends, f[m], s, m)
    BY <2>5, <2>6 DEF Ends
  <2>. QED
    BY <2>1, <2>2, <2>3, <2>7
<1>. QED
  BY <1>1, <1>2

\* Both parts of what b has from at on
LEMMA HoldsParts ==
  ASSUME NEW S, NEW b, Len(b) \in Nat, NEW at, NEW s \in Seq(S), NEW t \in Seq(S), Holds(b, at, s \o t)
  PROVE  Holds(b, at, s) /\ Holds(b, at + Len(s), t)
<1>1. /\ Len(s \o t) = Len(s) + Len(t) /\ Len(s) \in Nat /\ Len(t) \in Nat
      /\ \A j \in 1 .. Len(s) : (s \o t)[j] = s[j]
      /\ \A j \in 1 .. Len(t) : (s \o t)[Len(s) + j] = t[j]
  BY Concatenation
<1> DEFINE u == s \o t
<1>2. Holds(b, at, u) /\ Len(u) = Len(s) + Len(t)
  BY <1>1
<1>3. ASSUME NEW j \in 1 .. Len(t) PROVE b[at + Len(s) + j - 1] = t[j]
  <2>1. u[Len(s) + j] = t[j]
    BY <1>1
  <2> HIDE DEF u
  <2>2. Len(s) + j \in 1 .. Len(u) /\ at + (Len(s) + j) - 1 = at + Len(s) + j - 1
    BY <1>1, <1>2 DEF Holds
  <2>. QED
    BY <1>2, <2>1, <2>2 DEF Holds
<1>4. ASSUME NEW j \in 1 .. Len(s) PROVE b[at + j - 1] = s[j]
  <2>1. u[j] = s[j]
    BY <1>1
  <2> HIDE DEF u
  <2>2. j \in 1 .. Len(u)
    BY <1>1, <1>2
  <2>. QED
    BY <1>2, <2>1, <2>2 DEF Holds
<1> HIDE DEF u
<1>. QED
  BY <1>1, <1>2, <1>3, <1>4 DEF Holds

\* Reader::take finds what is there.
LEMMA HoldsTaken ==
  ASSUME NEW S, NEW b \in Seq(S), NEW at, NEW s \in Seq(S), Holds(b, at, s)
  PROVE  Fits(b, at, Len(s)) /\ Taken(b, at, Len(s)) = s
<1>1. Fits(b, at, Len(s)) /\ at \in Nat \ {0} /\ Len(s) \in Nat
  BY DEF Holds, Fits
<1>2. /\ Taken(b, at, Len(s)) \in Seq(S) /\ Len(Taken(b, at, Len(s))) = Len(s)
      /\ \A i \in 1 .. Len(s) : Taken(b, at, Len(s))[i] = b[at + i - 1]
  BY <1>1, TakenFacts
<1> DEFINE t == Taken(b, at, Len(s))
<1> HIDE DEF t
<1>3. /\ t \in Seq(S) /\ Len(t) = Len(s)
      /\ \A i \in 1 .. Len(s) : t[i] = s[i]
  BY <1>2 DEF Holds, t
<1>4. t = [i \in 1 .. Len(s) |-> t[i]] /\ s = [i \in 1 .. Len(s) |-> s[i]]
  BY <1>3
<1>5. t = s
  BY <1>3, <1>4
<1>. QED
  BY <1>1, <1>5 DEF t

\* A byte that is there is read.
LEMMA HoldsOne ==
  ASSUME NEW b \in Seq(Byte), NEW at, NEW v, Holds(b, at, <<v>>)
  PROVE  Fits(b, at, 1) /\ b[at] = v /\ at \in Nat \ {0}
<1>1. Len(<<v>>) = 1 /\ <<v>>[1] = v /\ 1 \in 1 .. Len(<<v>>)
  OBVIOUS
<1>2. at \in Nat \ {0} /\ at + 1 - 1 = at
  BY DEF Holds
<1>3. b[at + 1 - 1] = <<v>>[1] /\ at + 1 - 1 <= Len(b)
  BY <1>1 DEF Holds
<1>. QED
  BY <1>1, <1>2, <1>3 DEF Fits

\* A number below Base is written as it is, in one byte.
LEMMA ByteValues ==
  ASSUME NEW n \in Nat, n < Base
  PROVE  n \in Byte /\ n % Base = n /\ <<n>> \in Seq(Byte)
<1>1. n \in Byte /\ n % Base = n
  BY CodecAssumption DEF Byte
<1>. QED
  BY <1>1

NameOK(n) == n \in Seq(Byte) /\ ~Has(n, NotUtf8) /\ NameError(n) = "none"

\* An EntryName's length fits its field.
LEMMA NameFits ==
  ASSUME NEW n, NameOK(n)
  PROVE  /\ Len(n) \in Nat \ {0} /\ Len(n) < Base /\ Field(n) = <<Len(n)>> \o n
         /\ <<Len(n)>> \in Seq(Byte) /\ Field(n) \in Seq(Byte) /\ Len(Field(n)) = Len(n) + 1
<1>1. n \in Seq(Byte) /\ Len(n) \in Nat /\ n # <<>> /\ Len(n) <= NameMax
  BY CodecAssumption DEF NameOK, NameError
<1>2. Len(n) # 0 /\ Len(n) < Base
  BY <1>1, CodecAssumption
<1>3. Len(n) % Base = Len(n) /\ <<Len(n)>> \in Seq(Byte)
  BY <1>1, <1>2, ByteValues
<1>4. Field(n) = <<Len(n)>> \o n
  BY <1>3 DEF Field
<1>5. Field(n) \in Seq(Byte) /\ Len(Field(n)) = Len(<<Len(n)>>) + Len(n)
  BY <1>1, <1>3, <1>4, Concatenation
<1>6. Len(<<Len(n)>>) = 1
  OBVIOUS
<1>. QED
  BY <1>1, <1>2, <1>3, <1>4, <1>5, <1>6

\* A name that was encoded is read as it was.
LEMMA NameBack ==
  ASSUME NEW b \in Seq(Byte), NEW at, NEW tag \in Byte, NEW n, NameOK(n),
         Holds(b, at, <<tag>> \o Field(n))
  PROVE  DecodeName(b, at) = [tag |-> tag, name |-> n, at |-> at + 2 + Len(n)]
<1>0. n \in Seq(Byte) /\ <<tag>> \in Seq(Byte) /\ Len(<<tag>>) = 1 /\ Len(b) \in Nat
  BY DEF NameOK
<1>1. /\ Len(n) \in Nat \ {0} /\ Field(n) = <<Len(n)>> \o n
      /\ <<Len(n)>> \in Seq(Byte) /\ Field(n) \in Seq(Byte) /\ Len(<<Len(n)>>) = 1
  BY NameFits
<1>2. Holds(b, at, <<tag>>) /\ Holds(b, at + 1, Field(n))
  BY <1>0, <1>1, HoldsParts
<1>3. Holds(b, at + 1, <<Len(n)>>) /\ Holds(b, at + 1 + 1, n)
  BY <1>0, <1>1, <1>2, HoldsParts
<1>4. /\ b[at] = tag /\ at \in Nat \ {0}
      /\ b[at + 1] = Len(n) /\ Fits(b, at + 1, 1)
  BY <1>2, <1>3, HoldsOne
<1>5. at + 1 + 1 = at + 2
  BY <1>4
<1>6. Fits(b, at + 2, Len(n)) /\ Taken(b, at + 2, Len(n)) = n
  BY <1>0, <1>3, <1>5, HoldsTaken
<1>7. Fits(b, at, 2)
  BY <1>4 DEF Fits
<1>. QED
  BY <1>4, <1>6, <1>7 DEF DecodeName, NameOK

\* A node that can be stored is a file, a directory or a link.
LEMMA StorableKinds ==
  ASSUME NEW node, StorableNode(node)
  PROVE  \/ \E d \in [1 .. DigestLen -> Byte], n \in Byte, x \in BOOLEAN : node = FileNode(d, n, x)
         \/ \E d \in [1 .. DigestLen -> Byte] : node = DirNode(d)
         \/ \E t \in Seq(Byte) : /\ node = SymlinkNode(t)
                                 /\ Len(t) \in 1 .. Base - 1 /\ ~Has(t, NotUtf8)
<1>1. CASE node \in [tag : {TagFile}, digest : [1 .. DigestLen -> Byte], size : Byte,
                     executable : BOOLEAN]
  BY <1>1 DEF FileNode
<1>2. CASE node \in [tag : {TagDir}, digest : [1 .. DigestLen -> Byte]]
  BY <1>2 DEF DirNode
<1>3. CASE node \in [tag : {TagSymlink}, target : Seq(Byte)]
  <2>1. node.target \in Seq(Byte) /\ node = SymlinkNode(node.target) /\ node.tag = TagSymlink
    BY <1>3 DEF SymlinkNode
  <2>2. Len(node.target) \in 1 .. Base - 1 /\ ~Has(node.target, NotUtf8)
    BY <2>1 DEF StorableNode
  <2>. QED
    BY <2>1, <2>2
<1>. QED
  BY <1>1, <1>2, <1>3 DEF StorableNode, NodeSet

\* A node that was encoded is read as it was.
LEMMA NodeBack ==
  ASSUME NEW node, StorableNode(node)
  PROVE  /\ node.tag \in Byte
         /\ EncodeNode(node) \in Seq(Byte)
         /\ \A b \in Seq(Byte) : \A at : Holds(b, at, EncodeNode(node)) =>
              DecodeNode(b, at, node.tag) = [node |-> node, at |-> at + Len(EncodeNode(node))]
<1>0. DigestLen \in Nat /\ Base \in Nat /\ Base > 4
  BY CodecAssumption
<1>1. ASSUME NEW d \in [1 .. DigestLen -> Byte], NEW n \in Byte, NEW x \in BOOLEAN,
             node = FileNode(d, n, x)
      PROVE  /\ node.tag \in Byte
             /\ EncodeNode(node) \in Seq(Byte)
             /\ \A b \in Seq(Byte) : \A at : Holds(b, at, EncodeNode(node)) =>
                  DecodeNode(b, at, node.tag) = [node |-> node, at |-> at + Len(EncodeNode(node))]
  <2> DEFINE flag == IF x THEN 1 ELSE 0
             tail == <<n, flag>>
  <2>1. /\ node.tag = TagFile /\ node.digest = d /\ node.size = n /\ node.executable = x
    BY <1>1 DEF FileNode
  <2>2. EncodeNode(node) = d \o tail
    BY <2>1 DEF EncodeNode
  <2>3. flag \in Byte /\ (flag % 2 = 1) = x
    BY <1>0 DEF Byte
  <2> HIDE DEF flag
  <2>4. tail \in Seq(Byte) /\ Len(tail) = 2 /\ tail[1] = n /\ tail[2] = flag
    BY <2>3
  <2>5. d \in Seq(Byte) /\ Len(d) = DigestLen
    BY <1>0
  <2> HIDE DEF tail
  <2>6. EncodeNode(node) \in Seq(Byte) /\ Len(EncodeNode(node)) = DigestLen + 2
    <3>1. d \o tail \in Seq(Byte) /\ Len(d \o tail) = Len(d) + Len(tail)
      BY <2>4, <2>5, Concatenation
    <3>. QED
      BY <2>2, <2>4, <2>5, <3>1
  <2>7. node.tag \in Byte
    BY <1>0, <2>1 DEF TagFile, Byte
  <2>8. ASSUME NEW b \in Seq(Byte), NEW at, Holds(b, at, EncodeNode(node))
        PROVE  DecodeNode(b, at, node.tag) = [node |-> node, at |-> at + Len(EncodeNode(node))]
    <3>0. Len(b) \in Nat /\ at \in Nat \ {0}
      BY <2>8 DEF Holds
    <3>1. Holds(b, at, d) /\ Holds(b, at + DigestLen, tail)
      BY <2>2, <2>4, <2>5, <2>8, <3>0, HoldsParts
    <3>2. Taken(b, at, DigestLen) = d
      BY <2>5, <3>1, HoldsTaken
    <3>3. b[at + DigestLen] = n /\ b[at + DigestLen + 1] = flag /\ Fits(b, at, DigestLen + 2)
      <4>1. 1 \in 1 .. Len(tail) /\ 2 \in 1 .. Len(tail)
        BY <2>4
      <4>2. b[at + DigestLen + 1 - 1] = n /\ b[at + DigestLen + 2 - 1] = flag
            /\ at + DigestLen + 2 - 1 <= Len(b)
        BY <2>4, <3>1, <4>1 DEF Holds
      <4>3. /\ at + DigestLen + 1 - 1 = at + DigestLen
            /\ at + DigestLen + 2 - 1 = at + DigestLen + 1
            /\ at + (DigestLen + 2) - 1 = at + DigestLen + 2 - 1
        BY <1>0, <3>0
      <4>. QED
        BY <4>2, <4>3 DEF Fits
    <3>4. DecodeNode(b, at, TagFile) = [node |-> FileNode(d, n, flag % 2 = 1),
                                        at |-> at + DigestLen + 2]
      BY <3>2, <3>3 DEF DecodeNode
    <3>5. at + Len(EncodeNode(node)) = at + DigestLen + 2
      BY <1>0, <2>6, <3>0
    <3>. QED
      BY <1>1, <2>1, <2>3, <3>4, <3>5
  <2>. QED
    BY <2>6, <2>7, <2>8
<1>2. ASSUME NEW d \in [1 .. DigestLen -> Byte], node = DirNode(d)
      PROVE  /\ node.tag \in Byte
             /\ EncodeNode(node) \in Seq(Byte)
             /\ \A b \in Seq(Byte) : \A at : Holds(b, at, EncodeNode(node)) =>
                  DecodeNode(b, at, node.tag) = [node |-> node, at |-> at + Len(EncodeNode(node))]
  <2>1. node.tag = TagDir /\ node.digest = d
    BY <1>2 DEF DirNode
  <2>2. EncodeNode(node) = d
    BY <2>1 DEF EncodeNode, TagFile, TagDir
  <2>3. d \in Seq(Byte) /\ Len(d) = DigestLen
    BY <1>0
  <2>4. node.tag \in Byte
    BY <1>0, <2>1 DEF TagDir, Byte
  <2>5. ASSUME NEW b \in Seq(Byte), NEW at, Holds(b, at, EncodeNode(node))
        PROVE  DecodeNode(b, at, node.tag) = [node |-> node, at |-> at + Len(EncodeNode(node))]
    <3>1. Fits(b, at, DigestLen) /\ Taken(b, at, DigestLen) = d
      BY <2>2, <2>3, <2>5, HoldsTaken
    <3>2. DecodeNode(b, at, TagDir) = [node |-> DirNode(d), at |-> at + DigestLen]
      BY <3>1 DEF DecodeNode, TagFile, TagDir
    <3>. QED
      BY <1>2, <2>1, <2>2, <2>3, <3>2
  <2>. QED
    BY <2>2, <2>3, <2>4, <2>5
<1>3. ASSUME NEW t \in Seq(Byte), node = SymlinkNode(t), Len(t) \in 1 .. Base - 1,
             ~Has(t, NotUtf8)
      PROVE  /\ node.tag \in Byte
             /\ EncodeNode(node) \in Seq(Byte)
             /\ \A b \in Seq(Byte) : \A at : Holds(b, at, EncodeNode(node)) =>
                  DecodeNode(b, at, node.tag) = [node |-> node, at |-> at + Len(EncodeNode(node))]
  <2>1. node.tag = TagSymlink /\ node.target = t
    BY <1>3 DEF SymlinkNode
  <2>2. Len(t) \in Nat /\ Len(t) < Base /\ Len(t) # 0
    BY <1>0, <1>3
  <2>3. Len(t) % Base = Len(t) /\ <<Len(t)>> \in Seq(Byte) /\ Len(<<Len(t)>>) = 1
    BY <2>2, ByteValues
  <2>4. EncodeNode(node) = <<Len(t)>> \o t
    BY <2>1, <2>3 DEF EncodeNode, Field, TagFile, TagDir, TagSymlink
  <2>5. EncodeNode(node) \in Seq(Byte) /\ Len(EncodeNode(node)) = 1 + Len(t)
    BY <2>3, <2>4, Concatenation
  <2>6. node.tag \in Byte
    BY <1>0, <2>1 DEF TagSymlink, Byte
  <2>7. ASSUME NEW b \in Seq(Byte), NEW at, Holds(b, at, EncodeNode(node))
        PROVE  DecodeNode(b, at, node.tag) = [node |-> node, at |-> at + Len(EncodeNode(node))]
    <3>0. Len(b) \in Nat
      OBVIOUS
    <3>1. Holds(b, at, <<Len(t)>>) /\ Holds(b, at + 1, t)
      BY <2>3, <2>4, <2>7, <3>0, HoldsParts
    <3>2. Fits(b, at, 1) /\ b[at] = Len(t) /\ at \in Nat \ {0}
      BY <3>1, HoldsOne
    <3>3. Fits(b, at + 1, Len(t)) /\ Taken(b, at + 1, Len(t)) = t
      BY <3>1, HoldsTaken
    <3>4. DecodeNode(b, at, TagSymlink) = [node |-> SymlinkNode(t), at |-> at + 1 + Len(t)]
      BY <1>3, <2>2, <3>2, <3>3 DEF DecodeNode, TagFile, TagDir, TagSymlink
    <3>5. at + Len(EncodeNode(node)) = at + 1 + Len(t)
      BY <2>2, <2>5, <3>2
    <3>. QED
      BY <1>3, <2>1, <3>4, <3>5
  <2>. QED
    BY <2>5, <2>6, <2>7
<1>. QED
  BY <1>1, <1>2, <1>3, StorableKinds

\* The tree t with one more entry
With(t, n, node) == [m \in DOMAIN t \cup {n} |-> IF m = n THEN node ELSE t[m]]

\* Wherever the bytes e are, they are read as the entry n of node.
ReadAs(e, n, node) ==
    \A b \in Seq(Byte) : \A s :
      Ok(s) /\ Holds(b, s.at, e) /\ n \notin DOMAIN s.tree =>
        DecodeEntry(b, s) = [at |-> s.at + Len(e), tree |-> With(s.tree, n, node)]

\* An entry that was encoded is read as it was.
LEMMA EntryBack ==
  ASSUME NEW n, NameOK(n), NEW node, StorableNode(node)
  PROVE  /\ EncodeEntry(n, node) \in Seq(Byte) /\ Len(EncodeEntry(n, node)) \in Nat \ {0}
         /\ ReadAs(EncodeEntry(n, node), n, node)
<1> DEFINE front == <<node.tag>> \o Field(n)
           back == EncodeNode(node)
           e == EncodeEntry(n, node)
<1>1. /\ node.tag \in Byte /\ back \in Seq(Byte)
      /\ \A b \in Seq(Byte) : \A at : Holds(b, at, back) =>
           DecodeNode(b, at, node.tag) = [node |-> node, at |-> at + Len(back)]
  BY NodeBack
<1>2. /\ Len(n) \in Nat \ {0} /\ Field(n) \in Seq(Byte) /\ Len(Field(n)) = Len(n) + 1
  BY NameFits
<1>3. front \in Seq(Byte) /\ Len(front) = Len(n) + 2
  <2>1. <<node.tag>> \in Seq(Byte) /\ Len(<<node.tag>>) = 1
    BY <1>1
  <2>2. front \in Seq(Byte) /\ Len(front) = 1 + Len(Field(n))
    BY <1>2, <2>1, Concatenation
  <2> HIDE DEF front
  <2>. QED
    BY <1>2, <2>2
<1>4. e = front \o back
  BY DEF EncodeEntry
<1> HIDE DEF back, e
<1>5. e \in Seq(Byte) /\ Len(e) = Len(n) + 2 + Len(back) /\ Len(back) \in Nat
  <2> HIDE DEF front
  <2>1. /\ front \o back \in Seq(Byte) /\ Len(front \o back) = Len(front) + Len(back)
        /\ Len(back) \in Nat
    BY <1>1, <1>3, Concatenation
  <2>. QED
    BY <1>3, <1>4, <2>1
<1>6. ASSUME NEW b \in Seq(Byte), NEW s, Ok(s), Holds(b, s.at, e), n \notin DOMAIN s.tree
      PROVE  DecodeEntry(b, s) = [at |-> s.at + Len(e), tree |-> With(s.tree, n, node)]
  <2>1. Len(b) \in Nat /\ s.at \in Nat \ {0}
    BY <1>6 DEF Holds
  <2>2. Holds(b, s.at, front) /\ Holds(b, s.at + Len(front), back)
    <3> HIDE DEF front
    <3>. QED
      BY <1>1, <1>3, <1>4, <1>6, <2>1, HoldsParts
  <2> DEFINE head == DecodeName(b, s.at)
             body == DecodeNode(b, head.at, head.tag)
  <2>3. head = [tag |-> node.tag, name |-> n, at |-> s.at + 2 + Len(n)]
    BY <1>1, <2>2, NameBack
  <2> HIDE DEF head
  <2>4. Ok(head) /\ head.tag = node.tag /\ head.name = n /\ head.at = s.at + Len(front)
    <3> DEFINE at == s.at
               l == Len(front)
    <3>1. at \in Nat /\ l = Len(n) + 2
      BY <1>3, <2>1
    <3> HIDE DEF at, l, front
    <3>2. at + 2 + Len(n) = at + l
      BY <1>2, <3>1
    <3>. QED
      BY <2>3, <3>2 DEF Ok, at, l
  <2>5. body = [node |-> node, at |-> s.at + Len(front) + Len(back)]
    <3> HIDE DEF front
    <3>. QED
      BY <1>1, <2>2, <2>4
  <2> HIDE DEF body
  <2>6. Ok(body) /\ body.node = node /\ body.at = s.at + Len(e)
    <3> DEFINE at == s.at
               l == Len(front)
    <3>1. at \in Nat /\ l = Len(n) + 2
      BY <1>3, <2>1
    <3> HIDE DEF at, l, front
    <3>2. at + l + Len(back) = at + Len(e)
      BY <1>2, <1>5, <3>1
    <3>. QED
      BY <2>5, <3>2 DEF Ok, at, l
  <2>7. DecodeEntry(b, s) =
          [at |-> body.at, tree |-> With(s.tree, head.name, body.node)]
    <3>1. Ok(s) /\ Ok(head) /\ Ok(body) /\ head.name \notin DOMAIN s.tree
      BY <1>6, <2>4, <2>6
    <3>. QED
      BY <3>1 DEF DecodeEntry, With, head, body
  <2>. QED
    BY <2>4, <2>6, <2>7
<1>7. ReadAs(e, n, node) /\ Len(e) \in Nat \ {0}
  BY <1>2, <1>5, <1>6 DEF ReadAs
<1>. QED
  BY <1>5, <1>7 DEF e

\* The entries of a tree's manifest
EntriesOf(tree) ==
    [i \in 1 .. Cardinality(DOMAIN tree) |-> EncodeEntry(Names(tree)[i], tree[Names(tree)[i]])]

\* A manifest is its header and, from there on, its entries.
LEMMA EncodeShape ==
  ASSUME NEW tree, Storable(tree)
  PROVE  LET c == Cardinality(DOMAIN tree)
             b == Encode(tree)
         IN  /\ b \in Seq(Byte) /\ b[1] = Version /\ b[2] = c
             /\ \E ends : /\ ends \in [0 .. c -> Nat] /\ ends[0] = 0 /\ Len(b) = ends[c] + 2
                          /\ \A k \in 1 .. c :
                               /\ ends[k] = ends[k - 1] + Len(EntriesOf(tree)[k])
                               /\ Holds(b, ends[k - 1] + 3, EntriesOf(tree)[k])
<1> DEFINE c == Cardinality(DOMAIN tree)
           e == EntriesOf(tree)
           front == <<Version, c>>
           back == FlattenSeq(e)
           b == Encode(tree)
<1>1. c \in Nat /\ c < Base /\ Names(tree) \in [1 .. c -> DOMAIN tree]
  BY NamesFacts DEF Storable
<1>2. \A i \in 1 .. c : EncodeEntry(Names(tree)[i], tree[Names(tree)[i]]) \in Seq(Byte)
  <2>1. ASSUME NEW i \in 1 .. c
        PROVE  EncodeEntry(Names(tree)[i], tree[Names(tree)[i]]) \in Seq(Byte)
    <3>1. Names(tree)[i] \in DOMAIN tree
      BY <1>1
    <3>2. NameOK(Names(tree)[i]) /\ StorableNode(tree[Names(tree)[i]])
      BY <3>1 DEF Storable, NameOK
    <3>. QED
      BY <3>2, EntryBack
  <2>. QED
    BY <2>1
<1>3. e \in [1 .. c -> Seq(Byte)]
  BY <1>2 DEF EntriesOf
<1>4. Len(Names(tree)) = c /\ DOMAIN Names(tree) = 1 .. c
  <2>1. Names(tree) \in Seq(DOMAIN tree)
    BY <1>1
  <2>. QED
    BY <1>1, <2>1
<1>5. c % Base = c /\ c \in Byte /\ Version \in Byte
  BY <1>1, ByteValues, CodecAssumption DEF Version, Byte
<1>6. b = front \o back
  BY <1>4, <1>5 DEF Encode, EntriesOf
<1>7. front \in Seq(Byte) /\ Len(front) = 2 /\ front[1] = Version /\ front[2] = c
  BY <1>5
<1> HIDE DEF c, e, front, b
<1>8. back \in Seq(Byte) /\ \E ends : Ends(ends, back, e, c)
  BY <1>1, <1>3, Flattened
<1> HIDE DEF back
<1>9. PICK ends : Ends(ends, back, e, c)
  BY <1>8
<1>10. /\ b \in Seq(Byte) /\ Len(b) = 2 + Len(back) /\ Len(back) \in Nat
       /\ b[1] = Version /\ b[2] = c
       /\ \A j \in 1 .. Len(back) : b[2 + j] = back[j]
  <2>1. /\ front \o back \in Seq(Byte) /\ Len(front \o back) = Len(front) + Len(back)
        /\ Len(back) \in Nat
        /\ \A j \in 1 .. Len(front) : (front \o back)[j] = front[j]
        /\ \A j \in 1 .. Len(back) : (front \o back)[Len(front) + j] = back[j]
    BY <1>7, <1>8, Concatenation
  <2>2. 1 \in 1 .. Len(front) /\ 2 \in 1 .. Len(front)
    BY <1>7
  <2>. QED
    BY <1>6, <1>7, <2>1, <2>2
<1>11. ends \in [0 .. c -> Nat] /\ ends[0] = 0 /\ Len(b) = ends[c] + 2
  BY <1>9, <1>10 DEF Ends
<1>12. ASSUME NEW k \in 1 .. c
       PROVE  ends[k] = ends[k - 1] + Len(e[k]) /\ Holds(b, ends[k - 1] + 3, e[k])
  <2>1. ends[k] = ends[k - 1] + Len(e[k]) /\ Holds(back, ends[k - 1] + 1, e[k])
    BY <1>9 DEF Ends
  <2>2. e[k] \in Seq(Byte) /\ Len(e[k]) \in Nat /\ ends[k - 1] \in Nat
    <3>1. k - 1 \in 0 .. c
      BY <1>1
    <3>2. e[k] \in Seq(Byte)
      BY <1>3
    <3>. QED
      BY <1>11, <3>1, <3>2
  <2>3. ends[k - 1] + 1 + Len(e[k]) - 1 <= Len(back)
    BY <2>1 DEF Holds
  <2>4. ASSUME NEW j \in 1 .. Len(e[k]) PROVE b[ends[k - 1] + 3 + j - 1] = e[k][j]
    <3>1. back[ends[k - 1] + 1 + j - 1] = e[k][j]
      BY <2>1 DEF Holds
    <3>2. /\ ends[k - 1] + 1 + j - 1 \in 1 .. Len(back)
          /\ 2 + (ends[k - 1] + 1 + j - 1) = ends[k - 1] + 3 + j - 1
      <4> DEFINE x == ends[k - 1]
                 l == Len(e[k])
      <4>1. x \in Nat /\ l \in Nat /\ x + 1 + l - 1 <= Len(back) /\ j \in 1 .. l
        BY <2>2, <2>3
      <4> HIDE DEF x, l
      <4>2. x + 1 + j - 1 \in 1 .. Len(back) /\ 2 + (x + 1 + j - 1) = x + 3 + j - 1
        BY <1>10, <4>1
      <4>. QED
        BY <4>2 DEF x
    <3>. QED
      BY <1>10, <3>1, <3>2
  <2>5. /\ ends[k - 1] + 3 \in Nat \ {0}
        /\ ends[k - 1] + 3 + Len(e[k]) - 1 <= Len(b)
    <3> DEFINE x == ends[k - 1]
               l == Len(e[k])
    <3>1. x \in Nat /\ l \in Nat /\ x + 1 + l - 1 <= Len(back)
      BY <2>2, <2>3
    <3> HIDE DEF x, l
    <3>2. x + 3 \in Nat \ {0} /\ x + 3 + l - 1 <= Len(b)
      BY <1>10, <3>1
    <3>. QED
      BY <3>2 DEF x, l
  <2>. QED
    BY <2>1, <2>4, <2>5 DEF Holds
<1>. QED
  BY <1>10, <1>11, <1>12 DEF b, c, e

\* The first k entries of a tree
Part(tree, k) == [n \in {Names(tree)[i] : i \in 1 .. k} |-> tree[n]]

\* A tree comes back entry by entry.
LEMMA TreeBack ==
  ASSUME NEW tree, Storable(tree)
  PROVE  Decode(Encode(tree)) = [tree |-> tree]
<1> DEFINE c == Cardinality(DOMAIN tree)
           b == Encode(tree)
           N == Names(tree)
           e == EntriesOf(tree)
<1>1. /\ c \in Nat /\ N \in [1 .. c -> DOMAIN tree]
      /\ \A i, j \in 1 .. c : N[i] = N[j] => i = j
      /\ \A n \in DOMAIN tree : \E i \in 1 .. c : N[i] = n
  BY NamesFacts
<1>2. b \in Seq(Byte) /\ b[1] = Version /\ b[2] = c /\ Len(b) \in Nat
  BY EncodeShape
<1>3. PICK ends : /\ ends \in [0 .. c -> Nat] /\ ends[0] = 0 /\ Len(b) = ends[c] + 2
                  /\ \A k \in 1 .. c : /\ ends[k] = ends[k - 1] + Len(e[k])
                                       /\ Holds(b, ends[k - 1] + 3, e[k])
  BY EncodeShape
<1>4. \A k \in 1 .. c : e[k] = EncodeEntry(N[k], tree[N[k]])
  BY DEF EntriesOf
<1>5. \A k \in 1 .. c : NameOK(N[k]) /\ StorableNode(tree[N[k]])
  BY <1>1 DEF Storable, NameOK
<1>6. PICK f : Reading(f, b, c) /\ DecodeEntries(b, c) = f[c]
  BY <1>1, LoopIs
<1>7. \A k \in 0 .. c : Part(tree, k) = [n \in {N[i] : i \in 1 .. k} |-> tree[n]]
  BY DEF Part
<1> HIDE DEF c, b, N, e
<1> DEFINE Good(k) == f[k] = [at |-> ends[k] + 3, tree |-> Part(tree, k)] /\ k <= ends[k]
           Bad == {k \in 0 .. c : ~Good(k)}
<1>8. Good(0)
  <2>1. f[0] = Start
    BY <1>1, <1>6 DEF Reading
  <2>2. {N[i] : i \in 1 .. 0} = {}
    OBVIOUS
  <2>3. Part(tree, 0) = [n \in {} |-> <<>>]
    <3>0. 0 \in 0 .. c
      BY <1>1
    <3>1. Part(tree, 0) = [n \in {} |-> tree[n]]
      BY <1>7, <2>2, <3>0
    <3>. QED
      BY <3>1
  <2>. QED
    BY <1>3, <2>1, <2>3 DEF Start
<1>9. ASSUME NEW k \in 1 .. c, Good(k - 1) PROVE Good(k)
  <2> DEFINE s == f[k - 1]
             S == {N[i] : i \in 1 .. (k - 1)}
             T == {N[i] : i \in 1 .. k}
             new == [m \in S \cup {N[k]} |-> IF m = N[k] THEN tree[N[k]] ELSE Part(tree, k - 1)[m]]
  <2>1. k - 1 \in 0 .. c /\ k \in 0 .. c /\ ends[k - 1] \in Nat /\ k - 1 \in Nat
    BY <1>1, <1>3
  <2>2. Part(tree, k - 1) = [n \in S |-> tree[n]] /\ Part(tree, k) = [n \in T |-> tree[n]]
    BY <1>7, <2>1
  <2>3. T = S \cup {N[k]}
    <3>1. 1 .. k = (1 .. (k - 1)) \cup {k}
      BY <2>1
    <3>. QED
      BY <3>1
  <2>4. N[k] \notin S
    <3>1. ASSUME NEW i \in 1 .. (k - 1), N[i] = N[k] PROVE FALSE
      <4>1. i \in 1 .. c /\ i # k
        BY <1>1
      <4>. QED
        BY <1>1, <3>1, <4>1
    <3>. QED
      BY <3>1
  <2> HIDE DEF S, T
  <2>5. Ok(s) /\ s.at = ends[k - 1] + 3 /\ s.tree = Part(tree, k - 1) /\ DOMAIN s.tree = S
    <3>1. s = [at |-> ends[k - 1] + 3, tree |-> Part(tree, k - 1)]
      BY <1>9
    <3> HIDE DEF s
    <3>. QED
      BY <2>2, <3>1 DEF Ok
  <2>6. f[k] = DecodeEntry(b, s)
    BY <1>6, <2>1 DEF Reading
  <2> HIDE DEF s
  <2>7. /\ e[k] \in Seq(Byte) /\ Len(e[k]) \in Nat \ {0}
        /\ DecodeEntry(b, s) = [at |-> s.at + Len(e[k]), tree |-> With(s.tree, N[k], tree[N[k]])]
    <3>1. NameOK(N[k]) /\ StorableNode(tree[N[k]]) /\ e[k] = EncodeEntry(N[k], tree[N[k]])
      BY <1>4, <1>5
    <3>2. Ok(s) /\ Holds(b, s.at, e[k]) /\ N[k] \notin DOMAIN s.tree
      BY <1>3, <2>4, <2>5
    <3>3. e[k] \in Seq(Byte) /\ Len(e[k]) \in Nat \ {0} /\ ReadAs(e[k], N[k], tree[N[k]])
      BY <3>1, EntryBack
    <3>. QED
      BY <1>2, <3>2, <3>3 DEF ReadAs
  <2>8. new = Part(tree, k)
    <3>1. ASSUME NEW m \in T PROVE new[m] = tree[m]
      BY <2>2, <2>3, <3>1
    <3>2. new = [m \in T |-> new[m]]
      BY <2>3
    <3> HIDE DEF new
    <3>. QED
      BY <2>2, <3>1, <3>2
  <2>9. DecodeEntry(b, s) = [at |-> s.at + Len(e[k]), tree |-> new]
    BY <2>5, <2>7 DEF With
  <2> HIDE DEF new
  <2>10. s.at + Len(e[k]) = ends[k] + 3 /\ k <= ends[k]
    <3> DEFINE x == ends[k - 1]
               y == ends[k]
               l == Len(e[k])
    <3>1. x \in Nat /\ l \in Nat \ {0} /\ y = x + l /\ k - 1 <= x
      BY <1>3, <1>9, <2>1, <2>7
    <3>2. k \in Nat
      BY <1>1
    <3> HIDE DEF x, y, l
    <3>3. x + 3 + l = y + 3 /\ k <= y
      BY <3>1, <3>2
    <3>. QED
      BY <2>5, <3>3 DEF x, y, l
  <2>. QED
    BY <2>6, <2>8, <2>9, <2>10
<1>10. Bad = {}
  <2> SUFFICES ASSUME Bad # {} PROVE FALSE
    OBVIOUS
  <2>1. Bad \in SUBSET Nat /\ Bad \subseteq 0 .. c
    BY <1>1
  <2>2. PICK k \in Bad : \A i \in Bad : k <= i
    <3> HIDE DEF Bad
    <3>. QED
      BY <2>1, Least
  <2>3. k \in 0 .. c /\ ~Good(k)
    OBVIOUS
  <2> HIDE DEF Good
  <2>4. k \in 1 .. c /\ k - 1 \in 0 .. c /\ ~(k <= k - 1)
    BY <1>1, <1>8, <2>3
  <2>5. Good(k - 1)
    BY <2>2, <2>4
  <2>. QED
    BY <1>9, <2>3, <2>4, <2>5
<1>11. Good(c)
  <2>1. c \in 0 .. c
    BY <1>1
  <2> HIDE DEF Good
  <2>. QED
    BY <1>10, <2>1
<1>12. Part(tree, c) = tree
  <2>1. {N[i] : i \in 1 .. c} = DOMAIN tree
    <3>1. \A i \in 1 .. c : N[i] \in DOMAIN tree
      BY <1>1
    <3>2. \A n \in DOMAIN tree : n \in {N[i] : i \in 1 .. c}
      BY <1>1
    <3>. QED
      BY <3>1, <3>2
  <2>2. tree = [n \in DOMAIN tree |-> tree[n]]
    BY DEF Storable
  <2>3. c \in 0 .. c
    BY <1>1
  <2>. QED
    BY <1>7, <2>1, <2>2, <2>3
<1>13. DecodeEntries(b, b[2]) = [at |-> Len(b) + 1, tree |-> tree] /\ b[2] <= Len(b) - 2
  <2>1. ends[c] \in Nat /\ ends[c] + 3 = Len(b) + 1 /\ c <= Len(b) - 2
    BY <1>1, <1>3, <1>11
  <2>. QED
    BY <1>2, <1>6, <1>11, <1>12, <2>1
<1>14. Fits(b, 1, 1) /\ Fits(b, 2, 1) /\ ~(b[2] > Len(b) - 2)
  BY <1>1, <1>2, <1>13 DEF Fits
<1>15. Decode(b) = [tree |-> tree]
  <2> DEFINE r == DecodeEntries(b, b[2])
  <2>1. Ok(r) /\ r.at = Len(b) + 1 /\ r.tree = tree
    BY <1>13 DEF Ok
  <2>2. Decode(b) = IF ~Ok(r) THEN r
                    ELSE IF r.at # Len(b) + 1 THEN Err("TrailingBytes")
                    ELSE [tree |-> r.tree]
    BY <1>2, <1>14 DEF Decode
  <2> HIDE DEF r
  <2>. QED
    BY <2>1, <2>2
<1>. QED
  BY <1>15 DEF b

\* Tree::encode gives no two trees the same bytes ("no pair of distinct trees can
\* encode to the same bytes", tree.rs:200-201).
THEOREM EncodeInjective ==
  ASSUME NEW tree, Storable(tree), NEW other, Storable(other), Encode(tree) = Encode(other)
  PROVE  tree = other
<1> DEFINE r == [tree |-> tree]
           q == [tree |-> other]
<1>1. r = q
  BY TreeBack
<1>2. r.tree = tree /\ q.tree = other
  OBVIOUS
<1> HIDE DEF r, q
<1>. QED
  BY <1>1, <1>2

\* get_tree gives every tree back that was put, of any size.
LEMMA AllComeBack ==
  ASSUME NEW tree
  PROVE  ComesBack(tree)
<1> SUFFICES ASSUME Storable(tree)
             PROVE  GetTree(Encode(tree), Encode(tree)) = [tree |-> tree]
  BY DEF ComesBack
<1> DEFINE r == Decode(Encode(tree))
<1>1. r = [tree |-> tree]
  BY TreeBack
<1>2. Ok(r) /\ r.tree = tree
  BY <1>1 DEF Ok
<1>3. GetTree(Encode(tree), Encode(tree)) =
        IF ~Ok(r) THEN r ELSE IF Encode(r.tree) # Encode(tree) THEN Err("Corrupt") ELSE r
  BY DEF GetTree
<1> HIDE DEF r
<1>. QED
  BY <1>1, <1>2, <1>3

\* Whatever the bytes of its object have become, get_tree gives no other tree.
LEMMA NoOtherTree ==
  ASSUME NEW tree, Storable(tree), NEW b \in Seq(Byte)
  PROVE  NeverAnother(tree, b)
<1> DEFINE r == Decode(b)
           got == GetTree(Encode(tree), b)
<1> SUFFICES ASSUME Ok(got) PROVE got = [tree |-> tree]
  BY DEF NeverAnother
<1>1. got = IF ~Ok(r) THEN r ELSE IF Encode(r.tree) # Encode(tree) THEN Err("Corrupt") ELSE r
  BY DEF GetTree
<1> HIDE DEF got
<1>2. Ok(r) /\ Encode(r.tree) = Encode(tree) /\ got = r
  <2> HIDE DEF r
  <2>. QED
    BY <1>1, ErrNotOk
<1>3. Storable(r.tree) /\ r = [tree |-> r.tree]
  BY <1>2, DecodedStorable
<1> HIDE DEF r
<1>4. r.tree = tree
  BY <1>2, <1>3, EncodeInjective
<1>. QED
  BY <1>2, <1>3, <1>4

\* A damaged manifest is still a string of bytes.
LEMMA DamagedBytes ==
  ASSUME NEW b \in Seq(Byte), NEW c \in Damaged(b)
  PROVE  c \in Seq(Byte)
<1>1. CASE c = b
  BY <1>1
<1>2. ASSUME NEW i \in DOMAIN b, NEW v \in Byte, c = [b EXCEPT ![i] = v] PROVE c \in Seq(Byte)
  BY <1>2
<1>3. ASSUME NEW i \in DOMAIN b, c = RemoveAt(b, i) PROVE c \in Seq(Byte)
  <2>1. i \in 1 .. Len(b) /\ Len(b) \in Nat
    OBVIOUS
  <2>2. SubSeq(b, 1, i - 1) \in Seq(Byte) /\ SubSeq(b, i + 1, Len(b)) \in Seq(Byte)
    BY <2>1
  <2>. QED
    BY <1>3, <2>2, Concatenation DEF RemoveAt
<1>. QED
  BY <1>1, <1>2, <1>3 DEF Damaged

\* For trees of any number of entries, names and targets of any length, and
\* manifests of any bytes: trees come back as they were put, damage is found, and
\* no name leaves its directory.
THEOREM ManifestsAreSafe ==
  ASSUME Is("tree") => Storable(sample.tree),
         Is("manifest") => sample.bytes \in Seq(Byte)
  PROVE  ManifestsSafe
<1>1. TreesComeBack
  BY AllComeBack DEF TreesComeBack
<1>2. DamageFound
  <2> SUFFICES ASSUME Is("tree"), NEW b \in Damaged(Encode(sample.tree))
               PROVE  NeverAnother(sample.tree, b)
    BY DEF DamageFound
  <2>1. Storable(sample.tree)
    OBVIOUS
  <2>2. Encode(sample.tree) \in Seq(Byte)
    BY <2>1, EncodeShape
  <2>3. b \in Seq(Byte)
    BY <2>2, DamagedBytes
  <2>. QED
    BY <2>1, <2>3, NoOtherTree
<1>3. DecodedNamesStayInside
  BY AllStayInside DEF DecodedNamesStayInside
<1>. QED
  BY <1>1, <1>2, <1>3 DEF ManifestsSafe

(***************************************************************************)
(* Composite keys (digest.rs, Hasher::update_framed)                       *)
(***************************************************************************)

\* ends[k] is where the k-th field ends in the bytes b that are hashed
Framing(ends, b, fields) ==
    /\ ends \in [0 .. Len(fields) -> Nat] /\ ends[0] = 0 /\ ends[Len(fields)] = Len(b)
    /\ \A k \in 1 .. Len(fields) :
         /\ ends[k] = ends[k - 1] + 1 + Len(fields[k])
         /\ b[ends[k - 1] + 1] = Len(fields[k])
         /\ Holds(b, ends[k - 1] + 2, fields[k])

\* Every field is hashed behind its length, and nothing else is.
LEMMA FramedShape ==
  ASSUME NEW fields \in Seq(Seq(Nat))
  PROVE  Framed(fields) \in Seq(Nat) /\ \E ends : Framing(ends, Framed(fields), fields)
<1> DEFINE m == Len(fields)
           s == [i \in 1 .. m |-> <<Len(fields[i])>> \o fields[i]]
           b == FlattenSeq(s)
<1>1. m \in Nat /\ DOMAIN fields = 1 .. m /\ \A i \in 1 .. m : fields[i] \in Seq(Nat)
  OBVIOUS
<1>2. Framed(fields) = b
  BY <1>1 DEF Framed
<1>3. ASSUME NEW i \in 1 .. m
      PROVE  /\ Len(fields[i]) \in Nat /\ <<Len(fields[i])>> \in Seq(Nat) /\ Len(<<Len(fields[i])>>) = 1
             /\ <<Len(fields[i])>> \o fields[i] \in Seq(Nat)
             /\ Len(<<Len(fields[i])>> \o fields[i]) = 1 + Len(fields[i])
  <2>1. fields[i] \in Seq(Nat)
    BY <1>1
  <2>2. Len(fields[i]) \in Nat
    BY <2>1
  <2>3. <<Len(fields[i])>> \in Seq(Nat) /\ Len(<<Len(fields[i])>>) = 1
    BY <2>2
  <2>. QED
    BY <2>1, <2>2, <2>3, Concatenation
<1> HIDE DEF m
<1>4. s \in [1 .. m -> Seq(Nat)]
  BY <1>3
<1>5. \A i \in 1 .. m : s[i] = <<Len(fields[i])>> \o fields[i]
  OBVIOUS
<1> HIDE DEF s
<1>6. b \in Seq(Nat) /\ \E ends : Ends(ends, b, s, m)
  BY <1>1, <1>4, Flattened
<1> HIDE DEF b
<1>7. PICK ends : Ends(ends, b, s, m)
  BY <1>6
<1>8. ASSUME NEW k \in 1 .. m
      PROVE  /\ ends[k] = ends[k - 1] + 1 + Len(fields[k])
             /\ b[ends[k - 1] + 1] = Len(fields[k])
             /\ Holds(b, ends[k - 1] + 2, fields[k])
  <2> DEFINE x == ends[k - 1]
             l == Len(fields[k])
  <2>1. x \in Nat /\ l \in Nat
    <3>1. k - 1 \in 0 .. m
      BY <1>1
    <3>. QED
      BY <1>3, <1>7, <3>1 DEF Ends
  <2>2. ends[k] = x + Len(s[k]) /\ Holds(b, x + 1, s[k]) /\ Len(s[k]) = 1 + l
    BY <1>3, <1>5, <1>7 DEF Ends
  <2>3. Holds(b, x + 1, <<l>>) /\ Holds(b, x + 1 + 1, fields[k])
    <3>1. Len(b) \in Nat
      BY <1>6
    <3>2. /\ <<l>> \in Seq(Nat) /\ fields[k] \in Seq(Nat) /\ Len(<<l>>) = 1
          /\ Holds(b, x + 1, <<l>> \o fields[k])
      BY <1>1, <1>3, <1>5, <2>2
    <3> HIDE DEF x, l
    <3>. QED
      BY <3>1, <3>2, HoldsParts
  <2> HIDE DEF x, l
  <2>4. x + 1 + 1 = x + 2 /\ x + 1 + 1 - 1 = x + 1 /\ x + (1 + l) = x + 1 + l
    BY <2>1
  <2>5. b[x + 1 + 1 - 1] = l
    <3>1. Len(<<l>>) = 1 /\ 1 \in 1 .. Len(<<l>>) /\ <<l>>[1] = l
      OBVIOUS
    <3>. QED
      BY <2>3, <3>1 DEF Holds
  <2>. QED
    BY <2>2, <2>3, <2>4, <2>5 DEF x, l
<1>9. Framing(ends, b, fields)
  BY <1>7, <1>8 DEF Framing, Ends, m
<1>. QED
  BY <1>2, <1>6, <1>9

\* The fields can be read off the bytes, one after the other.
LEMMA FramesShorter ==
  ASSUME NEW one \in Seq(Seq(Nat)), NEW two \in Seq(Seq(Nat)), Framed(one) = Framed(two),
         Len(one) <= Len(two)
  PROVE  one = two
<1> DEFINE m == Len(one)
           n == Len(two)
           b == Framed(one)
<1>1. /\ m \in Nat /\ n \in Nat /\ m <= n
      /\ \A i \in 1 .. m : one[i] \in Seq(Nat)
      /\ \A i \in 1 .. n : two[i] \in Seq(Nat)
      /\ one = [i \in 1 .. m |-> one[i]] /\ two = [i \in 1 .. n |-> two[i]]
  OBVIOUS
<1>2. b \in Seq(Nat) /\ \E ends : Framing(ends, b, one)
  BY FramedShape
<1>3. \E ends : Framing(ends, b, two)
  <2>1. \E ends : Framing(ends, Framed(two), two)
    BY FramedShape
  <2>. QED
    BY <2>1
<1>4. PICK c : Framing(c, b, one)
  BY <1>2
<1>5. PICK d : Framing(d, b, two)
  BY <1>3
<1> HIDE DEF b, m, n
<1> DEFINE Good(k) == c[k] = d[k] /\ (k # 0 => one[k] = two[k])
           Bad == {k \in 0 .. m : ~Good(k)}
<1>6. Good(0)
  BY <1>4, <1>5 DEF Framing
<1>7. ASSUME NEW k \in 1 .. m, Good(k - 1) PROVE Good(k)
  <2> DEFINE x == c[k - 1]
  <2>1. k \in 1 .. n /\ k - 1 \in 0 .. m
    BY <1>1
  <2>2. /\ c[k] = x + 1 + Len(one[k]) /\ b[x + 1] = Len(one[k]) /\ Holds(b, x + 2, one[k])
    BY <1>4 DEF Framing, m
  <2>3. /\ d[k] = x + 1 + Len(two[k]) /\ b[x + 1] = Len(two[k]) /\ Holds(b, x + 2, two[k])
    BY <1>5, <1>7, <2>1 DEF Framing, n
  <2> HIDE DEF x
  <2>4. one[k] \in Seq(Nat) /\ two[k] \in Seq(Nat)
    BY <1>1, <2>1
  <2>5. /\ Taken(b, x + 2, Len(one[k])) = one[k]
        /\ Taken(b, x + 2, Len(two[k])) = two[k]
    <3>1. Taken(b, x + 2, Len(one[k])) = one[k]
      BY <1>2, <2>2, <2>4, HoldsTaken
    <3>2. Taken(b, x + 2, Len(two[k])) = two[k]
      BY <1>2, <2>3, <2>4, HoldsTaken
    <3>. QED
      BY <3>1, <3>2
  <2>. QED
    BY <2>2, <2>3, <2>5
<1>8. Bad = {}
  <2> SUFFICES ASSUME Bad # {} PROVE FALSE
    OBVIOUS
  <2>1. Bad \in SUBSET Nat
    BY <1>1
  <2>2. PICK k \in Bad : \A i \in Bad : k <= i
    <3> HIDE DEF Bad
    <3>. QED
      BY <2>1, Least
  <2>3. k \in 0 .. m /\ ~Good(k)
    OBVIOUS
  <2> HIDE DEF Good
  <2>4. k \in 1 .. m /\ k - 1 \in 0 .. m /\ ~(k <= k - 1)
    BY <1>1, <1>6, <2>3
  <2>5. Good(k - 1)
    BY <2>2, <2>4
  <2>. QED
    BY <1>7, <2>3, <2>4, <2>5
<1>9. \A k \in 0 .. m : Good(k)
  <2> HIDE DEF Good
  <2>. QED
    BY <1>8
<1>10. m = n
  <2> SUFFICES ASSUME m # n PROVE FALSE
    OBVIOUS
  <2>1. m + 1 \in 1 .. n /\ m \in 0 .. m /\ m + 1 - 1 = m /\ m \in 0 .. n
    BY <1>1
  <2>2. d[m] = Len(b) /\ Len(b) \in Nat
    BY <1>2, <1>4, <1>9, <2>1 DEF Framing, m
  <2>3. Holds(b, d[m] + 2, two[m + 1])
    BY <1>5, <2>1 DEF Framing, n
  <2>4. two[m + 1] \in Seq(Nat) /\ Len(two[m + 1]) \in Nat
    BY <1>1, <2>1
  <2> DEFINE l == Len(two[m + 1])
  <2>5. l \in Nat /\ d[m] + 2 + l - 1 <= Len(b)
    BY <2>3, <2>4 DEF Holds
  <2> HIDE DEF l
  <2>. QED
    BY <2>2, <2>5
<1>11. \A k \in 1 .. m : one[k] = two[k]
  <2>1. \A k \in 1 .. m : k \in 0 .. m /\ k # 0
    BY <1>1
  <2>. QED
    BY <1>9, <2>1
<1>. QED
  BY <1>1, <1>10, <1>11

\* update_framed: different lists of fields, of any number and any length, are
\* different bytes to the hash, so composite keys differ ("The length prefix makes
\* the encoding unambiguous", digest.rs:191-192).
THEOREM FramesDifferent ==
  ASSUME NEW one \in Seq(Seq(Nat)), NEW two \in Seq(Seq(Nat))
  PROVE  FramesDiffer(one, two)
<1>1. Len(one) \in Nat /\ Len(two) \in Nat
  OBVIOUS
<1>2. Len(one) <= Len(two) \/ Len(two) <= Len(one)
  BY <1>1
<1>. QED
  BY <1>2, FramesShorter DEF FramesDiffer

(***************************************************************************)
(* The names of digests (digest.rs, to_hex, to_prefixed, fanout and parse) *)
(***************************************************************************)

Lower == {Digit(v) : v \in 0 .. 15}

\* A byte is its two hex digits.
LEMMA Halves ==
  ASSUME NEW x \in 0 .. 255
  PROVE  x \div 16 \in 0 .. 15 /\ x % 16 \in 0 .. 15 /\ 16 * (x \div 16) + (x % 16) = x
  OBVIOUS

\* Two hex digits are one byte.
LEMMA Whole256 ==
  ASSUME NEW h \in 0 .. 15, NEW l \in 0 .. 15
  PROVE  /\ 16 * h + l \in 0 .. 255
         /\ (16 * h + l) \div 16 = h /\ (16 * h + l) % 16 = l
  OBVIOUS

\* Two digits for every byte
LEMMA HexIs ==
  ASSUME NEW d \in Digest
  PROVE  /\ ToHex(d) \in Seq(Lower) /\ Len(ToHex(d)) = 2 * Bytes
         /\ \A i \in 1 .. Bytes : /\ ToHex(d)[2 * i - 1] = Digit(d[i] \div 16)
                                  /\ ToHex(d)[2 * i] = Digit(d[i] % 16)
<1> DEFINE s == [i \in 1 .. Bytes |-> <<Digit(d[i] \div 16), Digit(d[i] % 16)>>]
           b == FlattenSeq(s)
<1>1. Bytes \in Nat \ {0} /\ DOMAIN d = 1 .. Bytes /\ \A i \in 1 .. Bytes : d[i] \in 0 .. 255
  BY BytesAssumption DEF Digest
<1>2. ToHex(d) = b
  BY <1>1 DEF ToHex
<1>3. ASSUME NEW i \in 1 .. Bytes
      PROVE  /\ <<Digit(d[i] \div 16), Digit(d[i] % 16)>> \in Seq(Lower)
             /\ Len(<<Digit(d[i] \div 16), Digit(d[i] % 16)>>) = 2
  <2>1. d[i] \div 16 \in 0 .. 15 /\ d[i] % 16 \in 0 .. 15
    BY <1>1, Halves
  <2>2. Digit(d[i] \div 16) \in Lower /\ Digit(d[i] % 16) \in Lower
    BY <2>1 DEF Lower
  <2>. QED
    BY <2>2
<1>4. s \in [1 .. Bytes -> Seq(Lower)]
  BY <1>3
<1>5. \A i \in 1 .. Bytes : /\ Len(s[i]) = 2 /\ s[i][1] = Digit(d[i] \div 16)
                            /\ s[i][2] = Digit(d[i] % 16)
  BY <1>3
<1> HIDE DEF s
<1>6. b \in Seq(Lower) /\ \E ends : Ends(ends, b, s, Bytes)
  BY <1>1, <1>4, Flattened
<1> HIDE DEF b
<1>7. PICK ends : Ends(ends, b, s, Bytes)
  BY <1>6
<1> DEFINE Bad == {k \in 0 .. Bytes : ends[k] # 2 * k}
<1>8. Bad = {}
  <2> SUFFICES ASSUME Bad # {} PROVE FALSE
    OBVIOUS
  <2>1. Bad \in SUBSET Nat
    BY <1>1
  <2>2. PICK k \in Bad : \A i \in Bad : k <= i
    <3> HIDE DEF Bad
    <3>. QED
      BY <2>1, Least
  <2>3. k \in 0 .. Bytes /\ ends[k] # 2 * k
    OBVIOUS
  <2>4. k # 0
    BY <1>7, <2>3 DEF Ends
  <2>5. k \in 1 .. Bytes /\ k - 1 \in 0 .. Bytes /\ ~(k <= k - 1) /\ k \in Nat
    BY <1>1, <2>3, <2>4
  <2>6. ends[k - 1] = 2 * (k - 1)
    <3>1. k - 1 \notin Bad
      <4> HIDE DEF Bad
      <4>. QED
        BY <2>2, <2>5
    <3>. QED
      BY <2>5, <3>1
  <2>7. ends[k] = ends[k - 1] + 2
    BY <1>5, <1>7, <2>5 DEF Ends
  <2>. QED
    BY <2>3, <2>5, <2>6, <2>7
<1>9. Len(b) = 2 * Bytes
  <2>1. Bytes \in 0 .. Bytes
    BY <1>1
  <2>. QED
    BY <1>7, <1>8, <2>1 DEF Ends
<1>10. ASSUME NEW i \in 1 .. Bytes
       PROVE  b[2 * i - 1] = s[i][1] /\ b[2 * i] = s[i][2]
  <2>1. i - 1 \in 0 .. Bytes /\ i \in Nat
    BY <1>1
  <2>2. ends[i - 1] = 2 * (i - 1)
    BY <1>8, <2>1
  <2>3. Holds(b, 2 * (i - 1) + 1, s[i])
    BY <1>7, <2>2 DEF Ends
  <2>4. 1 \in 1 .. Len(s[i]) /\ 2 \in 1 .. Len(s[i])
    BY <1>5
  <2>5. b[2 * (i - 1) + 1 + 1 - 1] = s[i][1] /\ b[2 * (i - 1) + 1 + 2 - 1] = s[i][2]
    BY <2>3, <2>4 DEF Holds
  <2>6. 2 * (i - 1) + 1 + 1 - 1 = 2 * i - 1 /\ 2 * (i - 1) + 1 + 2 - 1 = 2 * i
    BY <2>1
  <2>. QED
    BY <2>5, <2>6
<1>. QED
  BY <1>2, <1>5, <1>6, <1>9, <1>10

\* The digits to_hex writes.
LEMMA LowerDigits ==
  ASSUME NEW x \in Lower
  PROVE  IsHex(x) /\ x # Colon /\ x[1] \in 0 .. 15 /\ x = Digit(x[1])
<1>1. PICK v \in 0 .. 15 : x = Digit(v)
  BY DEF Lower
<1>2. x = <<v, "lower">>
  BY <1>1 DEF Digit
<1>3. x[1] = v /\ x[2] = "lower"
  BY <1>2
<1>4. Colon[2] = "no digit"
  BY DEF Colon
<1>. QED
  BY <1>1, <1>3, <1>4 DEF IsHex

\* The digits of a digest are parsed as it.
LEMMA ParseDigits ==
  ASSUME NEW d \in Digest
  PROVE  /\ \A i \in 1 .. Len(ToHex(d)) : IsHex(ToHex(d)[i])
         /\ d = [i \in 1 .. Bytes |-> 16 * ToHex(d)[2 * i - 1][1] + ToHex(d)[2 * i][1]]
<1> DEFINE hex == ToHex(d)
<1>1. /\ hex \in Seq(Lower) /\ Len(hex) = 2 * Bytes
      /\ \A i \in 1 .. Bytes : hex[2 * i - 1] = Digit(d[i] \div 16) /\ hex[2 * i] = Digit(d[i] % 16)
  BY HexIs
<1> HIDE DEF hex
<1>2. \A i \in 1 .. Len(hex) : IsHex(hex[i])
  <2>1. \A i \in 1 .. Len(hex) : hex[i] \in Lower
    BY <1>1
  <2>. QED
    BY <2>1, LowerDigits
<1>3. d = [i \in 1 .. Bytes |-> d[i]] /\ \A i \in 1 .. Bytes : d[i] \in 0 .. 255
  BY DEF Digest
<1>4. ASSUME NEW i \in 1 .. Bytes PROVE 16 * hex[2 * i - 1][1] + hex[2 * i][1] = d[i]
  <2>1. hex[2 * i - 1][1] = d[i] \div 16 /\ hex[2 * i][1] = d[i] % 16
    BY <1>1 DEF Digit
  <2>2. 16 * (d[i] \div 16) + (d[i] % 16) = d[i]
    BY <1>3, Halves
  <2>. QED
    BY <2>1, <2>2
<1>5. d = [i \in 1 .. Bytes |-> 16 * hex[2 * i - 1][1] + hex[2 * i][1]]
  BY <1>3, <1>4
<1>. QED
  BY <1>2, <1>5 DEF hex

\* A character is a value and a case.
LEMMA CharIs ==
  ASSUME NEW v \in 0 .. 15, NEW c \in {"lower", "upper", "no digit"}
  PROVE  <<v, c>> \in Char
  BY DEF Char

\* The digits to_hex writes are characters.
LEMMA LowerChars == Lower \subseteq Char
<1>1. ASSUME NEW v \in 0 .. 15 PROVE Digit(v) \in Char
  BY CharIs DEF Digit
<1>. QED
  BY <1>1 DEF Lower

\* The three characters of the prefix.
LEMMA PrefixIs ==
  /\ Prefix \in Seq(Char) /\ Len(Prefix) = 3
  /\ Prefix[1] = Digit(11) /\ Prefix[2] = Digit(3) /\ Prefix[3] = Colon
<1>1. Digit(11) \in Char /\ Digit(3) \in Char /\ Colon \in Char
  <2>1. 11 \in 0 .. 15 /\ 3 \in 0 .. 15 /\ 0 \in 0 .. 15
    OBVIOUS
  <2>. QED
    BY <2>1, CharIs DEF Digit, Colon
<1>. QED
  BY <1>1 DEF Prefix

\* A text behind the prefix.
LEMMA Prefixed ==
  ASSUME NEW t \in Seq(Char)
  PROVE  /\ Prefix \o t \in Seq(Char) /\ Len(Prefix \o t) = 3 + Len(t) /\ Len(t) \in Nat
         /\ \A j \in 1 .. 3 : (Prefix \o t)[j] = Prefix[j]
         /\ \A j \in 1 .. Len(t) : (Prefix \o t)[3 + j] = t[j]
<1> DEFINE p == Prefix
<1>1. p \in Seq(Char) /\ Len(p) = 3
  BY PrefixIs
<1> HIDE DEF p
<1>2. /\ p \o t \in Seq(Char) /\ Len(p \o t) = Len(p) + Len(t) /\ Len(t) \in Nat
      /\ \A j \in 1 .. Len(p) : (p \o t)[j] = p[j]
      /\ \A j \in 1 .. Len(t) : (p \o t)[Len(p) + j] = t[j]
  <2>1. p \in Seq(Char)
    BY <1>1
  <2>2. p \o t \in Seq(Char)
    BY <2>1, Concatenation
  <2>3. Len(p \o t) = Len(p) + Len(t) /\ Len(t) \in Nat
    BY <2>1, Concatenation
  <2>4. \A j \in 1 .. Len(p) : (p \o t)[j] = p[j]
    BY <2>1, Concatenation
  <2>5. \A j \in 1 .. Len(t) : (p \o t)[Len(p) + j] = t[j]
    BY <2>1, Concatenation
  <2>. QED
    BY <2>2, <2>3, <2>4, <2>5
<1> DEFINE u == p \o t
           n == Len(p)
<1>3. /\ u \in Seq(Char) /\ Len(u) = n + Len(t) /\ Len(t) \in Nat /\ n = 3
      /\ \A j \in 1 .. n : u[j] = p[j]
      /\ \A j \in 1 .. Len(t) : u[n + j] = t[j]
  BY <1>1, <1>2
<1> HIDE DEF u, n
<1>4. /\ u \in Seq(Char) /\ Len(u) = 3 + Len(t) /\ Len(t) \in Nat
      /\ \A j \in 1 .. 3 : u[j] = p[j]
      /\ \A j \in 1 .. Len(t) : u[3 + j] = t[j]
  BY <1>3
<1>. QED
  BY <1>4 DEF u, p

\* parse finds a digest again, whichever of its names it is given
\* (digest.rs, to_hex, to_prefixed, fanout and parse).
THEOREM DigestsParseBack ==
  ASSUME NEW d \in Digest
  PROVE  ParsesBack(d)
<1> DEFINE hex == ToHex(d)
           text == ToPrefixed(d)
           value == [i \in 1 .. Bytes |-> 16 * hex[2 * i - 1][1] + hex[2 * i][1]]
<1>0. Bytes \in Nat \ {0}
  BY BytesAssumption
<1>1. /\ hex \in Seq(Lower) /\ Len(hex) = 2 * Bytes
      /\ \A i \in 1 .. Bytes : hex[2 * i - 1] = Digit(d[i] \div 16) /\ hex[2 * i] = Digit(d[i] % 16)
  BY HexIs
<1>2. (\A i \in 1 .. Len(hex) : IsHex(hex[i])) /\ d = value /\ DOMAIN hex = 1 .. Len(hex)
  BY <1>1, ParseDigits
<1>3. Parse(hex) = [digest |-> d]
  <2>1. ~IsPrefix(Prefix, hex)
    <3> SUFFICES ASSUME IsPrefix(Prefix, hex) PROVE FALSE
      OBVIOUS
    <3> HIDE DEF hex
    <3>1. 3 <= Len(hex) /\ SubSeq(Prefix, 1, 3) = SubSeq(hex, 1, 3) /\ Len(hex) \in Nat
      BY <1>1, PrefixIs DEF IsPrefix
    <3>2. SubSeq(Prefix, 1, 3)[3] = Prefix[3] /\ SubSeq(hex, 1, 3)[3] = hex[3]
      BY <1>1, <3>1, PrefixIs
    <3>3. hex[3] \in Lower
      BY <1>1, <3>1
    <3>. QED
      BY <3>1, <3>2, <3>3, PrefixIs, LowerDigits
  <2> HIDE DEF hex
  <2>. QED
    BY <1>1, <1>2, <2>1 DEF Parse
<1>4. Parse(text) = [digest |-> d]
  <2>0. hex \in Seq(Char)
    <3> HIDE DEF hex
    <3>. QED
      BY <1>1, LowerChars
  <2>1. text = Prefix \o hex
    BY DEF ToPrefixed
  <2> HIDE DEF hex, text
  <2>2. /\ text \in Seq(Char) /\ Len(text) = 3 + Len(hex) /\ Len(hex) \in Nat
        /\ \A j \in 1 .. 3 : text[j] = Prefix[j]
        /\ \A j \in 1 .. Len(hex) : text[3 + j] = hex[j]
    <3>1. /\ Prefix \o hex \in Seq(Char) /\ Len(Prefix \o hex) = 3 + Len(hex) /\ Len(hex) \in Nat
          /\ \A j \in 1 .. 3 : (Prefix \o hex)[j] = Prefix[j]
          /\ \A j \in 1 .. Len(hex) : (Prefix \o hex)[3 + j] = hex[j]
      BY <2>0, Prefixed
    <3>. QED
      BY <2>1, <3>1
  <2>3. IsPrefix(Prefix, text)
    <3>1. /\ SubSeq(Prefix, 1, 3) = [j \in 1 .. 3 |-> Prefix[j]]
          /\ SubSeq(text, 1, 3) = [j \in 1 .. 3 |-> text[j]]
      BY <2>2, PrefixIs
    <3>2. SubSeq(Prefix, 1, 3) = SubSeq(text, 1, 3)
      BY <2>2, <3>1
    <3>. QED
      BY <2>2, <3>2, PrefixIs DEF IsPrefix
  <2>4. SubSeq(text, 4, Len(text)) = hex
    <3> DEFINE rest == SubSeq(text, 4, Len(text))
    <3>1. rest \in Seq(Char) /\ Len(rest) = Len(hex) /\ \A j \in 1 .. Len(hex) : rest[j] = text[3 + j]
      BY <2>2
    <3> HIDE DEF rest
    <3>2. rest = [j \in 1 .. Len(hex) |-> rest[j]] /\ hex = [j \in 1 .. Len(hex) |-> hex[j]]
      BY <2>0, <3>1
    <3>3. rest = hex
      BY <2>2, <3>1, <3>2
    <3>. QED
      BY <3>3 DEF rest
  <2>. QED
    BY <1>1, <1>2, <2>3, <2>4 DEF Parse
<1>5. Fanout(d) = SubSeq(hex, 1, 2)
  <2>1. 1 \in 1 .. Bytes /\ 2 <= Len(hex)
    BY <1>0, <1>1
  <2>2. hex[1] = Digit(d[1] \div 16) /\ hex[2] = Digit(d[1] % 16)
    <3>1. 2 * 1 - 1 = 1 /\ 2 * 1 = 2
      OBVIOUS
    <3> HIDE DEF hex
    <3>. QED
      BY <1>1, <2>1, <3>1
  <2> HIDE DEF hex
  <2>3. SubSeq(hex, 1, 2) = <<hex[1], hex[2]>>
    <3>1. SubSeq(hex, 1, 2) = [j \in 1 .. 2 |-> hex[j]]
      BY <1>1, <2>1
    <3>2. <<hex[1], hex[2]>> = [j \in 1 .. 2 |-> hex[j]]
      OBVIOUS
    <3>. QED
      BY <3>1, <3>2
  <2>. QED
    BY <2>2, <2>3 DEF Fanout
<1>. QED
  BY <1>3, <1>4, <1>5 DEF ParsesBack

\* parse takes the digits of a digest, in either case and with at most one
\* prefix, and no other text (digest.rs, parse).
THEOREM OnlyDigestsParsed ==
  ASSUME NEW text \in Seq(Char)
  PROVE  ParsesOnlyDigests(text)
<1> DEFINE got == Parse(text)
           low(t) == [i \in DOMAIN t |-> IF IsHex(t[i]) THEN Digit(t[i][1]) ELSE t[i]]
           hex == IF IsPrefix(Prefix, text) THEN SubSeq(text, 4, Len(text)) ELSE text
           value == [i \in 1 .. Bytes |-> 16 * hex[2 * i - 1][1] + hex[2 * i][1]]
<1> SUFFICES ASSUME "digest" \in DOMAIN got
             PROVE  Len(got.digest) = Bytes /\ low(text) \in {ToHex(got.digest), ToPrefixed(got.digest)}
  BY DEF ParsesOnlyDigests
<1>0. Bytes \in Nat \ {0} /\ Len(text) \in Nat /\ DOMAIN text = 1 .. Len(text)
  BY BytesAssumption
<1>1. hex \in Seq(Char)
  <2>1. IsPrefix(Prefix, text) => 3 <= Len(text)
    BY PrefixIs DEF IsPrefix
  <2>2. 3 <= Len(text) => SubSeq(text, 4, Len(text)) \in Seq(Char)
    BY <1>0
  <2>. QED
    BY <2>1, <2>2
<1>2. got = IF Len(hex) # 2 * Bytes THEN [error |-> "BadLength"]
            ELSE IF \E i \in DOMAIN hex : ~IsHex(hex[i]) THEN [error |-> "NotHex"]
            ELSE [digest |-> value]
  BY DEF Parse
<1>3. /\ Len(hex) = 2 * Bytes /\ (\A i \in DOMAIN hex : IsHex(hex[i]))
      /\ got = [digest |-> value]
  <2> HIDE DEF hex, value
  <2>1. got = [error |-> "BadLength"] => "digest" \notin DOMAIN got
    OBVIOUS
  <2>2. got = [error |-> "NotHex"] => "digest" \notin DOMAIN got
    OBVIOUS
  <2> HIDE DEF got
  <2>. QED
    BY <1>2, <2>1, <2>2
<1>4. got.digest = value
  <2> HIDE DEF value, got
  <2>. QED
    BY <1>3
<1>5. \A i \in 1 .. 2 * Bytes : hex[i][1] \in 0 .. 15
  <2> HIDE DEF hex
  <2>1. \A i \in 1 .. 2 * Bytes : hex[i] \in Char
    BY <1>1, <1>3
  <2>. QED
    BY <2>1 DEF Char
<1>6. value \in Digest /\ \A i \in 1 .. Bytes :
        value[i] \div 16 = hex[2 * i - 1][1] /\ value[i] % 16 = hex[2 * i][1]
  <2> HIDE DEF hex
  <2>1. ASSUME NEW i \in 1 .. Bytes
        PROVE  /\ 16 * hex[2 * i - 1][1] + hex[2 * i][1] \in 0 .. 255
               /\ (16 * hex[2 * i - 1][1] + hex[2 * i][1]) \div 16 = hex[2 * i - 1][1]
               /\ (16 * hex[2 * i - 1][1] + hex[2 * i][1]) % 16 = hex[2 * i][1]
    <3>1. 2 * i - 1 \in 1 .. 2 * Bytes /\ 2 * i \in 1 .. 2 * Bytes
      BY <1>0
    <3>. QED
      BY <1>5, <3>1, Whole256
  <2>. QED
    BY <2>1 DEF Digest
<1>7. Len(value) = Bytes
  <2> HIDE DEF value
  <2>0. value \in [1 .. Bytes -> 0 .. 255]
    BY <1>6 DEF Digest
  <2>1. Bytes \in Nat /\ DOMAIN value = 1 .. Bytes /\ value \in Seq(0 .. 255)
    BY <1>0, <2>0
  <2>2. Len(value) \in Nat /\ DOMAIN value = 1 .. Len(value)
    BY <2>1
  <2>3. 1 .. Len(value) = 1 .. Bytes
    BY <2>1, <2>2
  <2> DEFINE l == Len(value)
  <2>4. l \in Nat /\ Bytes \in Nat /\ 1 .. l = 1 .. Bytes
    BY <2>1, <2>2, <2>3
  <2> HIDE DEF l
  <2>5. l = Bytes
    <3>1. l # 0 => l \in 1 .. Bytes
      <4>1. l # 0 => l \in 1 .. l
        BY <2>4
      <4>. QED
        BY <2>4, <4>1
    <3>2. Bytes \in 1 .. l
      <4>1. Bytes \in 1 .. Bytes
        BY <1>0
      <4>. QED
        BY <2>4, <4>1
    <3>. QED
      BY <2>4, <3>1, <3>2
  <2>. QED
    BY <2>5 DEF l
<1>8. low(hex) = ToHex(value)
  <2> DEFINE out == ToHex(value)
             mine == low(hex)
  <2> HIDE DEF hex, value
  <2>1. /\ out \in Seq(Lower) /\ Len(out) = 2 * Bytes
        /\ \A i \in 1 .. Bytes : /\ out[2 * i - 1] = Digit(value[i] \div 16)
                                 /\ out[2 * i] = Digit(value[i] % 16)
    BY <1>6, HexIs
  <2>2. DOMAIN hex = 1 .. 2 * Bytes
    BY <1>1, <1>3
  <2>3. mine = [i \in 1 .. 2 * Bytes |-> Digit(hex[i][1])]
    BY <1>3, <2>2
  <2> HIDE DEF out, mine
  <2>4. ASSUME NEW j \in 1 .. 2 * Bytes PROVE out[j] = Digit(hex[j][1])
    <3>1. CASE j % 2 = 0
      <4>1. PICK i \in 1 .. Bytes : j = 2 * i
        <5>1. j \div 2 \in 1 .. Bytes /\ j = 2 * (j \div 2)
          BY <1>0, <3>1
        <5>. QED
          BY <5>1
      <4>. QED
        BY <1>6, <2>1, <4>1
    <3>2. CASE j % 2 = 1
      <4>1. PICK i \in 1 .. Bytes : j = 2 * i - 1
        <5>1. (j + 1) \div 2 \in 1 .. Bytes /\ j = 2 * ((j + 1) \div 2) - 1
          BY <1>0, <3>2
        <5>. QED
          BY <5>1
      <4>. QED
        BY <1>6, <2>1, <4>1
    <3>3. j % 2 = 0 \/ j % 2 = 1
      BY <1>0
    <3>. QED
      BY <3>1, <3>2, <3>3
  <2>5. out = [j \in 1 .. 2 * Bytes |-> out[j]]
    BY <2>1
  <2>6. mine = out
    BY <2>3, <2>4, <2>5
  <2>. QED
    BY <2>6 DEF mine, out
<1>9. low(text) \in {ToHex(value), ToPrefixed(value)}
  <2>1. CASE ~IsPrefix(Prefix, text)
    <3>1. hex = text
      BY <2>1
    <3> HIDE DEF hex, value
    <3>. QED
      BY <1>8, <3>1
  <2>2. CASE IsPrefix(Prefix, text)
    <3>1. hex = SubSeq(text, 4, Len(text)) /\ 3 <= Len(text)
          /\ SubSeq(Prefix, 1, 3) = SubSeq(text, 1, 3)
      BY <2>2, PrefixIs DEF IsPrefix
    <3> DEFINE mine == low(text)
               tail == low(hex)
               out == ToPrefixed(value)
    <3> HIDE DEF hex, value
    <3>2. /\ DOMAIN hex = 1 .. Len(hex) /\ Len(hex) \in Nat /\ Len(text) = 3 + Len(hex)
          /\ \A j \in 1 .. Len(hex) : hex[j] = text[3 + j]
      BY <1>0, <3>1
    <3>3. text[1] = Digit(11) /\ text[2] = Digit(3) /\ text[3] = Colon
      <4>1. \A j \in 1 .. 3 : SubSeq(Prefix, 1, 3)[j] = Prefix[j] /\ SubSeq(text, 1, 3)[j] = text[j]
        BY <1>0, <3>1, PrefixIs
      <4>2. 1 \in 1 .. 3 /\ 2 \in 1 .. 3 /\ 3 \in 1 .. 3
        OBVIOUS
      <4>. QED
        BY <3>1, <4>1, <4>2, PrefixIs
    <3>4. /\ mine = [i \in 1 .. 3 + Len(hex) |-> IF IsHex(text[i]) THEN Digit(text[i][1]) ELSE text[i]]
          /\ tail = [i \in 1 .. Len(hex) |-> IF IsHex(hex[i]) THEN Digit(hex[i][1]) ELSE hex[i]]
      BY <1>0, <3>2
    <3>5. tail \in Seq(Lower) /\ Len(tail) = Len(hex) /\ out = Prefix \o tail
      <4>1. ToHex(value) \in Seq(Lower) /\ Len(ToHex(value)) = 2 * Bytes
        BY <1>6, HexIs
      <4>. QED
        BY <1>3, <1>8, <4>1 DEF ToPrefixed
    <3> HIDE DEF tail, out, mine
    <3>6. /\ out \in Seq(Char) /\ Len(out) = 3 + Len(hex)
          /\ \A j \in 1 .. 3 : out[j] = Prefix[j]
          /\ \A j \in 1 .. Len(hex) : out[3 + j] = tail[j]
      <4>0. tail \in Seq(Char)
        BY <3>5, LowerChars
      <4>1. /\ Prefix \o tail \in Seq(Char) /\ Len(Prefix \o tail) = 3 + Len(tail)
            /\ \A j \in 1 .. 3 : (Prefix \o tail)[j] = Prefix[j]
            /\ \A j \in 1 .. Len(tail) : (Prefix \o tail)[3 + j] = tail[j]
        BY <4>0, Prefixed
      <4>. QED
        BY <3>5, <4>1
    <3>7. \A j \in 1 .. 3 : mine[j] = Prefix[j]
      <4>1. IsHex(Digit(11)) /\ IsHex(Digit(3)) /\ ~IsHex(Colon)
            /\ Digit(11)[1] = 11 /\ Digit(3)[1] = 3
        BY DEF IsHex, Digit, Colon
      <4>2. ASSUME NEW j \in 1 .. 3 PROVE mine[j] = Prefix[j]
        <5>1. j \in 1 .. 3 + Len(hex) /\ (j = 1 \/ j = 2 \/ j = 3)
          BY <3>2
        <5>2. mine[j] = IF IsHex(text[j]) THEN Digit(text[j][1]) ELSE text[j]
          BY <3>4, <5>1
        <5>. QED
          BY <3>3, <4>1, <5>1, <5>2, PrefixIs
      <4>. QED
        BY <4>2
    <3>8. \A j \in 1 .. Len(hex) : mine[3 + j] = tail[j]
      <4>1. ASSUME NEW j \in 1 .. Len(hex) PROVE mine[3 + j] = tail[j]
        <5>1. 3 + j \in 1 .. 3 + Len(hex) /\ hex[j] = text[3 + j]
          BY <3>2
        <5>. QED
          BY <3>4, <5>1
      <4>. QED
        BY <4>1
    <3>9. mine = out
      <4>1. ASSUME NEW i \in 1 .. 3 + Len(hex) PROVE mine[i] = out[i]
        <5>1. CASE i <= 3
          BY <3>6, <3>7, <5>1
        <5>2. CASE ~(i <= 3)
          <6>1. i - 3 \in 1 .. Len(hex) /\ 3 + (i - 3) = i
            BY <3>2, <5>2
          <6>. QED
            BY <3>6, <3>8, <6>1
        <5>. QED
          BY <5>1, <5>2
      <4>2. /\ mine = [i \in 1 .. 3 + Len(hex) |-> mine[i]]
            /\ out = [i \in 1 .. 3 + Len(hex) |-> out[i]]
        BY <3>4, <3>6
      <4>. QED
        BY <4>1, <4>2
    <3>. QED
      BY <3>9 DEF mine, out
  <2>. QED
    BY <2>1, <2>2
<1> HIDE DEF got, value, low
<1>. QED
  BY <1>4, <1>7, <1>9
=============================================================================
