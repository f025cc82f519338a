---------------------------- MODULE WebhookProofs ----------------------------
(***************************************************************************)
(* Proofs about Webhook, for any number of deliveries, ids and handlers    *)
(* and any capacity and TTL of the DeliveryGuard.                          *)
(***************************************************************************)
EXTENDS Webhook, FiniteSetTheorems, TLAPS

(***************************************************************************)
(* The guard remembers an id with the reading of its last Fresh verdict.   *)
(* It forgets one in two ways only: at a reading that finds it expired, or *)
(* as the oldest of a full map.  Of a full map, all others are no older,   *)
(* and so are the new one: these are the ids that pushed it out.  Between  *)
(* reading the clock and taking the lock a handler may be overtaken, which *)
(* is why what counts is the order of the readings, not of the verdicts.   *)
(***************************************************************************)

\* A handler in front of the guard has an id, and no clock reading is ahead.
HandlerInv ==
  \A h \in Handlers : /\ reading[h] <= now
                      /\ hpc[h] = "check" => Id[what[h]] \in Ids

\* What is remembered is the reading of the last Fresh verdict; the history is
\* finite.
GuardInv ==
  /\ IsFiniteSet(DOMAIN lastFresh)
  /\ Remembered \subseteq DOMAIN lastFresh
  /\ \A i \in Remembered : seen[i] = lastFresh[i]
  /\ \A i \in DOMAIN lastFresh : later[i] \subseteq DOMAIN lastFresh

\* later[j] has every id whose last reading is no older than that of j.
LaterInv ==
  \A j, k \in DOMAIN lastFresh : j # k /\ lastFresh[k] >= lastFresh[j] => k \in later[j]

\* An id the guard has forgotten is expired or was pushed out.
ForgottenFor(i) == ~Live(lastFresh[i], now) \/ Cardinality(later[i]) >= Capacity
WindowInv == \A i \in DOMAIN lastFresh : i \in Remembered \/ ForgottenFor(i)

IInv == TypeOK /\ HandlerInv /\ GuardInv /\ BoundedMemory /\ LaterInv /\ WindowInv

-----------------------------------------------------------------------------
(* Lemmas on the guard's operators *)

\* The empty map.
LEMMA EmptyMap == /\ DOMAIN << >> = {}
                  /\ \A S : << >> \in [{} -> S]
OBVIOUS

\* An idle handler's local is a delivery.
LEMMA UnusedType == Unused \in Deliveries
BY DeliveryAssumption DEF Unused

\* The clock only moves entries out of their window.
LEMMA LiveMonotone ==
  ASSUME NEW at \in Nat, NEW t \in Nat, NEW u \in Nat, t <= u, Live(at, u)
  PROVE  Live(at, t)
BY BoundAssumption DEF Live

\* Retention drops only expired entries.
LEMMA RetainedProperties ==
  ASSUME NEW t \in Times
  PROVE  /\ Retained(t) \subseteq Remembered
         /\ \A i \in Remembered \ Retained(t) : ~Live(seen[i], t)
BY DEF Retained

\* An eviction is due exactly at the cap, and takes one entry that is oldest.
LEMMA EvictionsProperties ==
  ASSUME NEW kept, IsFiniteSet(kept), NEW out \in Evictions(kept)
  PROVE  \/ out = {} /\ Cardinality(kept) < Capacity
         \/ /\ Cardinality(kept) >= Capacity
            /\ \E o \in kept : out = {o} /\ \A j \in kept : seen[o] <= seen[j]
<1>1. Cardinality(kept) \in Nat /\ Capacity \in Nat
  BY FS_CardinalityType, BoundAssumption
<1>2. CASE Cardinality(kept) >= Capacity
  BY <1>2 DEF Evictions
<1>3. CASE ~(Cardinality(kept) >= Capacity)
  BY <1>1, <1>3 DEF Evictions
<1>. QED
  BY <1>2, <1>3

\* What one more element does to a finite set.
LEMMA AddOne ==
  ASSUME NEW S, IsFiniteSet(S), NEW x
  PROVE  /\ IsFiniteSet(S \cup {x})
         /\ Cardinality(S) \in Nat
         /\ Cardinality(S \cup {x}) <= Cardinality(S) + 1
         /\ x \notin S => Cardinality(S \cup {x}) = Cardinality(S) + 1
<1>1. /\ IsFiniteSet(S \cup {x})
      /\ Cardinality(S \cup {x}) = IF x \in S THEN Cardinality(S) ELSE Cardinality(S) + 1
  BY FS_AddElement, Zenon
<1>2. Cardinality(S) \in Nat
  BY FS_CardinalityType, Zenon
<1>. QED
  BY <1>1, <1>2

\* After the eviction there is room for the new id.
LEMMA RoomForOne ==
  ASSUME NEW kept, IsFiniteSet(kept), Cardinality(kept) <= Capacity,
         NEW out \in Evictions(kept), NEW i
  PROVE  Cardinality((kept \ out) \cup {i}) <= Capacity
<1>1. Cardinality(kept) \in Nat /\ Capacity \in Nat
  BY FS_CardinalityType, BoundAssumption
<1>2. CASE out = {} /\ Cardinality(kept) < Capacity
  <2>1. kept \ out = kept
    BY <1>2
  <2>. QED
    BY <1>1, <1>2, <2>1, AddOne
<1>3. CASE \E o \in kept : out = {o}
  <2>1. PICK o \in kept : out = {o}
    BY <1>3
  <2>2. IsFiniteSet(kept \ {o}) /\ Cardinality(kept \ {o}) = Cardinality(kept) - 1
    BY FS_RemoveElement
  <2>3. Cardinality((kept \ {o}) \cup {i}) <= Cardinality(kept)
    <3>1. Cardinality((kept \ {o}) \cup {i}) <= Cardinality(kept \ {o}) + 1
      BY <2>2, AddOne, Zenon
    <3>. QED
      BY <1>1, <2>2, <3>1
  <2>. QED
    <3>1. Cardinality((kept \ {o}) \cup {i}) \in Nat
      BY <2>2, AddOne, FS_CardinalityType, Zenon
    <3>. QED
      BY <1>1, <2>1, <2>3, <3>1
<1>. QED
  BY <1>2, <1>3, EvictionsProperties

-----------------------------------------------------------------------------
(* Types *)

\* Every handler's step keeps the state well formed; so does the clock, so does
\* a restart.
LEMMA TypeStep == TypeOK /\ HandlerInv /\ [Next]_vars => TypeOK' /\ HandlerInv'
<1> SUFFICES ASSUME TypeOK, HandlerInv, [Next]_vars PROVE TypeOK' /\ HandlerInv'
  OBVIOUS
<1> USE BoundAssumption, DeliveryAssumption, UnusedType
    DEF TypeOK, HandlerInv, Times, handlerVars, historyVars, Remembered
<1>1. ASSUME NEW h \in Handlers, NEW x \in Deliveries, Receive(h, x)
      PROVE  TypeOK' /\ HandlerInv'
  <2>1. CASE Respond(h, x, Refusal[Signature[x]])
    BY <1>1, <2>1 DEF Receive, Respond
  <2>2. CASE what' = [what EXCEPT ![h] = x] /\ Id[x] = NoId /\ Goto(h, "parse")
             /\ UNCHANGED reading
    BY <1>1, <2>2 DEF Receive, Goto
  <2>3. CASE what' = [what EXCEPT ![h] = x] /\ Id[x] # NoId /\ Goto(h, "check")
             /\ reading' = [reading EXCEPT ![h] = now]
    BY <1>1, <2>3 DEF Receive, Goto
  <2>. QED
    BY <1>1, <2>1, <2>2, <2>3 DEF Receive
<1>2. ASSUME NEW h \in Handlers, CheckDelivery(h) PROVE TypeOK' /\ HandlerInv'
  <2> DEFINE i == Id[what[h]]
             t == reading[h]
             kept == Retained(t)
  <2>1. i \in Ids /\ t \in Times /\ kept \subseteq Remembered
    BY <1>2, RetainedProperties DEF CheckDelivery
  <2>2. CASE seen' = Restrict(seen, kept) /\ Respond(h, what[h], "duplicate")
             /\ UNCHANGED historyVars
    BY <1>2, <2>1, <2>2 DEF CheckDelivery, Respond, Restrict
  <2>3. CASE /\ \E out \in Evictions(kept) :
                  seen' = [j \in (kept \ out) \cup {i} |-> IF j = i THEN t ELSE seen[j]]
             /\ Goto(h, "parse") /\ reading' = [reading EXCEPT ![h] = 0]
             /\ NoteFresh(i, t) /\ UNCHANGED what
    <3>1. Remembered' \subseteq Ids /\ seen' \in [Remembered' -> Times]
      <4>1. PICK out \in Evictions(kept) :
              seen' = [j \in (kept \ out) \cup {i} |-> IF j = i THEN t ELSE seen[j]]
        BY <2>3
      <4> HIDE DEF i, t, kept
      <4>. QED
        BY <2>1, <4>1
    <3>2. /\ DOMAIN lastFresh' \subseteq Ids
          /\ lastFresh' \in [DOMAIN lastFresh' -> Times]
          /\ later' \in [DOMAIN lastFresh' -> SUBSET Ids]
      <4> HIDE DEF i, t, kept
      <4>. QED
        BY <2>1, <2>3 DEF NoteFresh
    <3>. QED
      BY <1>2, <2>3, <3>1, <3>2 DEF CheckDelivery, Goto
  <2>. QED
    BY <1>2, <2>2, <2>3 DEF CheckDelivery
<1>3. ASSUME NEW h \in Handlers, Dispatch(h) PROVE TypeOK' /\ HandlerInv'
  <2>1. runs' \in [Deliveries -> 0 .. MaxRuns]
    BY <1>3 DEF Dispatch
  <2>. QED
    BY <1>3, <2>1 DEF Dispatch, Respond
<1>4. CASE Tick
  BY <1>4 DEF Tick
<1>5. CASE Restart
  BY <1>5, EmptyMap DEF Restart
<1>6. CASE UNCHANGED vars
  BY <1>6 DEF vars
<1>. QED
  BY <1>1, <1>2, <1>3, <1>4, <1>5, <1>6 DEF Next, Handle

\* The initial state is well formed.
LEMMA TypeInit == Init => TypeOK /\ HandlerInv
BY EmptyMap, UnusedType, BoundAssumption
   DEF Init, TypeOK, HandlerInv, Times, Remembered

\* Webhook's state always has its type; in particular an id that reaches the
\* guard's map is a usable one, never the absent header.
THEOREM TypeCorrect == Spec => []TypeOK
<1>. QED
  BY TypeInit, TypeStep, PTL DEF Spec
-----------------------------------------------------------------------------
(* The guard *)

Guarded == GuardInv /\ BoundedMemory /\ LaterInv /\ WindowInv

\* The numbers the invariant compares, and the finite sets it counts.
LEMMA Numbers ==
  ASSUME TypeOK, GuardInv
  PROVE  /\ now \in Nat /\ Capacity \in Nat /\ TTL \in Nat /\ Times \subseteq Nat
         /\ \A i \in DOMAIN lastFresh : lastFresh[i] \in Nat
         /\ \A i \in Remembered : seen[i] \in Nat
         /\ IsFiniteSet(Remembered) /\ Cardinality(Remembered) \in Nat
         /\ \A i \in DOMAIN lastFresh :
              IsFiniteSet(later[i]) /\ Cardinality(later[i]) \in Nat
<1>1. IsFiniteSet(Remembered) /\ Cardinality(Remembered) \in Nat
  BY FS_Subset, FS_CardinalityType DEF GuardInv
<1>2. \A i \in DOMAIN lastFresh : IsFiniteSet(later[i]) /\ Cardinality(later[i]) \in Nat
  BY FS_Subset, FS_CardinalityType DEF GuardInv
<1>. QED
  BY <1>1, <1>2, BoundAssumption DEF TypeOK, Times

\* A step that leaves the guard alone, or only lets time pass.
LEMMA GuardFrame ==
  ASSUME TypeOK, TypeOK', Guarded, UNCHANGED <<seen, lastFresh, later>>, now <= now'
  PROVE  Guarded'
<1>1. GuardInv' /\ BoundedMemory' /\ LaterInv'
  BY DEF Guarded, GuardInv, BoundedMemory, LaterInv, Remembered
<1>2. now \in Nat /\ now' \in Nat /\ \A i \in DOMAIN lastFresh : lastFresh[i] \in Nat
  BY BoundAssumption DEF TypeOK, Times
<1>3. WindowInv'
  BY <1>2, LiveMonotone DEF Guarded, WindowInv, ForgottenFor, Remembered
<1>. QED
  BY <1>1, <1>3 DEF Guarded

\* A duplicate: nothing changes but that expired entries may go.
LEMMA DuplicateStep ==
  ASSUME TypeOK, TypeOK', Guarded, NEW t \in Times, t <= now,
         seen' = Restrict(seen, Retained(t)), UNCHANGED <<lastFresh, later, now>>
  PROVE  Guarded'
<1>1. Remembered' = Retained(t) /\ \A i \in Retained(t) : seen'[i] = seen[i]
  BY DEF Remembered, Restrict
<1>2. GuardInv' /\ LaterInv'
  BY <1>1, RetainedProperties DEF Guarded, GuardInv, LaterInv
<1>3. BoundedMemory'
  <2>1. Cardinality(Remembered') <= Cardinality(Remembered)
    BY <1>1, RetainedProperties, Numbers, FS_Subset DEF Guarded
  <2>2. Cardinality(Remembered') \in Nat
    BY <1>2, Numbers, FS_CardinalityType, FS_Subset DEF GuardInv
  <2>. QED
    BY <2>1, <2>2, Numbers DEF Guarded, BoundedMemory
<1>4. WindowInv'
  <2> SUFFICES ASSUME NEW i \in DOMAIN lastFresh, i \notin Retained(t)
               PROVE  ForgottenFor(i)
    BY <1>1 DEF WindowInv, ForgottenFor
  <2>1. CASE i \in Remembered
    <3>1. ~Live(lastFresh[i], t)
      BY <2>1, RetainedProperties DEF Guarded, GuardInv
    <3>2. t \in Nat /\ now \in Nat /\ lastFresh[i] \in Nat
      BY Numbers DEF Guarded
    <3>. QED
      BY <3>1, <3>2, LiveMonotone DEF ForgottenFor
  <2>2. CASE i \notin Remembered
    BY <2>2 DEF Guarded, WindowInv
  <2>. QED
    BY <2>1, <2>2
<1>. QED
  BY <1>2, <1>3, <1>4 DEF Guarded

\* A Fresh verdict for id i at reading t: whoever goes is expired, or was pushed
\* out by as many ids as the map holds.
LEMMA FreshStep ==
  ASSUME TypeOK, TypeOK', Guarded, NEW t \in Times, t <= now, NEW i \in Ids,
         NEW kept, kept = Retained(t), ~(i \in kept /\ Live(seen[i], t)),
         NEW out \in Evictions(kept),
         seen' = [j \in (kept \ out) \cup {i} |-> IF j = i THEN t ELSE seen[j]],
         NoteFresh(i, t), now' = now
  PROVE  Guarded'
<1>0. /\ kept \subseteq Remembered /\ \A k \in Remembered \ kept : ~Live(seen[k], t)
      /\ t \in Nat
  BY RetainedProperties, Numbers DEF Guarded
<1>1. /\ DOMAIN lastFresh' = DOMAIN lastFresh \cup {i}
      /\ lastFresh'[i] = t
      /\ \A j \in DOMAIN lastFresh : j # i => /\ lastFresh'[j] = lastFresh[j]
                                              /\ later'[j] = later[j] \cup {i}
      /\ later'[i] = {k \in DOMAIN lastFresh \ {i} : lastFresh[k] >= t}
  BY DEF NoteFresh
<1>2. /\ Remembered' = (kept \ out) \cup {i}
      /\ seen'[i] = t
      /\ \A j \in kept \ out : j # i => seen'[j] = seen[j]
  BY DEF Remembered
<1>3. GuardInv'
  <2>1. IsFiniteSet(DOMAIN lastFresh')
    BY <1>1, FS_AddElement DEF Guarded, GuardInv
  <2>2. Remembered' \subseteq DOMAIN lastFresh'
    BY <1>0, <1>1, <1>2 DEF Guarded, GuardInv
  <2>3. \A j \in Remembered' : seen'[j] = lastFresh'[j]
    BY <1>0, <1>1, <1>2 DEF Guarded, GuardInv
  <2>4. \A j \in DOMAIN lastFresh' : later'[j] \subseteq DOMAIN lastFresh'
    BY <1>1 DEF Guarded, GuardInv
  <2>. QED
    BY <2>1, <2>2, <2>3, <2>4 DEF GuardInv
<1>4. IsFiniteSet(kept) /\ Cardinality(kept) <= Capacity
  <2>1. IsFiniteSet(kept) /\ Cardinality(kept) <= Cardinality(Remembered)
    BY <1>0, Numbers, FS_Subset DEF Guarded
  <2>2. Cardinality(kept) \in Nat
    BY <2>1, FS_CardinalityType
  <2>. QED
    BY <2>1, <2>2, Numbers DEF Guarded, BoundedMemory
<1>5. BoundedMemory'
  BY <1>2, <1>4, RoomForOne DEF BoundedMemory
<1>6. LaterInv'
  BY <1>1, Numbers DEF Guarded, LaterInv
<1>7. WindowInv'
  <2> SUFFICES ASSUME NEW j \in DOMAIN lastFresh', j \notin Remembered'
               PROVE  ForgottenFor(j)'
    BY DEF WindowInv
  <2>1. /\ j \in DOMAIN lastFresh /\ j # i /\ lastFresh'[j] = lastFresh[j]
        /\ later'[j] = later[j] \cup {i} /\ lastFresh[j] \in Nat /\ now \in Nat
    BY <1>1, <1>2, Numbers DEF Guarded
  <2>2. CASE j \notin Remembered
    <3>1. CASE ~Live(lastFresh[j], now)
      BY <2>1, <3>1 DEF ForgottenFor, Live
    <3>2. CASE Cardinality(later[j]) >= Capacity
      <4>1. IsFiniteSet(later[j]) /\ Capacity \in Nat
        BY <2>1, Numbers DEF Guarded
      <4>2. /\ Cardinality(later[j]) \in Nat /\ Cardinality(later'[j]) \in Nat
            /\ Cardinality(later'[j]) >= Cardinality(later[j])
        <5>1. IsFiniteSet(later[j] \cup {i}) /\ later[j] \in SUBSET (later[j] \cup {i})
          BY <4>1, AddOne
        <5>2. Cardinality(later[j]) <= Cardinality(later[j] \cup {i})
          BY <5>1, FS_Subset, Zenon
        <5>3. Cardinality(later[j]) \in Nat /\ Cardinality(later[j] \cup {i}) \in Nat
          BY <4>1, <5>1, FS_CardinalityType, Zenon
        <5>. QED
          BY <2>1, <5>2, <5>3
      <4>. QED
        BY <3>2, <4>1, <4>2 DEF ForgottenFor
    <3>. QED
      BY <2>1, <2>2, <3>1, <3>2 DEF Guarded, WindowInv, ForgottenFor
  <2>3. CASE j \in Remembered /\ ~Live(seen[j], t)
    <3>1. seen[j] = lastFresh[j]
      BY <2>3 DEF Guarded, GuardInv
    <3>. QED
      BY <1>0, <2>1, <2>3, <3>1, LiveMonotone DEF ForgottenFor, Live
  <2>4. CASE j \in Remembered /\ Live(seen[j], t)
    <3>1. j \in kept /\ j \in out
      BY <1>0, <1>2, <2>4
    <3>2. Cardinality(kept) >= Capacity /\ out = {j} /\ \A k \in kept : seen[j] <= seen[k]
      BY <1>4, <3>1, EvictionsProperties
    <3>3. i \notin kept
      \* an expired entry of the new id would be no older than j, and j is live
      <4> SUFFICES ASSUME i \in kept PROVE FALSE
        OBVIOUS
      <4>1. ~Live(seen[i], t) /\ seen[j] <= seen[i] /\ seen[i] \in Nat /\ seen[j] \in Nat
        BY <1>0, <3>1, <3>2, Numbers DEF Guarded
      <4>. QED
        BY <1>0, <2>4, <4>1, BoundAssumption DEF Live
    <3>4. kept \ {j} \subseteq later[j]
      <4> SUFFICES ASSUME NEW k \in kept, k # j PROVE k \in later[j]
        OBVIOUS
      <4>1. /\ k \in DOMAIN lastFresh /\ seen[k] = lastFresh[k] /\ seen[j] = lastFresh[j]
            /\ lastFresh[k] \in Nat /\ seen[j] <= seen[k]
        BY <1>0, <3>1, <3>2, Numbers DEF Guarded, GuardInv
      <4>2. lastFresh[k] >= lastFresh[j]
        BY <2>1, <4>1
      <4>. QED
        BY <2>1, <4>1, <4>2 DEF Guarded, LaterInv
    <3>5. (kept \ {j}) \cup {i} \in SUBSET later'[j]
      BY <2>1, <3>4
    <3>6. Cardinality((kept \ {j}) \cup {i}) = Cardinality(kept)
      <4>1. IsFiniteSet(kept \ {j}) /\ Cardinality(kept \ {j}) = Cardinality(kept) - 1
        BY <1>4, <3>1, FS_RemoveElement
      <4>2. Cardinality((kept \ {j}) \cup {i}) = Cardinality(kept \ {j}) + 1
        BY <3>3, <4>1, AddOne
      <4>3. Cardinality(kept) \in Nat
        BY <1>4, FS_CardinalityType
      <4>. QED
        BY <4>1, <4>2, <4>3
    <3>7. Cardinality((kept \ {j}) \cup {i}) <= Cardinality(later'[j])
      <4>1. IsFiniteSet(later'[j])
        BY <2>1, AddOne, Numbers DEF Guarded
      <4>. QED
        BY <3>5, <4>1, FS_Subset
    <3>8. Cardinality(later'[j]) \in Nat /\ Cardinality(kept) \in Nat /\ Capacity \in Nat
      BY <1>4, <2>1, AddOne, Numbers, FS_CardinalityType DEF Guarded
    <3>. QED
      BY <3>2, <3>6, <3>7, <3>8 DEF ForgottenFor
  <2>. QED
    BY <2>2, <2>3, <2>4
<1>. QED
  BY <1>3, <1>5, <1>6, <1>7 DEF Guarded
\* IInv is inductive.
LEMMA InvStep == IInv /\ [Next]_vars => IInv'
<1> SUFFICES ASSUME IInv, [Next]_vars PROVE IInv'
  OBVIOUS
<1>0. TypeOK /\ TypeOK' /\ HandlerInv /\ HandlerInv' /\ Guarded /\ now \in Nat
  BY TypeStep, BoundAssumption DEF IInv, Guarded, TypeOK, Times
<1> SUFFICES Guarded'
  BY <1>0 DEF IInv, Guarded
<1>1. ASSUME NEW h \in Handlers, NEW x \in Deliveries, Receive(h, x) PROVE Guarded'
  BY <1>0, <1>1, GuardFrame DEF Receive, historyVars
<1>2. ASSUME NEW h \in Handlers, CheckDelivery(h) PROVE Guarded'
  <2> DEFINE i == Id[what[h]]
             t == reading[h]
             kept == Retained(t)
  <2>1. i \in Ids /\ t \in Times /\ t <= now /\ now' = now
    BY <1>0, <1>2 DEF CheckDelivery, HandlerInv, TypeOK
  <2>2. CASE seen' = Restrict(seen, kept) /\ UNCHANGED historyVars
    BY <1>0, <2>1, <2>2, DuplicateStep DEF historyVars
  <2>3. CASE /\ ~(i \in kept /\ Live(seen[i], t))
             /\ \E out \in Evictions(kept) :
                  seen' = [j \in (kept \ out) \cup {i} |-> IF j = i THEN t ELSE seen[j]]
             /\ NoteFresh(i, t)
    <3> HIDE DEF i, t
    <3>1. PICK out \in Evictions(kept) :
            seen' = [j \in (kept \ out) \cup {i} |-> IF j = i THEN t ELSE seen[j]]
      BY <2>3
    <3>. QED
      BY <1>0, <2>1, <2>3, <3>1, FreshStep
  <2>. QED
    BY <1>2, <2>2, <2>3 DEF CheckDelivery
<1>3. ASSUME NEW h \in Handlers, Dispatch(h) PROVE Guarded'
  BY <1>0, <1>3, GuardFrame DEF Dispatch, historyVars
<1>4. CASE Tick
  BY <1>0, <1>4, GuardFrame DEF Tick, historyVars
<1>5. CASE Restart
  <2>1. Remembered' = {} /\ DOMAIN lastFresh' = {}
    BY <1>5, EmptyMap DEF Restart, Remembered
  <2>2. BoundedMemory'
    BY <2>1, FS_EmptySet, BoundAssumption DEF BoundedMemory
  <2>. QED
    BY <2>1, <2>2, FS_EmptySet DEF Guarded, GuardInv, LaterInv, WindowInv
<1>6. CASE UNCHANGED vars
  BY <1>0, <1>6, GuardFrame DEF vars
<1>. QED
  BY <1>1, <1>2, <1>3, <1>4, <1>5, <1>6 DEF Next, Handle

\* Initially the guard knows nothing.
LEMMA InvInit == Init => IInv
<1> SUFFICES ASSUME Init PROVE IInv
  OBVIOUS
<1>1. Remembered = {} /\ DOMAIN lastFresh = {}
  BY EmptyMap DEF Init, Remembered
<1>2. BoundedMemory
  BY <1>1, FS_EmptySet, BoundAssumption DEF BoundedMemory
<1>. QED
  BY <1>1, <1>2, TypeInit, FS_EmptySet DEF IInv, GuardInv, LaterInv, WindowInv

\* DeliveryGuard never remembers more ids than its capacity, however many
\* distinct ids verified deliveries bring.
THEOREM MemoryBounded == Spec => []BoundedMemory
<1>1. IInv => BoundedMemory
  BY DEF IInv
<1>. QED
  BY <1>1, InvInit, InvStep, PTL DEF Spec

\* An id passes the guard again only after its TTL, or after as many others as
\* the guard holds came after it: replays inside that window are refused, also
\* when handlers read the clock and take the lock in different orders.
THEOREM ReplaysRefused == Spec => ReplayWindow
<1>1. IInv /\ [Next]_vars =>
        [\A h \in Handlers :
           LET i == Id[what[h]] IN
             hpc[h] = "check" /\ hpc'[h] = "parse" /\ i \in DOMAIN lastFresh =>
               ~Live(lastFresh[i], now) \/ Cardinality(later[i]) >= Capacity]_vars
  <2> SUFFICES ASSUME IInv, Next, NEW h \in Handlers, hpc[h] = "check", hpc'[h] = "parse",
                      Id[what[h]] \in DOMAIN lastFresh
               PROVE  ForgottenFor(Id[what[h]])
    BY DEF ForgottenFor
  <2> DEFINE i == Id[what[h]]
             t == reading[h]
  <2>0. TypeOK /\ HandlerInv /\ Guarded /\ hpc \in [Handlers -> {"idle", "check", "parse"}]
    BY DEF IInv, Guarded, TypeOK
  <2>1. CheckDelivery(h)
    <3>1. ASSUME NEW g \in Handlers, CheckDelivery(g) PROVE g = h
      BY <2>0, <3>1 DEF CheckDelivery, Respond, Goto
    <3>2. ASSUME NEW g \in Handlers, Dispatch(g) PROVE FALSE
      BY <2>0, <3>2 DEF Dispatch, Respond
    <3>3. ASSUME NEW g \in Handlers, NEW x \in Deliveries, Receive(g, x) PROVE FALSE
      BY <2>0, <3>3 DEF Receive, Respond, Goto
    <3>4. ~Tick /\ ~Restart
      BY <2>0 DEF Tick, Restart, handlerVars
    <3>. QED
      BY <3>1, <3>2, <3>3, <3>4 DEF Next, Handle
  <2>2. ~(i \in Retained(t) /\ Live(seen[i], t))
    BY <2>0, <2>1 DEF CheckDelivery, Respond
  <2>3. t \in Times /\ t \in Nat /\ t <= now /\ now \in Nat /\ lastFresh[i] \in Nat
    BY <2>0, Numbers DEF TypeOK, HandlerInv, Guarded
  <2>4. CASE i \in Remembered
    <3>1. ~Live(lastFresh[i], t)
      BY <2>0, <2>2, <2>3, <2>4, RetainedProperties DEF Guarded, GuardInv
    <3>. QED
      BY <2>3, <3>1, LiveMonotone DEF ForgottenFor
  <2>5. CASE i \notin Remembered
    BY <2>0, <2>5 DEF Guarded, WindowInv
  <2>. QED
    BY <2>4, <2>5
<1>. QED
  BY <1>1, InvInit, InvStep, PTL DEF Spec, ReplayWindow
=============================================================================
