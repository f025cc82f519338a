------------------------- MODULE DecisionCacheProofs -------------------------
(***************************************************************************)
(* Proofs about DecisionCache, for any number of concurrent checks,        *)
(* administrators, cache keys and committed changes.                       *)
(***************************************************************************)
EXTENDS DecisionCache, TLAPS

\* The control points and records the actions assign are well typed.
LEMMA Members ==
  /\ "idle" \in CheckPhases /\ "standing" \in CheckPhases /\ "load" \in CheckPhases
  /\ "lookup" \in CheckPhases /\ "query" \in CheckPhases /\ "insert" \in CheckPhases
  /\ 0 \in Versions /\ Versions \subseteq Nat
  /\ \A v, g \in Versions : [ver |-> v, gen |-> g, fresh |-> TRUE] \in Entry
  /\ \A e \in Entry : [e EXCEPT !.fresh = FALSE] \in Entry
<1>1. 0 \in Versions /\ Versions \subseteq Nat
  BY ChangesAssumption DEF Versions
<1>2. \A v, g \in Versions : [ver |-> v, gen |-> g, fresh |-> TRUE] \in Entry
  BY DEF Entry
<1>3. \A e \in Entry : [e EXCEPT !.fresh = FALSE] \in Entry
  BY DEF Entry
<1>. QED
  BY <1>1, <1>2, <1>3 DEF CheckPhases

\* Every step of every check and administrator keeps the state well formed.
LEMMA TypeStep == TypeOK /\ [Next]_vars => TypeOK'
<1> SUFFICES ASSUME TypeOK, [Next]_vars PROVE TypeOK'
  OBVIOUS
<1> USE Members DEF TypeOK, cacheVars, adminVars, checkVars
<1>1. ASSUME NEW a \in Admins, Commit(a) PROVE TypeOK'
  <2>1. version + 1 \in Versions
    BY <1>1, ChangesAssumption DEF Commit, Versions
  <2>. QED
    BY <1>1, <2>1 DEF Commit
<1>2. ASSUME NEW a \in Admins, Bump(a) PROVE TypeOK'
  <2>1. generation + 1 \in Versions
    BY <1>2, ChangesAssumption DEF Bump, Versions
  <2>. QED
    BY <1>2, <2>1 DEF Bump
<1>3. ASSUME NEW a \in Admins, Clear(a) PROVE TypeOK'
  BY <1>3 DEF Clear
<1>4. ASSUME NEW k \in Keys, Suspend(k) PROVE TypeOK'
  BY <1>4 DEF Suspend
<1>5. ASSUME NEW k \in Keys, Expire(k) PROVE TypeOK'
  BY <1>5 DEF Expire
<1>6. ASSUME NEW c \in Checks, NEW k \in Keys, Begin(c, k) PROVE TypeOK'
  BY <1>6 DEF Begin
<1>7. ASSUME NEW c \in Checks, NEW d \in {"ok", "denied"}, BeginShortcut(c, d) PROVE TypeOK'
  BY <1>7 DEF BeginShortcut, Decide
<1>8. ASSUME NEW c \in Checks, Standing(c) PROVE TypeOK'
  BY <1>8 DEF Standing, Decide
<1>9. ASSUME NEW c \in Checks, LoadGeneration(c) PROVE TypeOK'
  BY <1>9 DEF LoadGeneration
<1>10. ASSUME NEW c \in Checks, Lookup(c) PROVE TypeOK'
  <2>1. CASE Hits(c)
    <3>1. entries[key[c]].ver \in Versions
      BY <2>1 DEF Hits, Entry
    <3>. QED
      BY <1>10, <2>1, <3>1 DEF Lookup, Judge, Decide
  <2>2. CASE ~Hits(c)
    BY <1>10, <2>2 DEF Lookup
  <2>. QED
    BY <2>1, <2>2
<1>11. ASSUME NEW c \in Checks, Query(c) PROVE TypeOK'
  BY <1>11 DEF Query, Decide
<1>12. ASSUME NEW c \in Checks, Insert(c) PROVE TypeOK'
  BY <1>12 DEF Insert, Judge, Decide
<1>13. CASE UNCHANGED vars
  BY <1>13 DEF vars
<1>. QED
  BY <1>1, <1>2, <1>3, <1>4, <1>5, <1>6, <1>7, <1>8, <1>9, <1>10, <1>11, <1>12, <1>13
     DEF Next, Check

\* DecisionCache's state always has its type, for every instance.
THEOREM TypeCorrect == Spec => []TypeOK
<1>1. Init => TypeOK
  BY Members DEF Init, TypeOK
<1>. QED
  BY <1>1, TypeStep, PTL DEF Spec

-----------------------------------------------------------------------------
(***************************************************************************)
(* The argument.  A change counts as announced at the generation its       *)
(* invalidate() created.  A check stamps what it caches with the           *)
(* generation it loaded before querying, and the query is no older than    *)
(* what that generation had announced; so an entry that matches a          *)
(* generation is at least as new as the changes announced by it.           *)
(***************************************************************************)

\* Later generations announce no less, and nothing uncommitted.
SettledInv ==
  /\ settled[generation] <= version
  /\ \A g \in Versions : g <= generation => settled[g] <= settled[generation]
  /\ \A a \in Admins : made[a] <= version

\* A cached entry is as new as its own generation requires.
EntryInv(k) ==
  entries[k] # NoEntry => /\ entries[k].gen <= generation
                          /\ settled[entries[k].gen] <= entries[k].ver

\* A check past its generation load holds one that announces what was settled
\* when it began, and past its query holds permissions as new as that.
CheckInv(c) ==
  /\ floor[c] <= settled[generation]
  /\ cpc[c] \in {"lookup", "query", "insert"} =>
       gen[c] <= generation /\ floor[c] <= settled[gen[c]]
  /\ cpc[c] = "insert" => settled[gen[c]] <= used[c]
  /\ decision[c] \in {"ok", "denied"} => floor[c] <= used[c]

IInv ==
  /\ TypeOK
  /\ SettledInv
  /\ \A k \in Keys : EntryInv(k)
  /\ \A c \in Checks : CheckInv(c)

\* The parts of the state the inductive invariant compares are natural numbers.
LEMMA Numbers ==
  ASSUME TypeOK
  PROVE  /\ version \in Nat /\ generation \in Nat
         /\ \A a \in Admins : made[a] \in Nat
         /\ \A g \in Versions : settled[g] \in Nat
         /\ \A c \in Checks : gen[c] \in Nat /\ used[c] \in Nat /\ floor[c] \in Nat
         /\ \A k \in Keys : entries[k] # NoEntry =>
              /\ entries[k].gen \in Versions /\ entries[k].gen \in Nat
              /\ entries[k].ver \in Nat
BY Members DEF TypeOK, Entry

\* A step of check c that leaves the database, the generation and the cache
\* alone preserves the invariant if c's own part holds afterwards.
LEMMA CheckFrame ==
  ASSUME IInv, TypeOK', NEW c \in Checks, CheckInv(c)',
         UNCHANGED <<version, generation, entries, made, settled>>,
         \A b \in Checks : b # c =>
           /\ cpc'[b] = cpc[b] /\ gen'[b] = gen[b] /\ used'[b] = used[b]
           /\ decision'[b] = decision[b] /\ floor'[b] = floor[b]
  PROVE  IInv'
<1>1. SettledInv'
  BY DEF IInv, SettledInv
<1>2. \A k \in Keys : EntryInv(k)'
  BY DEF IInv, EntryInv
<1>3. \A b \in Checks : CheckInv(b)'
  BY DEF IInv, CheckInv
<1>. QED
  BY <1>1, <1>2, <1>3 DEF IInv

\* IInv is inductive.
LEMMA InvStep == IInv /\ [Next]_vars => IInv'
<1> SUFFICES ASSUME IInv, [Next]_vars PROVE IInv'
  OBVIOUS
<1> USE DEF cacheVars, adminVars, checkVars
<1>0. TypeOK /\ TypeOK'
  BY TypeStep DEF IInv
<1>1. ASSUME NEW a \in Admins, Commit(a) PROVE IInv'
  <2>1. version <= version' /\ (\A b \in Admins : made'[b] = made[b] \/ made'[b] = version')
    BY <1>0, <1>1, Numbers DEF Commit, TypeOK
  <2>2. SettledInv'
    BY <1>0, <1>1, <2>1, Numbers DEF IInv, Commit, SettledInv, TypeOK
  <2>. QED
    BY <1>0, <1>1, <2>2 DEF IInv, Commit, EntryInv, CheckInv
<1>2. ASSUME NEW a \in Admins, Bump(a) PROVE IInv'
  <2>0. /\ generation' = generation + 1 /\ generation + 1 \in Versions
        /\ settled \in [Versions -> Versions] /\ generation \in Nat
    BY <1>0, <1>2, Numbers, ChangesAssumption DEF Bump, TypeOK, Versions
  <2>6. made[a] <= version /\ settled[generation] <= version
    BY DEF IInv, SettledInv
  <2>7. PICK m \in Nat : /\ m = settled[generation] \/ m = made[a]
                         /\ settled[generation] <= m
                         /\ settled' = [settled EXCEPT ![generation + 1] = m]
    <3>1. made[a] \in Nat /\ settled[generation] \in Nat
      BY <1>0, Numbers DEF TypeOK
    <3>2. CASE made[a] > settled[generation]
      <4>1. settled' = [settled EXCEPT ![generation + 1] = made[a]]
        BY <1>2, <3>2 DEF Bump
      <4>2. settled[generation] <= made[a]
        BY <3>1, <3>2
      <4>. QED
        BY <3>1, <4>1, <4>2, Zenon
    <3>3. CASE ~(made[a] > settled[generation])
      <4>1. settled' = [settled EXCEPT ![generation + 1] = settled[generation]]
        BY <1>2, <3>3 DEF Bump
      <4>2. settled[generation] <= settled[generation]
        BY <3>1
      <4>. QED
        BY <3>1, <4>1, <4>2, Zenon
    <3>. QED
      BY <3>2, <3>3
  <2>1. /\ \A g \in Versions : g <= generation => settled'[g] = settled[g]
        /\ settled'[generation + 1] = m
        /\ m <= version
    BY <2>0, <2>6, <2>7, Numbers, Members
  <2>2. UNCHANGED <<version, entries, made, checkVars>>
    BY <1>2 DEF Bump
  <2>8. \A g \in Versions : g <= generation => settled[g] <= settled[generation]
    BY DEF IInv, SettledInv
  <2>3. SettledInv'
    <3>1. ASSUME NEW g \in Versions, g <= generation + 1
          PROVE  settled'[g] <= settled'[generation + 1]
      <4>1. CASE g = generation + 1
        BY <2>1, <4>1
      <4>2. CASE g <= generation
        BY <1>0, <2>1, <2>7, <2>8, <4>2, Numbers DEF TypeOK
      <4>. QED
        BY <2>0, <3>1, <4>1, <4>2, Members
    <3>. QED
      BY <2>0, <2>1, <2>2, <3>1 DEF IInv, SettledInv
  <2>4. \A k \in Keys : EntryInv(k)'
    BY <1>0, <2>0, <2>1, <2>2, Numbers DEF IInv, EntryInv
  <2>5. ASSUME NEW c \in Checks PROVE CheckInv(c)'
    <3>1. floor[c] <= m
      BY <1>0, <2>7, Numbers DEF IInv, CheckInv, TypeOK
    <3>2. CASE cpc[c] \in {"lookup", "query", "insert"}
      <4>1. gen[c] <= generation + 1 /\ settled'[gen[c]] = settled[gen[c]]
        BY <1>0, <2>0, <2>1, <3>2, Numbers DEF IInv, CheckInv, TypeOK
      <4>. QED
        BY <2>0, <2>1, <2>2, <3>1, <3>2, <4>1 DEF IInv, CheckInv
    <3>3. CASE cpc[c] \notin {"lookup", "query", "insert"}
      BY <2>0, <2>1, <2>2, <3>1, <3>3 DEF IInv, CheckInv
    <3>. QED
      BY <3>2, <3>3
  <2>. QED
    BY <1>0, <2>3, <2>4, <2>5 DEF IInv
<1>3. ASSUME NEW a \in Admins, Clear(a) PROVE IInv'
  BY <1>0, <1>3 DEF IInv, Clear, SettledInv, EntryInv, CheckInv
<1>4. ASSUME NEW k \in Keys, Suspend(k) PROVE IInv'
  BY <1>0, <1>4 DEF IInv, Suspend, SettledInv, EntryInv, CheckInv
<1>5. ASSUME NEW k \in Keys, Expire(k) PROVE IInv'
  <2>1. \A j \in Keys : EntryInv(j)'
    <3>1. /\ \A j \in Keys : j # k => entries'[j] = entries[j]
          /\ entries'[k].gen = entries[k].gen /\ entries'[k].ver = entries[k].ver
          /\ entries[k] # NoEntry
      BY <1>0, <1>5 DEF Expire, TypeOK, Entry
    <3>. QED
      BY <1>5, <3>1 DEF IInv, EntryInv, Expire
  <2>. QED
    BY <1>0, <1>5, <2>1 DEF IInv, Expire, SettledInv, CheckInv
<1>6. ASSUME NEW c \in Checks, NEW k \in Keys, Begin(c, k) PROVE IInv'
  <2>1. CheckInv(c)'
    BY <1>0, <1>6, Numbers DEF IInv, Begin, CheckInv, TypeOK
  <2>. QED
    BY <1>0, <1>6, <2>1, CheckFrame DEF Begin, TypeOK
<1>7. ASSUME NEW c \in Checks, NEW d \in {"ok", "denied"}, BeginShortcut(c, d) PROVE IInv'
  <2>1. CheckInv(c)'
    BY <1>0, <1>7, Numbers DEF IInv, SettledInv, BeginShortcut, Decide, CheckInv, TypeOK
  <2>. QED
    BY <1>0, <1>7, <2>1, CheckFrame DEF BeginShortcut, Decide, TypeOK
<1>8. ASSUME NEW c \in Checks, Standing(c) PROVE IInv'
  <2>1. CheckInv(c)'
    BY <1>0, <1>8, Numbers DEF IInv, SettledInv, Standing, Decide, CheckInv, TypeOK
  <2>. QED
    BY <1>0, <1>8, <2>1, CheckFrame DEF Standing, Decide, TypeOK
<1>9. ASSUME NEW c \in Checks, LoadGeneration(c) PROVE IInv'
  <2>1. CheckInv(c)'
    BY <1>0, <1>9, Numbers DEF IInv, LoadGeneration, CheckInv, TypeOK
  <2>. QED
    BY <1>0, <1>9, <2>1, CheckFrame DEF LoadGeneration, TypeOK
<1>10. ASSUME NEW c \in Checks, Lookup(c) PROVE IInv'
  <2>1. CheckInv(c)'
    <3>1. CASE Hits(c)
      BY <1>0, <1>10, <3>1, Numbers
         DEF IInv, EntryInv, Lookup, Hits, Judge, Decide, CheckInv, TypeOK
    <3>2. CASE ~Hits(c)
      BY <1>0, <1>10, <3>2, Numbers DEF IInv, Lookup, CheckInv, TypeOK
    <3>. QED
      BY <3>1, <3>2
  <2>. QED
    BY <1>0, <1>10, <2>1, CheckFrame DEF Lookup, Judge, Decide, TypeOK
<1>11. ASSUME NEW c \in Checks, Query(c) PROVE IInv'
  <2>1. CheckInv(c)'
    BY <1>0, <1>11, Numbers DEF IInv, SettledInv, Query, Decide, CheckInv, TypeOK
  <2>. QED
    BY <1>0, <1>11, <2>1, CheckFrame DEF Query, Decide, TypeOK
<1>12. ASSUME NEW c \in Checks, Insert(c) PROVE IInv'
  <2>1. \A k \in Keys : EntryInv(k)'
    <3>1. /\ \A k \in Keys : k # key[c] => entries'[k] = entries[k]
          /\ entries'[key[c]].gen = gen[c] /\ entries'[key[c]].ver = used[c]
      BY <1>0, <1>12 DEF Insert, TypeOK
    <3>. QED
      BY <1>0, <1>12, <3>1 DEF IInv, EntryInv, CheckInv, Insert
  <2>2. \A b \in Checks : CheckInv(b)'
    BY <1>0, <1>12, Numbers DEF IInv, Insert, Judge, Decide, CheckInv, TypeOK
  <2>3. SettledInv'
    BY <1>12 DEF IInv, Insert, SettledInv
  <2>. QED
    BY <1>0, <2>1, <2>2, <2>3 DEF IInv
<1>13. CASE UNCHANGED vars
  BY <1>0, <1>13 DEF vars, IInv, SettledInv, EntryInv, CheckInv
<1>. QED
  BY <1>1, <1>2, <1>3, <1>4, <1>5, <1>6, <1>7, <1>8, <1>9, <1>10, <1>11, <1>12, <1>13
     DEF Next, Check

\* Initially nothing is cached, announced or decided.
LEMMA InvInit == Init => IInv
<1> SUFFICES ASSUME Init PROVE IInv
  OBVIOUS
<1>1. TypeOK
  BY Members DEF Init, TypeOK
<1>. QED
  BY <1>1, Members DEF Init, IInv, SettledInv, EntryInv, CheckInv

\* No check decides on a database older than a change whose invalidate() bumped
\* the generation before the check began: DecisionCache::permissions never
\* serves a decision a revocation has overtaken.
THEOREM NeverStale == Spec => []NoStaleDecision
<1>1. IInv => NoStaleDecision
  BY Numbers DEF IInv, CheckInv, NoStaleDecision
<1>. QED
  BY <1>1, InvInit, InvStep, PTL DEF Spec

\* Whatever slow queries put in the cache, the entries a check can hit are at
\* least as new as every change announced by the current generation.
THEOREM CacheFresh == Spec => []CurrentEntriesFresh
<1>1. IInv => CurrentEntriesFresh
  BY Numbers DEF IInv, EntryInv, CurrentEntriesFresh, TypeOK
<1>. QED
  BY <1>1, InvInit, InvStep, PTL DEF Spec

-----------------------------------------------------------------------------
(***************************************************************************)
(* Suspension.  A check that began after its principal was suspended       *)
(* never gets past is_active_principal: suspensions are not undone, and    *)
(* the cache is only looked at behind that query.                          *)
(***************************************************************************)

\* A barred check asks about a suspended principal, and is stopped at its
\* first query or already answered.
BarredInv(c) ==
  c \in barred => /\ key[c] \in suspended
                  /\ cpc[c] \in {"idle", "standing"}
                  /\ decision[c] # "ok"

\* Both the principal's standing and the checks' progress are inductive.
LEMMA BarredStep ==
  ASSUME TypeOK, \A c \in Checks : BarredInv(c), [Next]_vars
  PROVE  \A c \in Checks : BarredInv(c)'
<1> SUFFICES ASSUME NEW b \in Checks PROVE BarredInv(b)'
  OBVIOUS
<1> USE DEF TypeOK, cacheVars, adminVars, checkVars, BarredInv
<1>1. ASSUME NEW a \in Admins, Commit(a) \/ Bump(a) \/ Clear(a) PROVE BarredInv(b)'
  BY <1>1 DEF Commit, Bump, Clear
<1>2. ASSUME NEW k \in Keys, Suspend(k) \/ Expire(k) PROVE BarredInv(b)'
  BY <1>2 DEF Suspend, Expire
<1>3. ASSUME NEW c \in Checks, NEW k \in Keys, Begin(c, k) PROVE BarredInv(b)'
  <2>1. CASE b = c
    BY <1>3, <2>1 DEF Begin
  <2>2. CASE b # c
    BY <1>3, <2>2 DEF Begin
  <2>. QED
    BY <2>1, <2>2
<1>4. ASSUME NEW c \in Checks, NEW d \in {"ok", "denied"}, BeginShortcut(c, d)
      PROVE  BarredInv(b)'
  BY <1>4 DEF BeginShortcut, Decide
<1>5. ASSUME NEW c \in Checks, Standing(c) PROVE BarredInv(b)'
  BY <1>5 DEF Standing, Decide
<1>6. ASSUME NEW c \in Checks, LoadGeneration(c) PROVE BarredInv(b)'
  BY <1>6 DEF LoadGeneration
<1>7. ASSUME NEW c \in Checks, Lookup(c) PROVE BarredInv(b)'
  BY <1>7 DEF Lookup, Judge, Decide
<1>8. ASSUME NEW c \in Checks, Query(c) PROVE BarredInv(b)'
  BY <1>8 DEF Query, Decide
<1>9. ASSUME NEW c \in Checks, Insert(c) PROVE BarredInv(b)'
  BY <1>9 DEF Insert, Judge, Decide
<1>10. CASE UNCHANGED vars
  BY <1>10 DEF vars
<1>. QED
  BY <1>1, <1>2, <1>3, <1>4, <1>5, <1>6, <1>7, <1>8, <1>9, <1>10 DEF Next, Check

\* No check that began after its principal was suspended is answered ok, with
\* or without an invalidate(), whatever the cache holds: authorize asks
\* is_active_principal before it asks the cache.
THEOREM SuspendedStaysOut == Spec => []SuspendedLockedOut
<1> DEFINE Barred == \A c \in Checks : BarredInv(c)
<1>1. Init => Barred
  BY DEF Init, BarredInv
<1>2. TypeOK /\ Barred /\ [Next]_vars => Barred'
  BY BarredStep
<1>3. TypeOK /\ Barred => SuspendedLockedOut
  BY DEF TypeOK, BarredInv, SuspendedLockedOut
<1> HIDE DEF Barred
<1>. QED
  BY <1>1, <1>2, <1>3, TypeCorrect, PTL DEF Spec
=============================================================================
