--------------------------- MODULE DecisionCache ----------------------------
(***************************************************************************)
(* jet-authz: DbAuthorizer::authorize over the DecisionCache, with checks  *)
(* interleaving with each other and with administrators who change grants  *)
(* and then call invalidate().                                             *)
(*                                                                         *)
(* The database is a version number; what a principal holds at a scope is  *)
(* a function of the version.  A read-pool query returns the version that  *)
(* is committed when it runs.                                              *)
(***************************************************************************)
EXTENDS Naturals

CONSTANTS
  Checks,        \* tasks calling authorize
  Admins,        \* tasks changing memberships, grants, roles or teams
  Keys,          \* cache keys: (org, principal, scope kind, scope id)
  Allows,        \* Allows[k]: versions at which k holds the permission asked for
  MaxChanges,    \* bound: committed changes
  Forgetful,     \* some call site may forget to invalidate
  NoEntry        \* no cache entry

Versions == 0 .. MaxChanges

ASSUME ChangesAssumption == MaxChanges \in Nat
ASSUME AllowsAssumption == Allows \in [Keys -> SUBSET Versions]
ASSUME ForgetfulAssumption == Forgetful \in BOOLEAN

Entry == [ver : Versions, gen : Versions, fresh : BOOLEAN]
ASSUME NoEntryAssumption == NoEntry \notin Entry

VARIABLES
  version,       \* the committed database
  suspended,     \* keys whose principal is not active
  generation,    \* DecisionCache.generation
  entries,       \* DecisionCache.entries; fresh while younger than CACHE_TTL
  apc, made,     \* administrators: control point, version they committed
  cpc, key, gen, \* checks: control point, cache key, gen_now
  used,          \* version the held permissions come from
  decision,      \* what the last authorize returned
  \* history
  settled,       \* settled[g]: newest change announced when generation became g
  floor,         \* newest change announced when the check began
  barred         \* checks that began after their principal was suspended

cacheVars == <<generation, entries>>
adminVars == <<apc, made>>
checkVars == <<cpc, key, gen, used, decision, floor, barred>>
vars == <<version, suspended, generation, entries, apc, made, cpc, key, gen, used,
          decision, settled, floor, barred>>

CheckPhases == {"idle", "standing", "load", "lookup", "query", "insert"}

TypeOK ==
  /\ version \in Versions
  /\ suspended \subseteq Keys
  /\ generation \in Versions
  /\ entries \in [Keys -> Entry \cup {NoEntry}]
  /\ apc \in [Admins -> {"idle", "bump", "clear"}]
  /\ made \in [Admins -> Versions]
  /\ cpc \in [Checks -> CheckPhases]
  /\ key \in [Checks -> Keys]
  /\ gen \in [Checks -> Versions]
  /\ used \in [Checks -> Versions]
  /\ decision \in [Checks -> {"none", "ok", "denied", "error"}]
  /\ settled \in [Versions -> Versions]
  /\ floor \in [Checks -> Versions]
  /\ barred \subseteq Checks

Init ==
  /\ version = 0
  /\ suspended = {}
  /\ generation = 0
  /\ entries = [k \in Keys |-> NoEntry]
  /\ apc = [a \in Admins |-> "idle"]
  /\ made = [a \in Admins |-> 0]
  /\ cpc = [c \in Checks |-> "idle"]
  /\ key \in [Checks -> Keys]
  /\ gen = [c \in Checks |-> 0]
  /\ used = [c \in Checks |-> 0]
  /\ decision = [c \in Checks |-> "none"]
  /\ settled = [g \in Versions |-> 0]
  /\ floor = [c \in Checks |-> 0]
  /\ barred = {}

-----------------------------------------------------------------------------
(* Administrators *)

\* A write transaction commits; its call site goes on to invalidate, or not.
Commit(a) ==
  /\ apc[a] = "idle"
  /\ version < MaxChanges
  /\ version' = version + 1
  /\ \/ /\ apc' = [apc EXCEPT ![a] = "bump"]
        /\ made' = [made EXCEPT ![a] = version + 1]
     \/ Forgetful /\ UNCHANGED adminVars
  /\ UNCHANGED <<suspended, cacheVars, checkVars, settled>>

\* Suspending an account or membership: read afresh by every check.
Suspend(k) ==
  /\ suspended' = suspended \cup {k}
  /\ UNCHANGED <<version, cacheVars, adminVars, checkVars, settled>>

\* Mutant of Bump: two invalidations that overlap count twice.
BumpTwice(a) ==
  /\ apc[a] = "bump"
  /\ apc' = [apc EXCEPT ![a] = "clear"]
  /\ generation' = generation + 2
  /\ UNCHANGED <<version, suspended, entries, made, checkVars, settled>>

\* invalidate(): generation.fetch_add(1), then entries.clear().
Bump(a) ==
  /\ apc[a] = "bump"
  /\ apc' = [apc EXCEPT ![a] = "clear"]
  /\ generation < MaxChanges
  /\ generation' = generation + 1
  /\ settled' = [settled EXCEPT ![generation + 1] =
                   IF made[a] > settled[generation] THEN made[a] ELSE settled[generation]]
  /\ UNCHANGED <<version, suspended, entries, made, checkVars>>

Clear(a) ==
  /\ apc[a] = "clear"
  /\ apc' = [apc EXCEPT ![a] = "idle"]
  /\ entries' = [k \in Keys |-> NoEntry]
  /\ UNCHANGED <<version, suspended, generation, made, checkVars, settled>>

\* CACHE_TTL runs out for an entry.
Expire(k) ==
  /\ entries[k] # NoEntry
  /\ entries[k].fresh
  /\ entries' = [entries EXCEPT ![k] = [@ EXCEPT !.fresh = FALSE]]
  /\ UNCHANGED <<version, suspended, generation, adminVars, checkVars, settled>>

-----------------------------------------------------------------------------
(* authorize *)

Decide(c, d) ==
  /\ cpc' = [cpc EXCEPT ![c] = "idle"]
  /\ decision' = [decision EXCEPT ![c] = d]

\* held.contains(&permission)
Judge(c, v) ==
  /\ used' = [used EXCEPT ![c] = v]
  /\ Decide(c, IF v \in Allows[key[c]] THEN "ok" ELSE "denied")

Begin(c, k) ==
  /\ cpc[c] = "idle"
  /\ cpc' = [cpc EXCEPT ![c] = "standing"]
  /\ key' = [key EXCEPT ![c] = k]
  /\ decision' = [decision EXCEPT ![c] = "none"]
  /\ floor' = [floor EXCEPT ![c] = settled[generation]]
  /\ barred' = IF k \in suspended THEN barred \cup {c} ELSE barred \ {c}
  /\ UNCHANGED <<version, suspended, cacheVars, adminVars, gen, used, settled>>

\* The system principal and a scope of another organization are decided without
\* the database: the answer is right for every version.
BeginShortcut(c, d) ==
  /\ cpc[c] = "idle"
  /\ d \in {"ok", "denied"}
  /\ Decide(c, d)
  /\ used' = [used EXCEPT ![c] = version]
  /\ floor' = [floor EXCEPT ![c] = settled[generation]]
  /\ barred' = barred \ {c}
  /\ UNCHANGED <<version, suspended, cacheVars, adminVars, key, gen, settled>>

\* Mutant of Standing: only the permissions decide.
StandingSkipped(c) ==
  /\ cpc[c] = "standing"
  /\ cpc' = [cpc EXCEPT ![c] = "load"]
  /\ UNCHANGED <<version, suspended, cacheVars, adminVars, key, gen, used, decision,
                 settled, floor, barred>>

\* is_active_principal: queried every time, never cached.
Standing(c) ==
  /\ cpc[c] = "standing"
  /\ \/ /\ key[c] \notin suspended
        /\ cpc' = [cpc EXCEPT ![c] = "load"]
        /\ UNCHANGED <<decision, used>>
     \/ /\ Decide(c, "error")
        /\ UNCHANGED used
     \/ /\ key[c] \in suspended
        /\ used' = [used EXCEPT ![c] = version]
        /\ Decide(c, "denied")
  /\ UNCHANGED <<version, suspended, cacheVars, adminVars, key, gen, settled, floor, barred>>

\* let gen_now = self.generation.load(..)
LoadGeneration(c) ==
  /\ cpc[c] = "load"
  /\ cpc' = [cpc EXCEPT ![c] = "lookup"]
  /\ gen' = [gen EXCEPT ![c] = generation]
  /\ UNCHANGED <<version, suspended, cacheVars, adminVars, key, used, decision, settled,
                 floor, barred>>

\* Mutant of Hits: the age of an entry is not looked at.
HitsForever(c) ==
  /\ entries[key[c]] # NoEntry
  /\ entries[key[c]].gen = gen[c]

Hits(c) ==
  /\ entries[key[c]] # NoEntry
  /\ entries[key[c]].gen = gen[c]
  /\ entries[key[c]].fresh

Lookup(c) ==
  /\ cpc[c] = "lookup"
  /\ \/ /\ Hits(c)
        /\ Judge(c, entries[key[c]].ver)
     \/ /\ ~Hits(c)
        /\ cpc' = [cpc EXCEPT ![c] = "query"]
        /\ UNCHANGED <<used, decision>>
  /\ UNCHANGED <<version, suspended, cacheVars, adminVars, key, gen, settled, floor, barred>>

\* query_permissions on the read pool, or a store error.
Query(c) ==
  /\ cpc[c] = "query"
  /\ \/ /\ used' = [used EXCEPT ![c] = version]
        /\ cpc' = [cpc EXCEPT ![c] = "insert"]
        /\ UNCHANGED decision
     \/ /\ Decide(c, "error")
        /\ UNCHANGED used
  /\ UNCHANGED <<version, suspended, cacheVars, adminVars, key, gen, settled, floor, barred>>

\* Mutant of Insert: the entry is stamped with the generation at the insert.
InsertRestamped(c) ==
  /\ cpc[c] = "insert"
  /\ entries' = [entries EXCEPT ![key[c]] =
                   [ver |-> used[c], gen |-> generation, fresh |-> TRUE]]
  /\ Judge(c, used[c])
  /\ UNCHANGED <<version, suspended, generation, adminVars, key, gen, settled, floor, barred>>

\* The entry is stamped with the generation loaded before the query.
Insert(c) ==
  /\ cpc[c] = "insert"
  /\ entries' = [entries EXCEPT ![key[c]] =
                   [ver |-> used[c], gen |-> gen[c], fresh |-> TRUE]]
  /\ Judge(c, used[c])
  /\ UNCHANGED <<version, suspended, generation, adminVars, key, gen, settled, floor, barred>>

-----------------------------------------------------------------------------

Check(c) ==
  \/ Standing(c) \/ LoadGeneration(c) \/ Lookup(c) \/ Query(c) \/ Insert(c)

Next ==
  \/ \E a \in Admins : Commit(a) \/ Bump(a) \/ Clear(a)
  \/ \E k \in Keys : Suspend(k) \/ Expire(k)
  \/ \E c \in Checks : \/ \E k \in Keys : Begin(c, k)
                       \/ \E d \in {"ok", "denied"} : BeginShortcut(c, d)
                       \/ Check(c)

Spec == Init /\ [][Next]_vars

\* Tasks are polled until they finish, clients keep asking, and time passes.
FairSpec ==
  /\ Spec
  /\ \A a \in Admins : WF_vars(Bump(a) \/ Clear(a))
  /\ \A k \in Keys : WF_vars(Expire(k))
  /\ \A c \in Checks : /\ WF_vars(Check(c))
                       /\ \A k \in Keys : SF_vars(Begin(c, k))

-----------------------------------------------------------------------------
(* Properties *)

\* Once invalidate() has announced a change, no check that begins afterwards
\* decides on an older database, however old fills interleave with it
\* (lib.rs:95-101, "stale access after a revocation").
NoStaleDecision ==
  \A c \in Checks : decision[c] \in {"ok", "denied"} => used[c] >= floor[c]

\* The entries a check can hit are at least as new as every change announced
\* when the current generation began, even those filled by slow queries.
CurrentEntriesFresh ==
  \A k \in Keys : entries[k] # NoEntry /\ entries[k].gen = generation =>
    entries[k].ver >= settled[generation]

\* A suspended principal is locked out at once, with no invalidate() and
\* whatever the cache still holds for it.
SuspendedLockedOut ==
  \A c \in barred : decision[c] # "ok"

\* The fill lock makes a burst of identical checks issue one query
\* (lib.rs:183-184).
OneQueryPerBurst ==
  \A b, c \in Checks : b # c /\ cpc[b] = "query" /\ cpc[c] = "query"
                       /\ gen[b] = gen[c] => key[b] # key[c]

\* When changes stop, decisions eventually come from the final database, even
\* if a call site forgot to invalidate: the TTL backstop (lib.rs:167-168).
BackstopConverges ==
  \A c \in Checks : \A v \in Versions :
    <>[](version = v) => <>[](decision[c] \in {"ok", "denied"} => used[c] = v)
=============================================================================
