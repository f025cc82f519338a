----------------------------- MODULE Bootstrap ------------------------------
(***************************************************************************)
(* What a server does to the database before it serves: Db::open with its   *)
(* migrations, then bootstrap, which reconciles the built-in roles in one   *)
(* transaction.                                                             *)
(*                                                                          *)
(* Several servers of several builds share the database, as in a rolling    *)
(* upgrade, and a server may die at any point. SQLite admits one writing    *)
(* transaction at a time; readers see what is committed. A transaction is   *)
(* the private copy tx of the tables it writes, which takes effect at its   *)
(* commit and is dropped when its server dies.                              *)
(***************************************************************************)
EXTENDS Roles, FiniteSets

CONSTANTS
    Servers,
    Builds,     \* the builds a server can be started from
    Level,      \* Level[b]: b's migrations are 1 .. Level[b]
    Knows,      \* Knows[b]: Permission::ALL of b
    Table,      \* Table[b][r]: SystemRole::permissions of b
    Catalog,    \* Catalog[m]: the permissions migration m adds to the catalog
    CustomRoles,\* ids of roles that organizations define
    MaxStarts,  \* bound on starts of servers
    None        \* no value

MaxLevel == CHOOSE n \in {Level[b] : b \in Builds} : \A b \in Builds : Level[b] <= n
Roles == {SystemRoles[i] : i \in DOMAIN SystemRoles}

\* What a server that exits on its own reports
Errors == {"VersionMissing", "Migrate", "SQLITE_BUSY", "Invalid", "ForeignKey"}

ASSUME BuildsAssumption ==
    /\ Level \in [Builds -> Nat \ {0}]
    /\ DOMAIN Catalog = 1 .. MaxLevel
    /\ \A b \in Builds : DOMAIN Table[b] = Roles /\ \A r \in Roles : Table[b][r] \subseteq Knows[b]
    /\ CustomRoles \cap Nat = {}
    /\ None \notin Nat \cup Servers \cup Builds \cup CustomRoles \cup Errors

\* An owner may manage the organization in every build: SystemRole::permissions
\* gives it Permission::ALL
ASSUME OwnerAssumption == \A b \in Builds : "org.manage" \in Table[b]["owner"]

VARIABLES
    applied,  \* the migrations in _sqlx_migrations
    roles,    \* the id of each system role, or None
    perms,    \* role_permissions: from role ids to sets of permission keys
    lock,     \* the server whose transaction holds the write lock, or None
    srv,      \* what each server is doing
    starts

dbVars == <<applied, roles, perms>>
bootVars == <<applied, roles, perms, lock, srv, starts>>

\* The catalog that the applied migrations have built
Permitted == UNION {Catalog[m] : m \in applied}

Migrations(s) == 1 .. Level[srv[s].build]

Down(why) == [pc |-> "down", build |-> None, seen |-> {}, tx |-> None, todo |-> 0,
              error |-> why]

Goto(s, pc) == srv' = [srv EXCEPT ![s].pc = pc]

\* The server exits with an error; its transaction is rolled back
Abort(s, why) ==
    /\ srv' = [srv EXCEPT ![s] = Down(why)]
    /\ lock' = IF lock = s THEN None ELSE lock

(***************************************************************************)
(* Db::open                                                                 *)
(***************************************************************************)
Start(s, b) ==
    /\ srv[s].pc = "down"
    /\ starts < MaxStarts
    /\ starts' = starts + 1
    /\ srv' = [srv EXCEPT ![s] = [Down(None) EXCEPT !.pc = "list", !.build = b]]
    /\ UNCHANGED <<applied, roles, perms, lock>>

\* Migrator::run reads what is applied, and refuses a database with a migration
\* it does not have
ListApplied(s) ==
    /\ srv[s].pc = "list"
    /\ IF applied \subseteq Migrations(s)
         THEN /\ srv' = [srv EXCEPT ![s].seen = applied,
                           ![s].pc = IF applied = Migrations(s) THEN "verify" ELSE "migrate"]
              /\ UNCHANGED lock
         ELSE Abort(s, "VersionMissing")
    /\ UNCHANGED <<applied, roles, perms, starts>>

\* The next migration, in a transaction of its own. SQLite's migrator takes no
\* lock across them, so another server can have applied it meanwhile, and then
\* its CREATE TABLE fails.
Migrate(s) ==
    /\ srv[s].pc = "migrate"
    /\ lock = None
    /\ LET m == CHOOSE n \in Migrations(s) \ srv[s].seen :
                  \A k \in Migrations(s) \ srv[s].seen : n <= k
       IN  IF m \in applied
             THEN Abort(s, "Migrate") /\ UNCHANGED applied
             ELSE /\ applied' = applied \cup {m}
                  /\ srv' = [srv EXCEPT ![s].seen = @ \cup {m},
                       ![s].pc = IF srv[s].seen \cup {m} = Migrations(s)
                                   THEN "verify" ELSE "migrate"]
                  /\ UNCHANGED lock
    /\ UNCHANGED <<roles, perms, starts>>

\* A statement waits for the write lock longer than busy_timeout
Busy(s) ==
    /\ srv[s].pc \in {"migrate", "begin"}
    /\ lock # None
    /\ Abort(s, "SQLITE_BUSY")
    /\ UNCHANGED <<applied, roles, perms, starts>>

(***************************************************************************)
(* bootstrap                                                                *)
(***************************************************************************)

\* Mutant: permissions the catalog lacks are only logged.
VerifyWarns(s) ==
    /\ srv[s].pc = "verify"
    /\ Goto(s, "begin")
    /\ UNCHANGED <<applied, roles, perms, lock, starts>>

\* verify_permission_catalog, on the read pool; permissions that only the
\* database knows are logged
Verify(s) ==
    /\ srv[s].pc = "verify"
    /\ IF Knows[srv[s].build] \subseteq Permitted
         THEN Goto(s, "begin") /\ UNCHANGED lock
         ELSE Abort(s, "Invalid")
    /\ UNCHANGED <<applied, roles, perms, starts>>

\* The transaction is deferred: it takes the write lock, and its view of the
\* database, with its first statement
Begin(s) ==
    /\ srv[s].pc = "begin"
    /\ lock = None
    /\ lock' = s
    /\ srv' = [srv EXCEPT ![s].pc = "insert", ![s].todo = 1,
                          ![s].tx = [roles |-> roles, perms |-> perms]]
    /\ UNCHANGED <<applied, roles, perms, starts>>

Role(s) == SystemRoles[srv[s].todo]

\* A ULID no role of the database has
FreshId(tx) == 1 + Cardinality({r \in Roles : tx.roles[r] # None})

WithRole(tx, r, id) ==
    [roles |-> [tx.roles EXCEPT ![r] = id],
     perms |-> [i \in DOMAIN tx.perms \cup {id} |-> IF i \in DOMAIN tx.perms
                                                      THEN tx.perms[i] ELSE {}]]

\* INSERT OR IGNORE INTO roles, and the id is read back
InsertRole(s) ==
    /\ srv[s].pc = "insert"
    /\ srv' = [srv EXCEPT ![s].pc = "reconcile",
                          ![s].tx = IF @.roles[Role(s)] = None
                                      THEN WithRole(@, Role(s), FreshId(@)) ELSE @]
    /\ UNCHANGED <<applied, roles, perms, lock, starts>>

Reconciled(s) == [srv[s].tx.perms EXCEPT ![srv[s].tx.roles[Role(s)]] =
                                           Table[srv[s].build][Role(s)]]

\* Mutant: DELETE FROM role_permissions without its WHERE clause.
ReconcileAll(s) ==
    /\ srv[s].pc = "reconcile"
    /\ srv' = [srv EXCEPT ![s].pc = IF srv[s].todo < Len(SystemRoles) THEN "insert" ELSE "commit",
                          ![s].todo = IF @ < Len(SystemRoles) THEN @ + 1 ELSE @,
                          ![s].tx.perms = [i \in DOMAIN @ |-> IF i \in CustomRoles THEN {}
                                                              ELSE Reconciled(s)[i]]]
    /\ UNCHANGED <<applied, roles, perms, lock, starts>>

\* Mutant: the permissions are cleared outside the transaction.
ReconcileInPlace(s) ==
    /\ srv[s].pc = "reconcile"
    /\ srv' = [srv EXCEPT ![s].pc = IF srv[s].todo < Len(SystemRoles) THEN "insert" ELSE "commit",
                          ![s].todo = IF @ < Len(SystemRoles) THEN @ + 1 ELSE @,
                          ![s].tx.perms = Reconciled(s)]
    /\ perms' = [i \in DOMAIN perms |-> IF i = roles[Role(s)] THEN {} ELSE perms[i]]
    /\ UNCHANGED <<applied, roles, lock, starts>>

\* DELETE FROM role_permissions, then one INSERT per permission, which the
\* foreign key into the catalog can refuse
Reconcile(s) ==
    /\ srv[s].pc = "reconcile"
    /\ IF Table[srv[s].build][Role(s)] \subseteq Permitted
         THEN /\ srv' = [srv EXCEPT
                   ![s].pc = IF srv[s].todo < Len(SystemRoles) THEN "insert" ELSE "commit",
                   ![s].todo = IF @ < Len(SystemRoles) THEN @ + 1 ELSE @,
                   ![s].tx.perms = Reconciled(s)]
              /\ UNCHANGED lock
         ELSE Abort(s, "ForeignKey")
    /\ UNCHANGED <<applied, roles, perms, starts>>

Commit(s) ==
    /\ srv[s].pc = "commit"
    /\ roles' = srv[s].tx.roles
    /\ perms' = srv[s].tx.perms
    /\ lock' = None
    /\ srv' = [srv EXCEPT ![s].pc = "serving", ![s].tx = None, ![s].todo = 0]
    /\ UNCHANGED <<applied, starts>>

\* The process dies, or is stopped to be replaced
Crash(s) ==
    /\ srv[s].pc # "down"
    /\ Abort(s, None)
    /\ UNCHANGED <<applied, roles, perms, starts>>

BootStep(s) ==
    \/ \E b \in Builds : Start(s, b)
    \/ ListApplied(s) \/ Migrate(s) \/ Busy(s)
    \/ Verify(s) \/ Begin(s) \/ InsertRole(s) \/ Reconcile(s) \/ Commit(s)
    \/ Crash(s)

BootInit ==
    /\ applied = {}
    /\ roles = [r \in Roles |-> None]
    /\ perms = [i \in {} |-> {}]
    /\ lock = None
    /\ srv = [s \in Servers |-> Down(None)]
    /\ starts = 0

(***************************************************************************)
(* What is checked                                                          *)
(***************************************************************************)
BootTypeOK ==
    /\ applied \subseteq 1 .. MaxLevel
    /\ roles \in [Roles -> (1 .. Cardinality(Roles)) \cup {None}]
    /\ DOMAIN perms \subseteq CustomRoles \cup {roles[r] : r \in Roles}
    /\ \A i \in DOMAIN perms : perms[i] \subseteq Permitted
    /\ lock \in Servers \cup {None}
    /\ \A s \in Servers :
         /\ srv[s].pc \in {"down", "list", "migrate", "verify", "begin", "insert",
                           "reconcile", "commit", "serving"}
         /\ (lock = s) <=> (srv[s].pc \in {"insert", "reconcile", "commit"})
         /\ (srv[s].tx # None) <=> (lock = s)
    /\ starts \in 0 .. MaxStarts

\* Readers never see a role half-way: once a built-in role exists it holds
\* exactly the permissions some build gives it, whoever reconciles it when and
\* whoever dies meanwhile (bootstrap.rs, one transaction for all roles).
RolesWhole ==
    \A r \in Roles : roles[r] # None => \E b \in Builds : perms[roles[r]] = Table[b][r]

\* A server past its migrations reads the whole schema it was built for: its
\* migrations are applied, and once it serves the catalog has all it knows. A
\* build that has drifted from the catalog is stopped by the check, never by a
\* foreign key inside the transaction (bootstrap.rs, "Fail fast").
SchemaWhole ==
    \A s \in Servers :
        /\ srv[s].pc \notin {"down", "list", "migrate"} => Migrations(s) \subseteq applied
        /\ srv[s].pc = "serving" => Knows[srv[s].build] \subseteq Permitted
        /\ srv[s].error # "ForeignKey"

\* The older of two builds still starts once the newer has migrated
\* (bootstrap.rs, "an older binary against a newer database is a normal state").
OlderStarts == \A s \in Servers : srv[s].error # "VersionMissing"

\* What a newer build takes from a role stays taken (bootstrap.rs, "tightening a
\* role in code"): an older build reconciles it back.
TighteningSticks ==
    \A s \in Servers : srv[s].pc = "serving" /\ Level[srv[s].build] = MaxLevel =>
        \A r \in Roles : perms[roles[r]] = Table[srv[s].build][r]
=============================================================================
