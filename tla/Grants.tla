------------------------------- MODULE Grants -------------------------------
(***************************************************************************)
(* Who may do what: the rows of role_assignments, memberships and teams,    *)
(* and what DbAuthorizer makes of them with query_permissions and           *)
(* is_active_principal, while servers come and go (module Bootstrap).       *)
(*                                                                          *)
(* Every query reads one committed state. The decision cache in between is  *)
(* module DecisionCache; what it stands on is that its key decides the      *)
(* answer.                                                                  *)
(***************************************************************************)
EXTENDS Bootstrap

CONSTANTS
    Users,
    Orgs,
    OrgOf,      \* the organization of each project, team and service account
    ProjectOf,  \* the project of each pipeline
    Accounts, Teams, Projects,
    Assignable, \* the assignments administrators make
    CustomGrants, \* CustomGrants[i]: the permissions of custom role i
    MaxChanges  \* bound on administrative changes

Pipelines == DOMAIN ProjectOf

\* Ids are ULIDs, which no two rows of any tables share; a grant names a
\* principal of its kind. Its team and its scope may be another tenant's.
ASSUME GrantsAssumption ==
    /\ Users \cap Accounts = {}
    /\ ProjectOf \in [Pipelines -> Projects]
    /\ None \notin Orgs \cup Projects \cup Pipelines
    /\ Assignable \subseteq
         UNION {[org : Orgs, kind : {k}, id : IF k = "user" THEN Users
                                              ELSE IF k = "team" THEN Teams ELSE Accounts,
                 role : Roles \cup CustomRoles, scope : {"org", "project", "pipeline"},
                 scopeId : Orgs \cup Projects \cup Pipelines] :
                k \in {"user", "team", "service_account"}}

VARIABLES
    assigned,   \* role_assignments
    inactive,   \* suspended users and disabled service accounts
    dormant,    \* suspended memberships
    joined,     \* team_members
    changes

adminVars == <<assigned, inactive, dormant, joined, changes>>
vars == <<bootVars, adminVars>>

(***************************************************************************)
(* Principals and scopes that a caller passes                               *)
(***************************************************************************)
Principals ==
    [kind : {"user"}, org : Orgs, id : Users]
      \cup [kind : {"service_account"}, org : Orgs, id : Accounts]
      \cup [kind : {"system"}, org : Orgs, id : {None}]

\* The caller has loaded the project or pipeline, so the ancestors are its own
Scopes ==
    {OrgScope(o) : o \in Orgs}
      \cup {ProjectScope(OrgOf[p], p) : p \in Projects}
      \cup {PipelineScope(OrgOf[ProjectOf[l]], ProjectOf[l], l) : l \in Pipelines}

(***************************************************************************)
(* The queries                                                              *)
(***************************************************************************)

\* is_active_principal
IsActive(p) ==
    CASE p.kind = "system" -> TRUE
      [] p.kind = "user" -> p.id \notin inactive /\ <<p.org, p.id>> \notin dormant
      [] p.kind = "service_account" -> p.id \notin inactive /\ OrgOf[p.id] = p.org

\* Mutant: the subquery does not ask for the team's organization.
HolderOfAnyTeam(row, p) ==
    \/ row.kind \in {"user", "service_account"} /\ row.id = p.id
    \/ row.kind = "team" /\ <<row.id, p.id>> \in joined

\* The principal clause of query_permissions
Holder(row, p) ==
    \/ row.kind \in {"user", "service_account"} /\ row.id = p.id
    \/ /\ row.kind = "team"
       /\ <<row.id, p.id>> \in joined
       /\ OrgOf[row.id] = p.org

\* query_permissions, by a server of a build that knows the permissions in known
QueryPermissions(p, scope, known) ==
    LET rows == {row \in assigned : /\ row.org = p.org
                                    /\ Holder(row, p)
                                    /\ CoveredBy(scope, row.scope, row.scopeId)}
    IN  Parsed(UNION {perms[row.role] : row \in rows}, known)

\* Mutant: the key leaves the scope's kind and id to the organization.
KeyOfOrg(p, scope) == <<p.org, p.id, "org", scope.org>>

\* DecisionCache::key
Key(p, scope) == <<p.org, p.id, scope.kind, OwnId(scope)>>

\* DecisionCache::permissions without the cache: nothing for a principal without id
Held(p, scope, known) ==
    IF p.kind = "system" THEN {} ELSE QueryPermissions(p, scope, known)

\* effective_permissions
EffectivePermissions(p, scope, known) ==
    IF p.kind = "system" THEN known
    ELSE IF scope.org # p.org THEN {}
    ELSE IF ~IsActive(p) THEN {}
    ELSE Held(p, scope, known)

\* authorize, by its outcome
Authorize(p, permission, scope, known) ==
    IF p.kind = "system" THEN "Ok"
    ELSE IF scope.org # p.org THEN "WrongOrg"
    ELSE IF ~IsActive(p) THEN "NotAMember"
    ELSE IF permission \in Held(p, scope, known) THEN "Ok"
    ELSE "MissingPermission"

(***************************************************************************)
(* Administrators' changes, each in a write transaction of its own          *)
(***************************************************************************)
Change ==
    /\ lock = None
    /\ applied # {}
    /\ changes < MaxChanges
    /\ changes' = changes + 1

\* A row of role_assignments: its role exists, and no row has the same principal,
\* role and scope, in whichever organization
Assign(g) ==
    /\ Change
    /\ LET id == IF g.role \in Roles THEN roles[g.role] ELSE g.role
           new == [g EXCEPT !.role = id]
       IN  /\ id \in DOMAIN perms
           /\ \A row \in assigned : [row EXCEPT !.org = g.org] # new
           /\ assigned' = assigned \cup {new}
    /\ UNCHANGED <<bootVars, inactive, dormant, joined>>

Revoke(row) ==
    /\ Change
    /\ assigned' = assigned \ {row}
    /\ UNCHANGED <<bootVars, inactive, dormant, joined>>

Suspend(who) ==
    /\ Change
    /\ inactive' = inactive \cup {who}
    /\ UNCHANGED <<bootVars, assigned, dormant, joined>>

SuspendMembership(org, user) ==
    /\ Change
    /\ dormant' = dormant \cup {<<org, user>>}
    /\ UNCHANGED <<bootVars, assigned, inactive, joined>>

Join(team, user) ==
    /\ Change
    /\ joined' = joined \cup {<<team, user>>}
    /\ UNCHANGED <<bootVars, assigned, inactive, dormant>>

DefineRole(i) ==
    /\ Change
    /\ i \notin DOMAIN perms
    /\ CustomGrants[i] \subseteq Permitted
    /\ perms' = [j \in DOMAIN perms \cup {i} |-> IF j = i THEN CustomGrants[i] ELSE perms[j]]
    /\ UNCHANGED <<applied, roles, lock, srv, starts, assigned, inactive, dormant, joined>>

Init ==
    /\ BootInit
    /\ assigned = {}
    /\ inactive = {}
    /\ dormant = {}
    /\ joined = {}
    /\ changes = 0

Next ==
    \/ \E s \in Servers : BootStep(s) /\ UNCHANGED adminVars
    \/ \E g \in Assignable : Assign(g)
    \/ \E row \in assigned : Revoke(row)
    \/ \E who \in Users \cup Accounts : Suspend(who)
    \/ \E o \in Orgs, u \in Users : SuspendMembership(o, u)
    \/ \E t \in Teams, u \in Users : Join(t, u)
    \/ \E i \in CustomRoles : DefineRole(i)

Spec == Init /\ [][Next]_vars

(***************************************************************************)
(* What is checked                                                          *)
(***************************************************************************)
TypeOK ==
    /\ BootTypeOK
    /\ \A row \in assigned : row.role \in DOMAIN perms
    /\ inactive \subseteq Users \cup Accounts
    /\ dormant \subseteq Orgs \X Users
    /\ joined \subseteq Teams \X Users
    /\ changes \in 0 .. MaxChanges

Serving == {s \in Servers : srv[s].pc = "serving"}
KnownTo(s) == Knows[srv[s].build]

\* The parent of a node, looked up instead of taken from the request.
Contains(kind, id, scope) ==
    LET project == IF scope.kind = "pipeline" THEN ProjectOf[scope.pipeline]
                   ELSE IF scope.kind = "project" THEN scope.project ELSE None
        org == IF project = None THEN scope.org ELSE OrgOf[project]
    IN  <<kind, id>> \in {<<scope.kind, OwnId(scope)>>, <<"project", project>>, <<"org", org>>}

\* What a principal ought to hold: the roles given, at the scope or above it, to
\* it or to a team of the same organization that it is in, while its account,
\* and for a user the membership as well, are active. A service account is
\* nobody outside its own organization.
Entitled(p, scope) ==
    UNION {perms[row.role] : row \in
        {row \in assigned :
            /\ row.org = p.org /\ scope.org = p.org
            /\ Contains(row.scope, row.scopeId, scope)
            /\ p.id \notin inactive /\ <<p.org, p.id>> \notin dormant
            /\ p.kind = "service_account" => OrgOf[p.id] = p.org
            /\ \/ row.kind = p.kind /\ row.id = p.id
               \/ /\ p.kind = "user" /\ row.kind = "team"
                  /\ OrgOf[row.id] = row.org /\ <<row.id, p.id>> \in joined}}

\* authorize and effective_permissions give every user and service account
\* exactly what it is entitled to in the committed database, across teams,
\* tenants, suspensions, rows whose scope or team belongs to another tenant, and
\* servers of different builds (jet-authz, authorize and query_permissions).
AuthorizeIsExact ==
    \A s \in Serving, p \in Principals, scope \in Scopes :
        p.kind # "system" =>
          /\ EffectivePermissions(p, scope, KnownTo(s)) = Entitled(p, scope) \cap KnownTo(s)
          /\ \A q \in KnownTo(s) :
               Authorize(p, q, scope, KnownTo(s)) = "Ok" <=> q \in Entitled(p, scope)

\* Requests that share an entry of the decision cache have the same answer
\* (jet-authz, DecisionCache::key: the ancestors are not in it).
KeyDecides ==
    \A p, q \in Principals, c, d \in Scopes :
        /\ p.kind # "system" /\ q.kind # "system"
        /\ c.org = p.org /\ d.org = q.org
        /\ Key(p, c) = Key(q, d)
        => QueryPermissions(p, c, Permissions) = QueryPermissions(q, d, Permissions)

\* An owner whose account is active can manage the organization at all times,
\* also while other servers migrate, reconcile the roles or die (bootstrap.rs
\* clears and re-adds every role's permissions on every start).
OwnersNeverLockedOut ==
    \A s \in Serving, p \in Principals :
        /\ IsActive(p)
        /\ \E row \in assigned : /\ row.org = p.org /\ row.kind = p.kind /\ row.id = p.id
                                 /\ row.role = roles["owner"]
                                 /\ row.scope = "org" /\ row.scopeId = p.org
        => Authorize(p, "org.manage", OrgScope(p.org), KnownTo(s)) = "Ok"

\* A custom role keeps its permissions through every start of every build
\* (bootstrap.rs, "Custom org-defined roles are never touched").
CustomRolesUntouched ==
    [][\A i \in DOMAIN perms \cap CustomRoles : i \in DOMAIN perms' /\ perms'[i] = perms[i]]_vars
=============================================================================
