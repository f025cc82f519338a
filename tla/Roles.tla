------------------------------- MODULE Roles --------------------------------
(***************************************************************************)
(* The tables of jet-core: permissions, the built-in roles and the scopes   *)
(* a grant can be made at.                                                  *)
(***************************************************************************)
EXTENDS Naturals, Sequences

\* Permission::ALL, each by the name as_str gives it and the database keeps
Permissions ==
    {"org.read", "org.manage", "member.invite", "member.remove", "team.manage",
     "role.manage", "billing.manage",
     "project.create", "project.read", "project.manage",
     "pipeline.read", "pipeline.write", "pipeline.run",
     "run.read", "run.cancel", "log.read",
     "secret.write", "secret.read",
     "cache.read", "cache.purge",
     "worker.read", "worker.admin", "token.manage",
     "audit.read"}

\* Permission::from_str for a build that knows the permissions in known: names
\* it does not know are dropped by query_permissions
Parsed(keys, known) == keys \cap known

\* SystemRole::ALL, by key, in the order bootstrap goes through them
SystemRoles == <<"owner", "admin", "maintainer", "developer", "viewer", "billing">>

\* SystemRole::permissions
RolePermissions(role) ==
    CASE role = "owner"      -> Permissions
      [] role = "admin"      -> Permissions \ {"billing.manage", "secret.read"}
      [] role = "maintainer" ->
           {"org.read", "project.create", "project.read", "project.manage",
            "pipeline.read", "pipeline.write", "pipeline.run", "run.read", "run.cancel",
            "log.read", "secret.write", "cache.read", "cache.purge", "worker.read"}
      [] role = "developer"  ->
           {"org.read", "project.read", "pipeline.read", "pipeline.run", "run.read",
            "run.cancel", "log.read", "cache.read"}
      [] role = "viewer"     ->
           {"org.read", "project.read", "pipeline.read", "run.read", "log.read"}
      [] role = "billing"    -> {"org.read", "billing.manage"}

\* Scope: every variant carries its ancestors
OrgScope(o)            == [kind |-> "org", org |-> o]
ProjectScope(o, p)     == [kind |-> "project", org |-> o, project |-> p]
PipelineScope(o, p, l) == [kind |-> "pipeline", org |-> o, project |-> p, pipeline |-> l]

\* The scope's own id, which is also the last part of the cache's key
OwnId(s) == CASE s.kind = "org"      -> s.org
              [] s.kind = "project"  -> s.project
              [] s.kind = "pipeline" -> s.pipeline

\* Mutant: a project's grants do not reach its pipelines.
LineageSkipsProject(s) ==
    <<[kind |-> s.kind, id |-> OwnId(s)], [kind |-> "org", id |-> s.org]>>

\* Scope::lineage: the scope and every scope above it, nearest first
Lineage(s) ==
    LET org == [kind |-> "org", id |-> s.org]
        own == [kind |-> s.kind, id |-> OwnId(s)]
    IN  CASE s.kind = "org"      -> <<org>>
          [] s.kind = "project"  -> <<own, org>>
          [] s.kind = "pipeline" -> <<own, [kind |-> "project", id |-> s.project], org>>

\* Scope::covered_by, and the scope clause of query_permissions
CoveredBy(s, kind, id) ==
    \E i \in 1 .. Len(Lineage(s)) : Lineage(s)[i] = [kind |-> kind, id |-> id]
=============================================================================
