------------------------------ MODULE MCGrants ------------------------------
(* Bootstrap and Grants on two tenants and three builds. *)
EXTENDS Grants, TLC

ServerSymmetry == Permutations(Servers)

\* old: before audit.read, with a developer who may write pipelines
\* new: this repository
\* drifted: knows a permission no migration adds
OldTable == [r \in Roles |->
    (RolePermissions(r) \ {"audit.read"})
      \cup IF r = "developer" THEN {"pipeline.write"} ELSE {}]
NewTable == [r \in Roles |-> RolePermissions(r)]
DriftedTable == [NewTable EXCEPT !["owner"] = @ \cup {"worker.drain"}]

MCBuilds == {"old", "new", "drifted"}
MCLevel == [b \in MCBuilds |-> IF b = "old" THEN 1 ELSE 2]
MCTable == [b \in MCBuilds |-> CASE b = "old" -> OldTable
                                 [] b = "new" -> NewTable
                                 [] b = "drifted" -> DriftedTable]
MCKnows == [b \in MCBuilds |-> MCTable[b]["owner"]]
MCCatalog == <<Permissions \ {"audit.read"}, {"audit.read"}>>

\* Two tenants: o1 with project p1, pipeline l1, team t1 and account a1, and o2
\* with project p2 and team t2. User u may act in both.
MCOrgOf == [x \in {"p1", "p2", "t1", "t2", "a1"} |-> IF x \in {"p2", "t2"} THEN "o2" ELSE "o1"]
MCProjectOf == [l \in {"l1"} |-> "p1"]

Grant(o, k, i, r, sk, si) ==
    [org |-> o, kind |-> k, id |-> i, role |-> r, scope |-> sk, scopeId |-> si]

Custom == CHOOSE c \in CustomRoles : TRUE

\* An owner; a team's grant on a project; a team and a project of another
\* tenant; an account on a pipeline with a custom role; an account in another
\* tenant.
MCAssignable ==
    {Grant("o1", "user", "u", "owner", "org", "o1"),
     Grant("o1", "team", "t1", "developer", "project", "p1"),
     Grant("o1", "team", "t2", "admin", "org", "o1"),
     Grant("o2", "user", "u", "viewer", "project", "p1"),
     Grant("o1", "service_account", "a1", Custom, "pipeline", "l1"),
     Grant("o2", "service_account", "a1", "viewer", "org", "o2")}
MCCustomGrants == [i \in CustomRoles |-> {"pipeline.run", "log.read"}]
=============================================================================
