---------------------------- MODULE GrantsProofs -----------------------------
(***************************************************************************)
(* Proofs about Bootstrap and Grants, for any number of servers, builds,    *)
(* migrations, tenants, principals, grants and custom roles.                *)
(***************************************************************************)
EXTENDS Grants, FiniteSetTheorems, WellFoundedInduction, TLAPS

(***************************************************************************)
(* Lemmas on the tables                                                     *)
(***************************************************************************)

\* The built-in roles are the six of SystemRole::ALL.
LEMMA RolesKnown ==
  /\ Roles = {"owner", "admin", "maintainer", "developer", "viewer", "billing"}
  /\ Len(SystemRoles) = 6
  /\ \A i \in 1 .. 6 : SystemRoles[i] \in Roles
<1>1. /\ Len(SystemRoles) = 6 /\ DOMAIN SystemRoles = 1 .. 6
      /\ SystemRoles[1] = "owner" /\ SystemRoles[2] = "admin"
      /\ SystemRoles[3] = "maintainer" /\ SystemRoles[4] = "developer"
      /\ SystemRoles[5] = "viewer" /\ SystemRoles[6] = "billing"
  BY DEF SystemRoles
<1>2. \A i \in 1 .. 6 : i = 1 \/ i = 2 \/ i = 3 \/ i = 4 \/ i = 5 \/ i = 6
  OBVIOUS
<1>. QED
  BY <1>1, <1>2 DEF Roles

\* They are finitely many, and so are those that have an id.
LEMMA RolesFinite ==
  /\ IsFiniteSet(Roles)
  /\ \A S \in SUBSET Roles : IsFiniteSet(S) /\ Cardinality(S) \in Nat
<1>1. IsFiniteSet(Roles)
  <2>1. IsFiniteSet({})
    BY FS_EmptySet
  <2>2. IsFiniteSet(((((({} \cup {"owner"}) \cup {"admin"}) \cup {"maintainer"})
                      \cup {"developer"}) \cup {"viewer"}) \cup {"billing"})
    BY <2>1, FS_AddElement, Zenon
  <2>3. Roles = ((((({} \cup {"owner"}) \cup {"admin"}) \cup {"maintainer"})
                   \cup {"developer"}) \cup {"viewer"}) \cup {"billing"}
    BY RolesKnown
  <2>. QED
    BY <2>2, <2>3
<1>. QED
  BY <1>1, FS_Subset, FS_CardinalityType

\* A set of naturals that is not empty has a smallest member.
LEMMA SmallestMember ==
  ASSUME NEW S \in SUBSET Nat, S # {}
  PROVE  (CHOOSE n \in S : \A k \in S : n <= k) \in S
<1> DEFINE Less == {p \in Nat \X Nat : p[1] < p[2]}
<1>1. IsWellFoundedOn(Less, Nat)
  BY NatLessThanWellFounded, Zenon DEF OpToRel
<1>2. PICK n \in S : \A k \in S : ~(<<k, n>> \in Less)
  BY <1>1, WFMin, Zenon
<1>3. ASSUME NEW k \in S PROVE n <= k
  <2>1. n \in Nat /\ k \in Nat
    OBVIOUS
  <2>2. k < n => <<k, n>> \in Less
    BY <2>1
  <2> HIDE DEF Less
  <2>. QED
    BY <1>2, <2>1, <2>2
<1>. QED
  BY <1>3

(***************************************************************************)
(* The inductive invariant.                                                 *)
(*                                                                          *)
(* What a reader sees changes at commits only, so the argument is about the *)
(* private copy of the transaction that holds the lock: at each of its      *)
(* statements it is the committed tables with some roles reconciled, and at *)
(* most the one role that is being reconciled is not whole. Nobody else     *)
(* writes meanwhile.                                                        *)
(***************************************************************************)

\* The shape of the state.
KnownPermissions == UNION {Knows[b] : b \in Builds}
CustomPermissions == UNION {CustomGrants[i] : i \in CustomRoles}
AllPermissions == KnownPermissions \cup CustomPermissions
RoleIds == Nat \cup CustomRoles
PermMaps == UNION {[D -> SUBSET AllPermissions] : D \in SUBSET RoleIds}
TxSet == [roles : [Roles -> Nat \cup {None}], perms : PermMaps]
SrvSet ==
    [pc : {"down", "list", "migrate", "verify", "begin", "insert", "reconcile", "commit",
           "serving"},
     build : Builds \cup {None}, seen : SUBSET Nat, tx : TxSet \cup {None},
     todo : 0 .. 6, error : Errors \cup {None}]

Shape ==
    /\ applied \subseteq Nat
    /\ [roles |-> roles, perms |-> perms] \in TxSet
    /\ lock \in Servers \cup {None}
    /\ srv \in [Servers -> SrvSet]

Given(ro) == {r \in Roles : ro[r] # None}

\* Role ids are numbered in the order they were given out, no two roles share
\* one, and permissions are kept for the ids of roles only.
TablesOK(ro, pe) ==
    /\ \A r \in Given(ro) : ro[r] \in 1 .. Cardinality(Given(ro)) /\ ro[r] \in DOMAIN pe
    /\ \A q, r \in Given(ro) : ro[q] = ro[r] => q = r
    /\ DOMAIN pe \subseteq CustomRoles \cup {ro[r] : r \in Given(ro)}

\* Every role but those in skip holds what some build gives it.
WholeBut(ro, pe, skip) ==
    \A r \in Given(ro) \ skip : \E b \in Builds : pe[ro[r]] = Table[b][r]

Writing == {"insert", "reconcile", "commit"}

\* The private copy of the transaction of server s.
TxInv(s) ==
    LET tx == srv[s].tx IN
      /\ tx \in TxSet
      /\ srv[s].todo \in 1 .. 6
      /\ TablesOK(tx.roles, tx.perms)
      /\ WholeBut(tx.roles, tx.perms, IF srv[s].pc = "reconcile" THEN {Role(s)} ELSE {})
      /\ srv[s].pc = "reconcile" => tx.roles[Role(s)] # None
      /\ \A r \in Given(roles) : tx.roles[r] = roles[r]
      /\ DOMAIN perms \subseteq DOMAIN tx.perms
      /\ \A i \in CustomRoles \cap DOMAIN perms : tx.perms[i] = perms[i]

\* How far server s has come, and what it has made sure of.
SrvInv(s) ==
    /\ (lock = s) <=> (srv[s].pc \in Writing)
    /\ srv[s].pc # "down" => srv[s].build \in Builds
    /\ srv[s].error # "ForeignKey"
    /\ srv[s].pc = "migrate" =>
         /\ srv[s].seen \subseteq applied
         /\ srv[s].seen \subseteq Migrations(s) /\ srv[s].seen # Migrations(s)
    /\ srv[s].pc \notin {"down", "list", "migrate"} => Migrations(s) \subseteq applied
    /\ srv[s].pc \in Writing \cup {"begin", "serving"} => Knows[srv[s].build] \subseteq Permitted
    /\ srv[s].pc \in Writing => TxInv(s)

BootInv ==
    /\ Shape
    /\ TablesOK(roles, perms)
    /\ WholeBut(roles, perms, {})
    /\ \A s \in Servers : SrvInv(s)

(***************************************************************************)
(* The two statements of the transaction, on tables of the right shape      *)
(***************************************************************************)

\* A map of permissions, one entry changed or added.
LEMMA PermMapsClosed ==
  ASSUME NEW pe \in PermMaps, NEW i \in RoleIds, NEW P \in SUBSET AllPermissions
  PROVE  /\ DOMAIN pe \subseteq RoleIds
         /\ \A j \in DOMAIN pe : pe[j] \subseteq AllPermissions
         /\ [pe EXCEPT ![i] = P] \in PermMaps
         /\ [j \in DOMAIN pe \cup {i} |-> IF j \in DOMAIN pe THEN pe[j] ELSE P] \in PermMaps
         /\ [j \in DOMAIN pe \cup {i} |-> IF j = i THEN P ELSE pe[j]] \in PermMaps
<1>1. PICK D \in SUBSET RoleIds : pe \in [D -> SUBSET AllPermissions]
  BY DEF PermMaps
<1>2. D \cup {i} \in SUBSET RoleIds
  OBVIOUS
<1>3. [pe EXCEPT ![i] = P] \in [D -> SUBSET AllPermissions]
  BY <1>1
<1>4. /\ [j \in D \cup {i} |-> IF j \in D THEN pe[j] ELSE P]
           \in [D \cup {i} -> SUBSET AllPermissions]
      /\ [j \in D \cup {i} |-> IF j = i THEN P ELSE pe[j]]
           \in [D \cup {i} -> SUBSET AllPermissions]
  BY <1>1
<1>5. DOMAIN pe = D /\ \A j \in D : pe[j] \subseteq AllPermissions
  BY <1>1
<1>6. \A E \in SUBSET RoleIds : [E -> SUBSET AllPermissions] \subseteq PermMaps
  BY DEF PermMaps
<1>. QED
  BY <1>2, <1>3, <1>4, <1>5, <1>6

\* The id InsertRole gives a role that has none is new, and the number of ids
\* given out grows to it.
LEMMA InsertTables ==
  ASSUME NEW tx \in TxSet, TablesOK(tx.roles, tx.perms),
         NEW r \in Roles, tx.roles[r] = None
  PROVE  LET new == WithRole(tx, r, FreshId(tx)) IN
           /\ new \in TxSet
           /\ TablesOK(new.roles, new.perms)
           /\ new.roles[r] # None
           /\ \A q \in Given(tx.roles) : new.roles[q] = tx.roles[q]
           /\ Given(new.roles) = Given(tx.roles) \cup {r}
           /\ \A j \in DOMAIN tx.perms : j \in DOMAIN new.perms /\ new.perms[j] = tx.perms[j]
<1> DEFINE ro == tx.roles
           pe == tx.perms
           id == FreshId(tx)
           new == WithRole(tx, r, id)
<1>0. ro \in [Roles -> Nat \cup {None}] /\ pe \in PermMaps
  BY DEF TxSet
<1>1. Given(ro) \in SUBSET Roles /\ r \notin Given(ro)
  BY DEF Given
<1>2. IsFiniteSet(Given(ro)) /\ Cardinality(Given(ro)) \in Nat
  BY <1>1, RolesFinite
<1>3. id = 1 + Cardinality(Given(ro)) /\ id \in Nat /\ id # None
  BY <1>2, BuildsAssumption DEF FreshId, Given
<1>4. new.roles = [ro EXCEPT ![r] = id]
  BY DEF WithRole
<1>5. new.perms = [j \in DOMAIN pe \cup {id} |-> IF j \in DOMAIN pe THEN pe[j] ELSE {}]
  BY DEF WithRole
<1>6. new \in TxSet
  <2>1. new.roles \in [Roles -> Nat \cup {None}]
    BY <1>0, <1>3, <1>4
  <2>2. new.perms \in PermMaps
    <3>1. id \in RoleIds /\ {} \in SUBSET AllPermissions
      BY <1>3 DEF RoleIds
    <3> HIDE DEF new, id, pe
    <3>2. ASSUME NEW P \in SUBSET AllPermissions
          PROVE  [j \in DOMAIN pe \cup {id} |-> IF j \in DOMAIN pe THEN pe[j] ELSE P]
                   \in PermMaps
      BY <1>0, <3>1, PermMapsClosed
    <3>3. [j \in DOMAIN pe \cup {id} |-> IF j \in DOMAIN pe THEN pe[j] ELSE {}] \in PermMaps
      BY <3>1, <3>2, Zenon
    <3>. QED
      BY <1>5, <3>3, Zenon
  <2>3. new = [roles |-> new.roles, perms |-> new.perms]
    BY DEF WithRole
  <2> HIDE DEF new
  <2>. QED
    BY <2>1, <2>2, <2>3 DEF TxSet
<1> HIDE DEF new, id
<1>7. Given(new.roles) = Given(ro) \cup {r}
  BY <1>0, <1>3, <1>4 DEF Given
<1>8. Cardinality(Given(new.roles)) = id
  <2>1. Cardinality(Given(ro) \cup {r}) = Cardinality(Given(ro)) + 1
    BY <1>1, <1>2, FS_AddElement
  <2>. QED
    BY <1>2, <1>3, <1>7, <2>1
<1>9. new.roles[r] = id /\ \A q \in Given(ro) : new.roles[q] = ro[q] /\ ro[q] # id
  <2>1. new.roles[r] = id /\ \A q \in Given(ro) : new.roles[q] = ro[q]
    BY <1>0, <1>1, <1>4
  <2>2. \A q \in Given(ro) : ro[q] \in 1 .. Cardinality(Given(ro))
    BY DEF TablesOK
  <2>3. \A q \in Given(ro) : ro[q] # id
    BY <1>2, <1>3, <2>2
  <2>. QED
    BY <2>1, <2>3
<1>10. DOMAIN new.perms = DOMAIN pe \cup {id} /\ \A j \in DOMAIN pe : new.perms[j] = pe[j]
  BY <1>5
<1>11. TablesOK(new.roles, new.perms)
  <2>1. ASSUME NEW q \in Given(new.roles)
        PROVE  new.roles[q] \in 1 .. id /\ new.roles[q] \in DOMAIN new.perms
    BY <1>2, <1>3, <1>7, <1>9, <1>10, <2>1 DEF TablesOK
  <2>2. ASSUME NEW q \in Given(new.roles), NEW p \in Given(new.roles),
               new.roles[q] = new.roles[p]
        PROVE  q = p
    BY <1>7, <1>9, <2>2 DEF TablesOK
  <2>3. DOMAIN new.perms \subseteq CustomRoles \cup {new.roles[q] : q \in Given(new.roles)}
    BY <1>7, <1>9, <1>10 DEF TablesOK
  <2>. QED
    BY <1>8, <2>1, <2>2, <2>3 DEF TablesOK
<1>. QED
  BY <1>3, <1>6, <1>7, <1>9, <1>10, <1>11 DEF new, id

\* Reconciling one role leaves the others as they are: no two share an id, and
\* no custom role has one.
LEMMA ReconcileTables ==
  ASSUME NEW tx \in TxSet, TablesOK(tx.roles, tx.perms),
         NEW r \in Roles, tx.roles[r] # None, NEW b \in Builds,
         WholeBut(tx.roles, tx.perms, {r}),
         NEW pe, pe = [tx.perms EXCEPT ![tx.roles[r]] = Table[b][r]]
  PROVE  /\ pe \in PermMaps
         /\ TablesOK(tx.roles, pe)
         /\ WholeBut(tx.roles, pe, {})
         /\ DOMAIN pe = DOMAIN tx.perms
         /\ \A i \in CustomRoles \cap DOMAIN tx.perms : pe[i] = tx.perms[i]
<1>0. tx.perms \in PermMaps /\ tx.roles \in [Roles -> Nat \cup {None}]
  BY DEF TxSet
<1>1. r \in Given(tx.roles) /\ tx.roles[r] \in Nat /\ tx.roles[r] \in DOMAIN tx.perms
  BY <1>0 DEF Given, TablesOK
<1>2. Table[b][r] \in SUBSET AllPermissions
  BY BuildsAssumption DEF AllPermissions, KnownPermissions
<1>3. pe \in PermMaps
  BY <1>0, <1>1, <1>2, PermMapsClosed DEF RoleIds
<1>4. /\ DOMAIN pe = DOMAIN tx.perms
      /\ pe[tx.roles[r]] = Table[b][r]
      /\ \A i \in DOMAIN tx.perms : i # tx.roles[r] => pe[i] = tx.perms[i]
  BY <1>1
<1>5. TablesOK(tx.roles, pe)
  BY <1>4 DEF TablesOK
<1>6. WholeBut(tx.roles, pe, {})
  <2> SUFFICES ASSUME NEW q \in Given(tx.roles)
               PROVE  \E c \in Builds : pe[tx.roles[q]] = Table[c][q]
    BY DEF WholeBut
  <2>1. CASE q = r
    BY <1>4, <2>1
  <2>2. CASE q # r
    <3>1. tx.roles[q] # tx.roles[r] /\ tx.roles[q] \in DOMAIN tx.perms
      BY <1>1, <2>2 DEF TablesOK
    <3>2. pe[tx.roles[q]] = tx.perms[tx.roles[q]]
      BY <1>4, <3>1
    <3>. QED
      BY <2>2, <3>2 DEF WholeBut
  <2>. QED
    BY <2>1, <2>2
<1>7. \A i \in CustomRoles \cap DOMAIN tx.perms : pe[i] = tx.perms[i]
  BY <1>1, <1>4, BuildsAssumption
<1>. QED
  BY <1>3, <1>4, <1>5, <1>6, <1>7
(***************************************************************************)
(* The steps of a server                                                    *)
(***************************************************************************)

\* The catalog only grows.
LEMMA CatalogGrows == ASSUME applied \subseteq applied' PROVE Permitted \subseteq Permitted'
BY DEF Permitted

\* A step of server s concerns another server q only through the catalog and
\* the write lock, which q does not hold while s writes.
LEMMA OthersKept ==
  ASSUME NEW s \in Servers, NEW q \in Servers, q # s, SrvInv(q), SrvInv(s),
         srv'[q] = srv[q], applied \subseteq applied',
         \/ lock' = lock
         \/ lock = None /\ lock' = s
         \/ lock = s /\ lock' = None,
         UNCHANGED <<roles, perms>> \/ lock = s
  PROVE  SrvInv(q)'
<1>0. None \notin Servers /\ Permitted \subseteq Permitted'
  BY BuildsAssumption, CatalogGrows
<1>1. (lock' = q) <=> (lock = q)
  BY <1>0
<1>2. srv[q].pc \in Writing => UNCHANGED <<roles, perms>>
  BY DEF SrvInv
<1>3. Migrations(q)' = Migrations(q) /\ Role(q)' = Role(q)
  BY DEF Migrations, Role
<1>4. srv[q].pc \in Writing => TxInv(q)'
  BY <1>2, <1>3 DEF SrvInv, TxInv
<1>. QED
  BY <1>0, <1>1, <1>3, <1>4 DEF SrvInv

\* A step that writes no table preserves the invariant if it keeps the shape
\* and the part of the server that takes it.
LEMMA ServerStep ==
  ASSUME BootInv, Shape', NEW s \in Servers, SrvInv(s)',
         \A q \in Servers \ {s} : srv'[q] = srv[q],
         applied \subseteq applied',
         \/ lock' = lock
         \/ lock = None /\ lock' = s
         \/ lock = s /\ lock' = None,
         UNCHANGED <<roles, perms>>
  PROVE  BootInv'
<1>1. \A q \in Servers : SrvInv(q)'
  BY OthersKept DEF BootInv
<1>2. TablesOK(roles, perms)' /\ WholeBut(roles, perms, {})'
  BY Zenon DEF BootInv
<1>. QED
  BY <1>1, <1>2 DEF BootInv

\* What a server that is down is.
LEMMA DownRecord ==
  ASSUME NEW why \in Errors \cup {None}
  PROVE  Down(why) \in SrvSet /\ Down(why).pc = "down" /\ Down(why).error = why
<1>1. 0 \in 0 .. 6 /\ {} \in SUBSET Nat
  OBVIOUS
<1>. QED
  BY <1>1, Zenon DEF Down, SrvSet

\* A server that goes down with nothing or one of its own errors but the
\* foreign key's.
LEMMA AbortStep ==
  ASSUME BootInv, NEW s \in Servers, NEW why \in (Errors \cup {None}) \ {"ForeignKey"},
         Abort(s, why), UNCHANGED <<applied, roles, perms>>
  PROVE  BootInv'
<1>1. Down(why) \in SrvSet /\ Down(why).pc = "down" /\ Down(why).error = why
  BY DownRecord
<1>2. srv'[s] = Down(why) /\ \A q \in Servers \ {s} : srv'[q] = srv[q]
  BY DEF Abort, BootInv, Shape
<1>3. lock' = (IF lock = s THEN None ELSE lock) /\ lock' # s
  BY BuildsAssumption DEF Abort
<1>4. Shape'
  BY <1>1, <1>3 DEF Abort, BootInv, Shape
<1>5. SrvInv(s)'
  BY <1>1, <1>2, <1>3 DEF SrvInv, Writing
<1>. QED
  BY <1>2, <1>3, <1>4, <1>5, ServerStep

\* Whatever a server does to its own record, the others' stay.
LEMMA RecordStep ==
  ASSUME Shape, NEW s \in Servers, NEW new \in SrvSet, srv' = [srv EXCEPT ![s] = new]
  PROVE  /\ srv' \in [Servers -> SrvSet]
         /\ srv'[s] = new
         /\ \A q \in Servers \ {s} : srv'[q] = srv[q]
BY DEF Shape

\* Db::open.
LEMMA OpenStep ==
  ASSUME BootInv, NEW s \in Servers,
         \/ \E b \in Builds : Start(s, b)
         \/ ListApplied(s) \/ Migrate(s) \/ Busy(s) \/ Crash(s)
  PROVE  BootInv'
<1>0. /\ Shape /\ SrvInv(s) /\ srv[s] \in SrvSet
      /\ None \notin Servers /\ lock \in Servers \cup {None}
      /\ Level \in [Builds -> Nat \ {0}]
  BY BuildsAssumption DEF BootInv, Shape
<1>1. ASSUME NEW b \in Builds, Start(s, b) PROVE BootInv'
  <2> DEFINE new == [Down(None) EXCEPT !.pc = "list", !.build = b]
  <2>1. new \in SrvSet /\ new.pc = "list" /\ new.build = b /\ new.error = None
    <3>1. Down(None) \in SrvSet /\ Down(None).error = None
      BY DownRecord
    <3>2. ASSUME NEW old \in SrvSet, old.error = None,
                 NEW rec, rec = [old EXCEPT !.pc = "list", !.build = b]
          PROVE  rec \in SrvSet /\ rec.pc = "list" /\ rec.build = b /\ rec.error = None
      BY <3>2 DEF SrvSet
    <3>. QED
      BY <3>1, <3>2, Zenon
  <2>2. srv' = [srv EXCEPT ![s] = new] /\ UNCHANGED <<applied, roles, perms, lock>>
    BY <1>1 DEF Start
  <2>3. lock # s
    BY <1>0, <1>1 DEF Start, SrvInv, Writing
  <2>4. None # "ForeignKey"
    BY BuildsAssumption DEF Errors
  <2> HIDE DEF new
  <2>5. Shape'
    BY <1>0, <2>1, <2>2, RecordStep DEF Shape
  <2>6. SrvInv(s)'
    BY <1>0, <2>1, <2>2, <2>3, <2>4, RecordStep DEF SrvInv, Writing
  <2>. QED
    BY <1>0, <2>1, <2>2, <2>5, <2>6, RecordStep, ServerStep
<1>2. CASE ListApplied(s)
  <2>1. CASE applied \subseteq Migrations(s)
    <3> DEFINE new == [srv[s] EXCEPT !.seen = applied,
                        !.pc = IF applied = Migrations(s) THEN "verify" ELSE "migrate"]
    <3>1. /\ new \in SrvSet /\ new.seen = applied /\ new.build = srv[s].build
          /\ new.pc = IF applied = Migrations(s) THEN "verify" ELSE "migrate"
          /\ new.error = srv[s].error
      BY <1>0 DEF SrvSet, Shape
    <3>2. srv' = [srv EXCEPT ![s] = new] /\ UNCHANGED <<applied, roles, perms, lock>>
      BY <1>2, <2>1 DEF ListApplied
    <3>3. lock # s /\ srv[s].build \in Builds /\ srv[s].error # "ForeignKey"
      BY <1>0, <1>2 DEF ListApplied, SrvInv, Writing
    <3> HIDE DEF new
    <3>4. srv'[s] = new /\ Migrations(s)' = Migrations(s)
      BY <1>0, <3>1, <3>2, RecordStep DEF Migrations
    <3>5. Shape'
      BY <1>0, <3>1, <3>2, RecordStep DEF Shape
    <3>6. SrvInv(s)'
      BY <2>1, <3>1, <3>2, <3>3, <3>4 DEF SrvInv, Writing
    <3>. QED
      BY <1>0, <3>1, <3>2, <3>5, <3>6, RecordStep, ServerStep
  <2>2. CASE ~(applied \subseteq Migrations(s))
    BY <1>2, <2>2, AbortStep DEF ListApplied, Errors
  <2>. QED
    BY <2>1, <2>2
<1>3. CASE Migrate(s)
  <2> DEFINE rest == Migrations(s) \ srv[s].seen
             m == CHOOSE n \in rest : \A k \in rest : n <= k
  <2>1. CASE m \in applied
    BY <1>3, <2>1, AbortStep DEF Migrate, Errors
  <2>2. CASE m \notin applied
    <3>1. /\ srv[s].build \in Builds /\ srv[s].error # "ForeignKey" /\ lock = None /\ lock # s
          /\ srv[s].seen \subseteq applied /\ srv[s].seen \subseteq Migrations(s)
          /\ srv[s].seen # Migrations(s)
      BY <1>0, <1>3 DEF Migrate, SrvInv
    <3>2. Migrations(s) \in SUBSET Nat
      BY <1>0, <3>1 DEF Migrations
    <3>3. m \in rest /\ m \in Nat /\ m \in Migrations(s)
      <4>1. rest \in SUBSET Nat /\ rest # {}
        BY <3>1, <3>2
      <4>2. m \in rest
        BY <4>1, SmallestMember
      <4>. QED
        BY <4>1, <4>2
    <3> HIDE DEF m
    <3> DEFINE new == [srv[s] EXCEPT !.seen = @ \cup {m},
                         !.pc = IF srv[s].seen \cup {m} = Migrations(s)
                                  THEN "verify" ELSE "migrate"]
    <3>4. /\ new \in SrvSet /\ new.seen = srv[s].seen \cup {m} /\ new.build = srv[s].build
          /\ new.pc = IF srv[s].seen \cup {m} = Migrations(s) THEN "verify" ELSE "migrate"
          /\ new.error = srv[s].error
      BY <1>0, <3>3 DEF SrvSet
    <3>5. /\ srv' = [srv EXCEPT ![s] = new] /\ UNCHANGED <<roles, perms, lock>>
          /\ applied' = applied \cup {m}
      BY <1>3, <2>2 DEF Migrate, m
    <3> HIDE DEF new
    <3>6. srv'[s] = new /\ Migrations(s)' = Migrations(s)
      BY <1>0, <3>4, <3>5, RecordStep DEF Migrations
    <3>7. Shape'
      BY <1>0, <3>3, <3>4, <3>5, RecordStep DEF Shape
    <3>8. SrvInv(s)'
      BY <3>1, <3>3, <3>4, <3>5, <3>6 DEF SrvInv, Writing
    <3>. QED
      BY <1>0, <3>4, <3>5, <3>7, <3>8, RecordStep, ServerStep
  <2>. QED
    BY <2>1, <2>2
<1>4. CASE Busy(s)
  BY <1>4, AbortStep DEF Busy, Errors
<1>5. CASE Crash(s)
  <2>1. None # "ForeignKey"
    BY BuildsAssumption DEF Errors
  <2>. QED
    BY <1>5, <2>1, AbortStep DEF Crash
<1>. QED
  BY <1>1, <1>2, <1>3, <1>4, <1>5
\* bootstrap up to its commit.
LEMMA BootstrapStep ==
  ASSUME BootInv, NEW s \in Servers,
         Verify(s) \/ Begin(s) \/ InsertRole(s) \/ Reconcile(s)
  PROVE  BootInv'
<1>0. /\ Shape /\ SrvInv(s) /\ srv[s] \in SrvSet
      /\ None \notin Servers /\ lock \in Servers \cup {None}
      /\ TablesOK(roles, perms) /\ WholeBut(roles, perms, {})
  BY BuildsAssumption DEF BootInv, Shape
<1>1. CASE Verify(s)
  <2>1. CASE Knows[srv[s].build] \subseteq Permitted
    <3> DEFINE new == [srv[s] EXCEPT !.pc = "begin"]
    <3>1. /\ new \in SrvSet /\ new.pc = "begin" /\ new.build = srv[s].build
          /\ new.error = srv[s].error
      BY <1>0 DEF SrvSet
    <3>2. srv' = [srv EXCEPT ![s] = new] /\ UNCHANGED <<applied, roles, perms, lock>>
      BY <1>1, <2>1 DEF Verify, Goto
    <3>3. /\ lock # s /\ srv[s].build \in Builds /\ srv[s].error # "ForeignKey"
          /\ Migrations(s) \subseteq applied
      BY <1>0, <1>1 DEF Verify, SrvInv, Writing
    <3> HIDE DEF new
    <3>4. srv'[s] = new /\ Migrations(s)' = Migrations(s) /\ Permitted' = Permitted
      BY <1>0, <3>1, <3>2, RecordStep DEF Migrations, Permitted
    <3>5. Shape'
      BY <1>0, <3>1, <3>2, RecordStep DEF Shape
    <3>6. SrvInv(s)'
      BY <2>1, <3>1, <3>2, <3>3, <3>4 DEF SrvInv, Writing
    <3>. QED
      BY <1>0, <3>1, <3>2, <3>5, <3>6, RecordStep, ServerStep
  <2>2. CASE ~(Knows[srv[s].build] \subseteq Permitted)
    BY <1>1, <2>2, AbortStep DEF Verify, Errors
  <2>. QED
    BY <2>1, <2>2
<1>2. CASE Begin(s)
  <2> DEFINE tx == [roles |-> roles, perms |-> perms]
             new == [srv[s] EXCEPT !.pc = "insert", !.todo = 1, !.tx = tx]
  <2>1. tx \in TxSet /\ tx.roles = roles /\ tx.perms = perms
    BY <1>0 DEF Shape
  <2> HIDE DEF tx
  <2>2. /\ new \in SrvSet /\ new.pc = "insert" /\ new.build = srv[s].build
        /\ new.error = srv[s].error /\ new.todo = 1 /\ new.tx = tx
    <3>1. "insert" \in Writing /\ 1 \in 0 .. 6 /\ srv[s] \in SrvSet
      BY <1>0 DEF Writing
    <3>2. ASSUME NEW old \in SrvSet, NEW rec,
                 rec = [old EXCEPT !.pc = "insert", !.todo = 1, !.tx = tx]
          PROVE  /\ rec \in SrvSet /\ rec.pc = "insert" /\ rec.todo = 1 /\ rec.tx = tx
                 /\ rec.build = old.build /\ rec.error = old.error
      <4>1. /\ rec.pc = "insert" /\ rec.todo = 1 /\ rec.tx = tx
            /\ rec.build = old.build /\ rec.error = old.error /\ rec.seen = old.seen
        BY <3>2 DEF SrvSet
      <4>2. rec = [pc |-> "insert", build |-> old.build, seen |-> old.seen, tx |-> tx,
                   todo |-> 1, error |-> old.error]
        BY <3>2 DEF SrvSet
      <4>3. /\ "insert" \in {"down", "list", "migrate", "verify", "begin", "insert", "reconcile",
                      "commit", "serving"}
            /\ old.build \in Builds \cup {None} /\ old.seen \in SUBSET Nat
            /\ old.error \in Errors \cup {None}
        BY <3>1 DEF SrvSet, Writing
      <4>4. rec \in SrvSet
        BY <2>1, <3>1, <4>2, <4>3, Zenon DEF SrvSet
      <4>. QED
        BY <4>1, <4>4
    <3>3. new = [srv[s] EXCEPT !.pc = "insert", !.todo = 1, !.tx = tx]
      OBVIOUS
    <3> HIDE DEF new
    <3>. QED
      BY <3>1, <3>2, <3>3, Zenon
  <2>3. /\ srv' = [srv EXCEPT ![s] = new] /\ UNCHANGED <<applied, roles, perms>>
        /\ lock = None /\ lock' = s
    BY <1>2 DEF Begin, tx
  <2>4. /\ srv[s].build \in Builds /\ srv[s].error # "ForeignKey"
        /\ Migrations(s) \subseteq applied /\ Knows[srv[s].build] \subseteq Permitted
    BY <1>0, <1>2 DEF Begin, SrvInv
  <2> HIDE DEF new
  <2>5. srv'[s] = new /\ Migrations(s)' = Migrations(s) /\ Permitted' = Permitted
    BY <1>0, <2>2, <2>3, RecordStep DEF Migrations, Permitted
  <2>6. Shape'
    BY <1>0, <2>2, <2>3, RecordStep DEF Shape
  <2>7. TxInv(s)'
    <3>1. TablesOK(tx.roles, tx.perms) /\ WholeBut(tx.roles, tx.perms, {})
      BY <1>0, <2>1
    <3>. QED
      BY <2>1, <2>2, <2>3, <2>5, <3>1 DEF TxInv
  <2>8. SrvInv(s)'
    BY <2>2, <2>3, <2>4, <2>5, <2>7 DEF SrvInv, Writing
  <2>. QED
    BY <1>0, <2>2, <2>3, <2>6, <2>8, RecordStep, ServerStep
<1>3. CASE InsertRole(s)
  <2> DEFINE tx == srv[s].tx
             r == Role(s)
             newtx == IF tx.roles[r] = None THEN WithRole(tx, r, FreshId(tx)) ELSE tx
             new == [srv[s] EXCEPT !.pc = "reconcile", !.tx = newtx]
  <2>1. /\ srv[s].pc = "insert" /\ lock = s /\ TxInv(s)
        /\ srv[s].build \in Builds /\ srv[s].error # "ForeignKey"
        /\ Migrations(s) \subseteq applied /\ Knows[srv[s].build] \subseteq Permitted
    BY <1>0, <1>3 DEF InsertRole, SrvInv, Writing
  <2>2. /\ tx \in TxSet /\ TablesOK(tx.roles, tx.perms) /\ WholeBut(tx.roles, tx.perms, {})
        /\ srv[s].todo \in 1 .. 6 /\ r \in Roles
        /\ \A q \in Given(roles) : tx.roles[q] = roles[q]
        /\ DOMAIN perms \subseteq DOMAIN tx.perms
        /\ \A i \in CustomRoles \cap DOMAIN perms : tx.perms[i] = perms[i]
    BY <2>1, RolesKnown DEF TxInv, Role
  <2> HIDE DEF tx, r
  <2>3. /\ newtx \in TxSet /\ TablesOK(newtx.roles, newtx.perms)
        /\ newtx.roles[r] # None
        /\ \A q \in Given(tx.roles) : newtx.roles[q] = tx.roles[q]
        /\ Given(newtx.roles) \subseteq Given(tx.roles) \cup {r}
        /\ \A j \in DOMAIN tx.perms :
             j \in DOMAIN newtx.perms /\ newtx.perms[j] = tx.perms[j]
    <3>1. CASE tx.roles[r] = None
      BY <2>2, <3>1, InsertTables
    <3>2. CASE tx.roles[r] # None
      BY <2>2, <3>2
    <3>. QED
      BY <3>1, <3>2
  <2>4. srv' = [srv EXCEPT ![s] = new] /\ UNCHANGED <<applied, roles, perms, lock>>
    BY <1>3 DEF InsertRole, tx, r
  <2> HIDE DEF newtx
  <2>5. /\ new \in SrvSet /\ new.pc = "reconcile" /\ new.build = srv[s].build
        /\ new.error = srv[s].error /\ new.todo = srv[s].todo /\ new.tx = newtx
    BY <1>0, <2>3 DEF SrvSet
  <2> HIDE DEF new
  <2>6. /\ srv'[s] = new /\ Migrations(s)' = Migrations(s) /\ Permitted' = Permitted
        /\ Role(s)' = r
    BY <1>0, <2>4, <2>5, RecordStep DEF Migrations, Permitted, Role, r
  <2>7. Shape'
    BY <1>0, <2>4, <2>5, RecordStep DEF Shape
  <2>8. WholeBut(newtx.roles, newtx.perms, {r})
    <3> SUFFICES ASSUME NEW q \in Given(newtx.roles) \ {r}
                 PROVE  \E b \in Builds : newtx.perms[newtx.roles[q]] = Table[b][q]
      BY DEF WholeBut
    <3>1. q \in Given(tx.roles) /\ newtx.roles[q] = tx.roles[q]
      BY <2>3
    <3>2. tx.roles[q] \in DOMAIN tx.perms
      BY <2>2, <3>1 DEF TablesOK
    <3>3. newtx.perms[tx.roles[q]] = tx.perms[tx.roles[q]]
      BY <2>3, <3>2
    <3>. QED
      BY <2>2, <3>1, <3>3 DEF WholeBut
  <2>9. TxInv(s)'
    <3>1. \A q \in Given(roles) : q \in Given(tx.roles) /\ newtx.roles[q] = roles[q]
      BY <2>2, <2>3 DEF Given
    <3>2. \A i \in CustomRoles \cap DOMAIN perms : newtx.perms[i] = perms[i]
      BY <2>2, <2>3
    <3>3. DOMAIN perms \subseteq DOMAIN newtx.perms
      BY <2>2, <2>3
    <3>. QED
      BY <2>2, <2>3, <2>4, <2>5, <2>6, <2>8, <3>1, <3>2, <3>3 DEF TxInv
  <2>10. SrvInv(s)'
    BY <2>1, <2>4, <2>5, <2>6, <2>9 DEF SrvInv, Writing
  <2>. QED
    BY <1>0, <2>4, <2>5, <2>7, <2>10, RecordStep, ServerStep
<1>4. CASE Reconcile(s)
  <2> DEFINE tx == srv[s].tx
             r == Role(s)
             b == srv[s].build
             pe == [tx.perms EXCEPT ![tx.roles[r]] = Table[b][r]]
  <2>1. /\ srv[s].pc = "reconcile" /\ lock = s /\ TxInv(s)
        /\ b \in Builds /\ srv[s].error # "ForeignKey"
        /\ Migrations(s) \subseteq applied /\ Knows[b] \subseteq Permitted
    BY <1>0, <1>4 DEF Reconcile, SrvInv, Writing
  <2>2. /\ tx \in TxSet /\ TablesOK(tx.roles, tx.perms) /\ WholeBut(tx.roles, tx.perms, {r})
        /\ tx.roles[r] # None /\ srv[s].todo \in 1 .. 6 /\ r \in Roles
        /\ \A q \in Given(roles) : tx.roles[q] = roles[q]
        /\ DOMAIN perms \subseteq DOMAIN tx.perms
        /\ \A i \in CustomRoles \cap DOMAIN perms : tx.perms[i] = perms[i]
    BY <2>1, RolesKnown DEF TxInv, Role
  <2>3. Table[b][r] \subseteq Permitted
    BY <2>1, <2>2, BuildsAssumption
  <2> DEFINE newpc == IF srv[s].todo < 6 THEN "insert" ELSE "commit"
             newtodo == IF srv[s].todo < 6 THEN srv[s].todo + 1 ELSE srv[s].todo
             newtx == [tx EXCEPT !.perms = pe]
             new == [srv[s] EXCEPT !.pc = newpc, !.todo = newtodo, !.tx = newtx]
  <2>4. srv' = [srv EXCEPT ![s] = new] /\ UNCHANGED <<applied, roles, perms, lock>>
    <3>1. /\ srv' = [srv EXCEPT
                ![s].pc = IF srv[s].todo < 6 THEN "insert" ELSE "commit",
                ![s].todo = IF @ < 6 THEN @ + 1 ELSE @,
                ![s].tx.perms = Reconciled(s)]
          /\ UNCHANGED <<applied, roles, perms, lock>>
      BY <1>4, <2>3, RolesKnown, Zenon DEF Reconcile
    <3>2. Reconciled(s) = pe
      BY Zenon DEF Reconciled
    <3>3. srv' = [srv EXCEPT ![s].pc = newpc, ![s].todo = newtodo, ![s].tx.perms = pe]
      BY <3>1, <3>2, <1>0 DEF Shape
    <3>4. DOMAIN srv = Servers /\ srv[s] \in SrvSet
      BY <1>0 DEF Shape
    <3>5. [srv EXCEPT ![s].pc = newpc, ![s].todo = newtodo, ![s].tx.perms = pe][s] = new
      BY <3>4 DEF SrvSet
    <3>6. \A q \in Servers \ {s} :
            [srv EXCEPT ![s].pc = newpc, ![s].todo = newtodo, ![s].tx.perms = pe][q] = srv[q]
      BY <3>4
    <3>7. DOMAIN [srv EXCEPT ![s].pc = newpc, ![s].todo = newtodo, ![s].tx.perms = pe] = Servers
      BY <3>4
    <3> HIDE DEF new, newpc, newtodo, pe
    <3>8. srv' = [q \in Servers |-> srv'[q]]
      BY <3>3, <3>4
    <3>. QED
      BY <3>1, <3>3, <3>4, <3>5, <3>6, <3>8
  <2> HIDE DEF tx, r, b
  <2>5. /\ pe \in PermMaps /\ TablesOK(tx.roles, pe) /\ WholeBut(tx.roles, pe, {})
        /\ DOMAIN pe = DOMAIN tx.perms
        /\ \A i \in CustomRoles \cap DOMAIN tx.perms : pe[i] = tx.perms[i]
    BY <2>1, <2>2, ReconcileTables
  <2> HIDE DEF pe
  <2>6. newtx \in TxSet /\ newtx.roles = tx.roles /\ newtx.perms = pe
    BY <2>2, <2>5 DEF TxSet
  <2>7. newtodo \in 1 .. 6 /\ newpc \in {"insert", "commit"}
    BY <2>2
  <2> HIDE DEF newpc, newtodo, newtx
  <2>8. /\ new \in SrvSet /\ new.pc = newpc /\ new.build = srv[s].build
        /\ new.error = srv[s].error /\ new.todo = newtodo /\ new.tx = newtx
    <3>1. newpc \in Writing /\ newtodo \in 0 .. 6 /\ srv[s] \in SrvSet
      BY <1>0, <2>7 DEF Writing
    <3>2. ASSUME NEW old \in SrvSet, NEW rec,
                 rec = [old EXCEPT !.pc = newpc, !.todo = newtodo, !.tx = newtx]
          PROVE  /\ rec \in SrvSet /\ rec.pc = newpc /\ rec.todo = newtodo /\ rec.tx = newtx
                 /\ rec.build = old.build /\ rec.error = old.error
      <4>1. /\ rec.pc = newpc /\ rec.todo = newtodo /\ rec.tx = newtx
            /\ rec.build = old.build /\ rec.error = old.error /\ rec.seen = old.seen
        BY <3>2 DEF SrvSet
      <4>2. rec = [pc |-> newpc, build |-> old.build, seen |-> old.seen, tx |-> newtx,
                   todo |-> newtodo, error |-> old.error]
        BY <3>2 DEF SrvSet
      <4>3. /\ newpc \in {"down", "list", "migrate", "verify", "begin", "insert", "reconcile",
                      "commit", "serving"}
            /\ old.build \in Builds \cup {None} /\ old.seen \in SUBSET Nat
            /\ old.error \in Errors \cup {None}
        BY <3>1 DEF SrvSet, Writing
      <4>4. rec \in SrvSet
        BY <2>6, <3>1, <4>2, <4>3, Zenon DEF SrvSet
      <4>. QED
        BY <4>1, <4>4
    <3>3. new = [srv[s] EXCEPT !.pc = newpc, !.todo = newtodo, !.tx = newtx]
      OBVIOUS
    <3> HIDE DEF new
    <3>. QED
      BY <3>1, <3>2, <3>3, Zenon
  <2> HIDE DEF new
  <2>9. srv'[s] = new /\ Migrations(s)' = Migrations(s) /\ Permitted' = Permitted
    BY <1>0, <2>4, <2>8, RecordStep DEF Migrations, Permitted
  <2>10. Shape'
    BY <1>0, <2>4, <2>8, RecordStep DEF Shape
  <2>11. TxInv(s)'
    <3>1. WholeBut(newtx.roles, newtx.perms, {}) /\ TablesOK(newtx.roles, newtx.perms)
      BY <2>5, <2>6
    <3>2. \A i \in CustomRoles \cap DOMAIN perms : newtx.perms[i] = perms[i]
      BY <2>2, <2>5, <2>6
    <3>. QED
      BY <2>2, <2>4, <2>5, <2>6, <2>7, <2>8, <2>9, <3>1, <3>2 DEF TxInv
  <2>12. SrvInv(s)'
    BY <2>1, <2>4, <2>7, <2>8, <2>9, <2>11 DEF SrvInv, Writing, b
  <2>. QED
    BY <1>0, <2>4, <2>8, <2>10, <2>12, RecordStep, ServerStep
<1>. QED
  BY <1>1, <1>2, <1>3, <1>4

\* The commit: what the private copy holds becomes what everybody reads.
LEMMA CommitStep ==
  ASSUME BootInv, NEW s \in Servers, Commit(s)
  PROVE  BootInv'
<1>0. /\ Shape /\ SrvInv(s) /\ srv[s] \in SrvSet /\ None \notin Servers
  BY BuildsAssumption DEF BootInv, Shape
<1>1. /\ srv[s].pc = "commit" /\ lock = s /\ TxInv(s)
      /\ srv[s].build \in Builds /\ srv[s].error # "ForeignKey"
      /\ Migrations(s) \subseteq applied /\ Knows[srv[s].build] \subseteq Permitted
  BY <1>0 DEF Commit, SrvInv, Writing
<1>2. /\ srv[s].tx \in TxSet
      /\ TablesOK(srv[s].tx.roles, srv[s].tx.perms)
      /\ WholeBut(srv[s].tx.roles, srv[s].tx.perms, {})
  BY <1>1 DEF TxInv
<1>3. roles' = srv[s].tx.roles /\ perms' = srv[s].tx.perms /\ lock' = None
      /\ UNCHANGED applied
  BY DEF Commit
<1>4. TablesOK(roles, perms)' /\ WholeBut(roles, perms, {})'
  BY <1>2, <1>3
<1>5. [roles |-> roles', perms |-> perms'] \in TxSet
  BY <1>2, <1>3 DEF TxSet
<1> DEFINE new == [srv[s] EXCEPT !.pc = "serving", !.tx = None, !.todo = 0]
<1>6. srv' = [srv EXCEPT ![s] = new]
  BY DEF Commit
<1>7. /\ new \in SrvSet /\ new.pc = "serving" /\ new.build = srv[s].build
      /\ new.error = srv[s].error
  <2>1. ASSUME NEW old \in SrvSet, NEW n \in 0 .. 6,
               NEW rec, rec = [old EXCEPT !.pc = "serving", !.tx = None, !.todo = n]
        PROVE  /\ rec \in SrvSet /\ rec.pc = "serving" /\ rec.build = old.build
               /\ rec.error = old.error
    BY <2>1 DEF SrvSet
  <2>2. 0 \in 0 .. 6
    OBVIOUS
  <2>. QED
    BY <1>0, <2>1, <2>2, Zenon
<1> HIDE DEF new
<1>8. /\ srv' \in [Servers -> SrvSet] /\ srv'[s] = new
      /\ \A q \in Servers \ {s} : srv'[q] = srv[q]
  BY <1>0, <1>6, <1>7, RecordStep
<1>9. Shape'
  BY <1>0, <1>3, <1>5, <1>8 DEF Shape
<1>10. SrvInv(s)'
  <2>1. Migrations(s)' = Migrations(s) /\ Permitted' = Permitted
    BY <1>3, <1>7, <1>8 DEF Migrations, Permitted
  <2>. QED
    BY <1>0, <1>1, <1>3, <1>7, <1>8, <2>1 DEF SrvInv, Writing
<1>11. \A q \in Servers \ {s} : SrvInv(q)'
  BY <1>0, <1>1, <1>3, <1>8, OthersKept DEF BootInv
<1>. QED
  BY <1>4, <1>9, <1>10, <1>11 DEF BootInv

\* An administrator defines a role: no transaction of a server is under way,
\* and the id is no built-in role's.
LEMMA DefineStep ==
  ASSUME BootInv, NEW i \in CustomRoles, DefineRole(i)
  PROVE  BootInv'
<1>0. Shape /\ TablesOK(roles, perms) /\ WholeBut(roles, perms, {}) /\ None \notin Servers
  BY BuildsAssumption DEF BootInv
<1>1. /\ lock = None /\ i \notin DOMAIN perms /\ UNCHANGED <<applied, roles, lock, srv>>
      /\ perms' = [j \in DOMAIN perms \cup {i} |-> IF j = i THEN CustomGrants[i] ELSE perms[j]]
  BY DEF DefineRole, Change
<1>2. perms \in PermMaps /\ roles \in [Roles -> Nat \cup {None}]
  BY <1>0 DEF Shape, TxSet
<1>3. perms' \in PermMaps
  <2>1. i \in RoleIds /\ CustomGrants[i] \in SUBSET AllPermissions
    <3>1. i \in RoleIds
      BY DEF RoleIds
    <3>2. ASSUME NEW x \in CustomGrants[i] PROVE x \in AllPermissions
      <4>1. x \in CustomPermissions
        BY Zenon DEF CustomPermissions
      <4>. QED
        BY <4>1 DEF AllPermissions
    <3>. QED
      BY <3>1, <3>2, Zenon
  <2>. QED
    BY <1>1, <1>2, <2>1, PermMapsClosed
<1>4. DOMAIN perms' = DOMAIN perms \cup {i} /\ \A j \in DOMAIN perms : perms'[j] = perms[j]
  BY <1>1
<1>5. Shape'
  BY <1>0, <1>1, <1>2, <1>3 DEF Shape, TxSet
<1>6. TablesOK(roles, perms)'
  BY <1>0, <1>1, <1>4 DEF TablesOK, Given
<1>7. WholeBut(roles, perms, {})'
  <2> SUFFICES ASSUME NEW r \in Given(roles)
               PROVE  \E b \in Builds : perms'[roles[r]] = Table[b][r]
    BY <1>1 DEF WholeBut
  <2>1. roles[r] \in DOMAIN perms
    BY <1>0 DEF TablesOK
  <2>. QED
    BY <1>0, <1>4, <2>1 DEF WholeBut
<1>8. \A s \in Servers : SrvInv(s)'
  <2> SUFFICES ASSUME NEW s \in Servers PROVE SrvInv(s)'
    OBVIOUS
  <2>1. SrvInv(s) /\ srv[s].pc \notin Writing
    BY <1>0, <1>1 DEF BootInv, SrvInv
  <2>. QED
    BY <1>1, <2>1 DEF SrvInv, Migrations, Permitted
<1>. QED
  BY <1>5, <1>6, <1>7, <1>8 DEF BootInv

\* A step that leaves the database and the servers alone.
LEMMA BootStutter ==
  ASSUME BootInv, UNCHANGED bootVars
  PROVE  BootInv'
<1>1. UNCHANGED <<applied, roles, perms, lock, srv>>
  BY DEF bootVars
<1>2. Shape' /\ TablesOK(roles, perms)' /\ WholeBut(roles, perms, {})'
  BY <1>1, Zenon DEF BootInv, Shape
<1>3. \A s \in Servers : SrvInv(s)'
  <2> SUFFICES ASSUME NEW s \in Servers PROVE SrvInv(s)'
    OBVIOUS
  <2>1. TxInv(s) => TxInv(s)'
    BY <1>1 DEF TxInv, Role
  <2>. QED
    BY <1>1, <2>1 DEF BootInv, SrvInv, Migrations, Permitted
<1>. QED
  BY <1>2, <1>3 DEF BootInv

LEMMA BootInit0 == Init => BootInv
<1> SUFFICES ASSUME Init PROVE BootInv
  OBVIOUS
<1>1. /\ applied = {} /\ roles = [r \in Roles |-> None] /\ perms = [i \in {} |-> {}]
      /\ lock = None /\ srv = [s \in Servers |-> Down(None)]
  BY DEF Init, BootInit
<1>2. Given(roles) = {} /\ DOMAIN perms = {}
  BY <1>1 DEF Given
<1>3. TablesOK(roles, perms) /\ WholeBut(roles, perms, {})
  BY <1>2 DEF TablesOK, WholeBut
<1>4. Shape
  <2>1. perms \in PermMaps
    <3>1. perms \in [{} -> SUBSET AllPermissions] /\ {} \in SUBSET RoleIds
      BY <1>1
    <3>. QED
      BY <3>1 DEF PermMaps
  <2>2. [roles |-> roles, perms |-> perms] \in TxSet
    BY <1>1, <2>1 DEF TxSet
  <2>3. srv \in [Servers -> SrvSet]
    BY <1>1, DownRecord
  <2>. QED
    BY <1>1, <2>2, <2>3 DEF Shape
<1>5. ASSUME NEW s \in Servers PROVE SrvInv(s)
  <2>1. srv[s].pc = "down" /\ srv[s].error = None
    BY <1>1, DownRecord
  <2>2. None # "ForeignKey" /\ None \notin Servers
    BY BuildsAssumption DEF Errors
  <2>. QED
    BY <1>1, <2>1, <2>2 DEF SrvInv, Writing
<1>. QED
  BY <1>3, <1>4, <1>5 DEF BootInv

(***************************************************************************)
(* The administrators' tables                                               *)
(***************************************************************************)

RowOK(row) ==
    /\ row.kind \in {"user", "team", "service_account"}
    /\ row.id \in (IF row.kind = "user" THEN Users
                   ELSE IF row.kind = "team" THEN Teams ELSE Accounts)
    /\ row.scopeId \in Orgs \cup Projects \cup Pipelines

\* Every row is one of those an administrator can make, with the id of a role
\* that exists.
AdminInv ==
    /\ \A row \in assigned : RowOK(row) /\ row.role \in DOMAIN perms
    /\ dormant \subseteq Orgs \X Users
    /\ joined \subseteq Teams \X Users

IInv == BootInv /\ AdminInv

\* No step forgets a role's id, and none but the two of a transaction's commit
\* and DefineRole touches the table.
LEMMA RoleIdsKept ==
  ASSUME BootInv, [Next]_vars
  PROVE  /\ DOMAIN perms \subseteq DOMAIN perms'
         /\ \A i \in DOMAIN perms \cap CustomRoles : perms'[i] = perms[i]
<1>1. CASE UNCHANGED perms
  BY <1>1
<1>2. ASSUME NEW s \in Servers, Commit(s)
      PROVE  /\ DOMAIN perms \subseteq DOMAIN perms'
             /\ \A i \in DOMAIN perms \cap CustomRoles : perms'[i] = perms[i]
  BY <1>2 DEF Commit, BootInv, SrvInv, TxInv, Writing
<1>3. ASSUME NEW i \in CustomRoles, DefineRole(i)
      PROVE  /\ DOMAIN perms \subseteq DOMAIN perms'
             /\ \A j \in DOMAIN perms \cap CustomRoles : perms'[j] = perms[j]
  BY <1>3 DEF DefineRole
<1>4. \/ UNCHANGED perms
      \/ \E s \in Servers : Commit(s)
      \/ \E i \in CustomRoles : DefineRole(i)
  BY DEF Next, BootStep, Start, ListApplied, Migrate, Busy, Verify, Begin, InsertRole,
         Reconcile, Crash, Assign, Revoke, Suspend, SuspendMembership, Join, bootVars, vars
<1>. QED
  BY <1>1, <1>2, <1>3, <1>4

LEMMA AdminStep ==
  ASSUME IInv, [Next]_vars
  PROVE  AdminInv'
<1>0. DOMAIN perms \subseteq DOMAIN perms' /\ AdminInv
  BY RoleIdsKept DEF IInv
<1>1. ASSUME NEW g \in Assignable, Assign(g) PROVE AdminInv'
  <2> DEFINE id == IF g.role \in Roles THEN roles[g.role] ELSE g.role
             row == [g EXCEPT !.role = id]
  <2>1. /\ id \in DOMAIN perms /\ assigned' = assigned \cup {row}
        /\ UNCHANGED <<perms, dormant, joined>>
    BY <1>1 DEF Assign, bootVars
  <2>2. PICK k \in {"user", "team", "service_account"} :
          g \in [org : Orgs, kind : {k}, id : IF k = "user" THEN Users
                                              ELSE IF k = "team" THEN Teams ELSE Accounts,
                 role : Roles \cup CustomRoles, scope : {"org", "project", "pipeline"},
                 scopeId : Orgs \cup Projects \cup Pipelines]
    BY GrantsAssumption, Zenon
  <2> HIDE DEF id
  <2>3. RowOK(row) /\ row.role = id
    BY <2>2 DEF RowOK
  <2> HIDE DEF row
  <2>. QED
    BY <1>0, <2>1, <2>3 DEF AdminInv, RowOK
<1>2. ASSUME NEW row \in assigned, Revoke(row) PROVE AdminInv'
  BY <1>0, <1>2 DEF Revoke, bootVars, AdminInv, RowOK
<1>3. ASSUME NEW o \in Orgs, NEW u \in Users, SuspendMembership(o, u) PROVE AdminInv'
  BY <1>0, <1>3 DEF SuspendMembership, bootVars, AdminInv, RowOK
<1>4. ASSUME NEW t \in Teams, NEW u \in Users, Join(t, u) PROVE AdminInv'
  BY <1>0, <1>4 DEF Join, bootVars, AdminInv, RowOK
<1>5. CASE UNCHANGED <<assigned, dormant, joined>>
  BY <1>0, <1>5 DEF AdminInv, RowOK
<1>6. \/ UNCHANGED <<assigned, dormant, joined>>
      \/ \E g \in Assignable : Assign(g)
      \/ \E row \in assigned : Revoke(row)
      \/ \E o \in Orgs, u \in Users : SuspendMembership(o, u)
      \/ \E t \in Teams, u \in Users : Join(t, u)
  BY DEF Next, Suspend, DefineRole, adminVars, vars
<1>. QED
  BY <1>1, <1>2, <1>3, <1>4, <1>5, <1>6

LEMMA InvStep ==
  ASSUME IInv, [Next]_vars
  PROVE  IInv'
<1>0. BootInv
  BY DEF IInv
<1>1. ASSUME NEW s \in Servers, BootStep(s) PROVE BootInv'
  BY <1>0, <1>1, OpenStep, BootstrapStep, CommitStep DEF BootStep
<1>2. ASSUME NEW i \in CustomRoles, DefineRole(i) PROVE BootInv'
  BY <1>0, <1>2, DefineStep
<1>3. ASSUME UNCHANGED bootVars PROVE BootInv'
  BY <1>0, <1>3, BootStutter
<1>4. \/ \E s \in Servers : BootStep(s)
      \/ \E i \in CustomRoles : DefineRole(i)
      \/ UNCHANGED bootVars
  BY DEF Next, Assign, Revoke, Suspend, SuspendMembership, Join, vars
<1>5. BootInv'
  BY <1>1, <1>2, <1>3, <1>4
<1>. QED
  BY <1>5, AdminStep DEF IInv

LEMMA InvInit == Init => IInv
BY BootInit0 DEF IInv, AdminInv, Init

LEMMA Invariance == Spec => []IInv
BY InvInit, InvStep, PTL DEF Spec

(***************************************************************************)
(* The theorems about bootstrap                                             *)
(***************************************************************************)

\* Whoever starts, dies, migrates or reconciles, a reader never sees a built-in
\* role half-way (bootstrap.rs, one transaction for all roles).
THEOREM RolesNeverHalfWay == Spec => []RolesWhole
<1>1. IInv => RolesWhole
  BY DEF IInv, BootInv, WholeBut, Given, RolesWhole
<1>. QED
  BY <1>1, Invariance, PTL

\* A server past its migrations has the whole schema of its build under it, and
\* no server ends on a foreign key of the catalog (db.rs, open, and bootstrap.rs,
\* verify_permission_catalog).
THEOREM SchemaNeverPartial == Spec => []SchemaWhole
<1>1. IInv => SchemaWhole
  BY DEF IInv, BootInv, SrvInv, SchemaWhole
<1>. QED
  BY <1>1, Invariance, PTL

\* No start of any build changes a role that an organization defined
\* (bootstrap.rs, the DELETE and INSERT are by the built-in role's id).
THEOREM CustomRolesKept == Spec => CustomRolesUntouched
<1>1. IInv /\ [Next]_vars =>
        [\A i \in DOMAIN perms \cap CustomRoles : i \in DOMAIN perms' /\ perms'[i] = perms[i]]_vars
  BY RoleIdsKept DEF IInv
<1>. QED
  BY <1>1, Invariance, PTL DEF Spec, CustomRolesUntouched

(***************************************************************************)
(* The theorems about authorize                                             *)
(***************************************************************************)

\* The three kinds of scope a caller passes, with the ancestors that are its own.
LEMMA ScopeForms ==
  ASSUME NEW scope \in Scopes
  PROVE  \/ \E o \in Orgs : scope = [kind |-> "org", org |-> o]
         \/ \E p \in Projects : scope = [kind |-> "project", org |-> OrgOf[p], project |-> p]
         \/ \E l \in Pipelines :
              /\ ProjectOf[l] \in Projects
              /\ scope = [kind |-> "pipeline", org |-> OrgOf[ProjectOf[l]],
                          project |-> ProjectOf[l], pipeline |-> l]
BY GrantsAssumption DEF Scopes, OrgScope, ProjectScope, PipelineScope

\* A scope's lineage is the scope and all that contains it: the ancestors a
\* request carries are the ones the tables have.
LEMMA LineageExact ==
  ASSUME NEW scope \in Scopes, NEW kind, NEW id, id # None
  PROVE  CoveredBy(scope, kind, id) <=> Contains(kind, id, scope)
<1>1. ASSUME NEW o \in Orgs, scope = [kind |-> "org", org |-> o]
      PROVE  CoveredBy(scope, kind, id) <=> Contains(kind, id, scope)
  <2>1. CoveredBy(scope, kind, id) <=> kind = "org" /\ id = o
    BY <1>1 DEF CoveredBy, Lineage, OwnId
  <2>2. Contains(kind, id, scope) <=> kind = "org" /\ id = o
    BY <1>1 DEF Contains, OwnId
  <2>. QED
    BY <2>1, <2>2
<1>2. ASSUME NEW p \in Projects, scope = [kind |-> "project", org |-> OrgOf[p], project |-> p]
      PROVE  CoveredBy(scope, kind, id) <=> Contains(kind, id, scope)
  <2>0. p # None
    BY GrantsAssumption
  <2>1. CoveredBy(scope, kind, id)
          <=> (kind = "project" /\ id = p) \/ (kind = "org" /\ id = OrgOf[p])
    BY <1>2 DEF CoveredBy, Lineage, OwnId
  <2>2. Contains(kind, id, scope)
          <=> (kind = "project" /\ id = p) \/ (kind = "org" /\ id = OrgOf[p])
    BY <1>2, <2>0 DEF Contains, OwnId
  <2>. QED
    BY <2>1, <2>2
<1>3. ASSUME NEW l \in Pipelines, ProjectOf[l] \in Projects,
             scope = [kind |-> "pipeline", org |-> OrgOf[ProjectOf[l]],
                      project |-> ProjectOf[l], pipeline |-> l]
      PROVE  CoveredBy(scope, kind, id) <=> Contains(kind, id, scope)
  <2>0. ProjectOf[l] # None
    BY <1>3, GrantsAssumption
  <2>1. CoveredBy(scope, kind, id)
          <=> \/ kind = "pipeline" /\ id = l
              \/ kind = "project" /\ id = ProjectOf[l]
              \/ kind = "org" /\ id = OrgOf[ProjectOf[l]]
    BY <1>3 DEF CoveredBy, Lineage, OwnId
  <2>2. Contains(kind, id, scope)
          <=> \/ kind = "pipeline" /\ id = l
              \/ kind = "project" /\ id = ProjectOf[l]
              \/ kind = "org" /\ id = OrgOf[ProjectOf[l]]
    BY <1>3, <2>0 DEF Contains, OwnId
  <2>. QED
    BY <2>1, <2>2
<1>. QED
  BY <1>1, <1>2, <1>3, ScopeForms

\* The principals that are not the system, by kind.
LEMMA PrincipalForms ==
  ASSUME NEW p \in Principals, p.kind # "system"
  PROVE  \/ p.kind = "user" /\ p.id \in Users
         \/ p.kind = "service_account" /\ p.id \in Accounts
BY DEF Principals

\* The principal clause of the query finds the rows of the principal and of its
\* teams in its organization, and no others.
LEMMA HolderExact ==
  ASSUME AdminInv, NEW p \in Principals, p.kind # "system",
         NEW row \in assigned, row.org = p.org
  PROVE  Holder(row, p)
           <=> \/ row.kind = p.kind /\ row.id = p.id
               \/ /\ p.kind = "user" /\ row.kind = "team"
                  /\ OrgOf[row.id] = row.org /\ <<row.id, p.id>> \in joined
<1>1. RowOK(row) /\ joined \subseteq Teams \X Users
  BY DEF AdminInv
<1>2. \/ p.kind = "user" /\ p.id \in Users /\ p.id \notin Accounts
      \/ p.kind = "service_account" /\ p.id \in Accounts /\ p.id \notin Users
  BY PrincipalForms, GrantsAssumption
<1>3. <<row.id, p.id>> \in joined => p.id \in Users
  BY <1>1
<1>. QED
  BY <1>1, <1>2, <1>3 DEF Holder, RowOK

\* Only an active principal is entitled to anything, and for it the two sets of
\* rows are the same.
LEMMA HeldExact ==
  ASSUME AdminInv, NEW p \in Principals, p.kind # "system", NEW scope \in Scopes, NEW known
  PROVE  EffectivePermissions(p, scope, known) = Entitled(p, scope) \cap known
<1> DEFINE mine(row) == /\ row.org = p.org /\ scope.org = p.org
                        /\ Contains(row.scope, row.scopeId, scope)
                        /\ p.id \notin inactive /\ <<p.org, p.id>> \notin dormant
                        /\ p.kind = "service_account" => OrgOf[p.id] = p.org
                        /\ \/ row.kind = p.kind /\ row.id = p.id
                           \/ /\ p.kind = "user" /\ row.kind = "team"
                              /\ OrgOf[row.id] = row.org /\ <<row.id, p.id>> \in joined
           found(row) == /\ row.org = p.org
                         /\ Holder(row, p)
                         /\ CoveredBy(scope, row.scope, row.scopeId)
           mineRows == {row \in assigned : mine(row)}
           foundRows == {row \in assigned : found(row)}
<1>0. dormant \subseteq Orgs \X Users /\ \A row \in assigned : RowOK(row)
  BY DEF AdminInv
<1>1. IsActive(p) <=> /\ p.id \notin inactive /\ <<p.org, p.id>> \notin dormant
                      /\ p.kind = "service_account" => OrgOf[p.id] = p.org
  <2>1. CASE p.kind = "user"
    BY <2>1 DEF IsActive
  <2>2. CASE p.kind = "service_account" /\ p.id \in Accounts
    <3>1. <<p.org, p.id>> \notin dormant
      BY <1>0, <2>2, GrantsAssumption
    <3>. QED
      BY <2>2, <3>1 DEF IsActive
  <2>. QED
    BY <2>1, <2>2, PrincipalForms
<1>2. Entitled(p, scope) = UNION {perms[row.role] : row \in mineRows}
  BY DEF Entitled
<1>3. QueryPermissions(p, scope, known) = (UNION {perms[row.role] : row \in foundRows}) \cap known
  BY Zenon DEF QueryPermissions, Parsed
<1>4. ASSUME scope.org = p.org, IsActive(p), NEW row \in assigned
      PROVE  mine(row) <=> found(row)
  <2>1. row.scopeId # None
    BY <1>0, GrantsAssumption DEF RowOK
  <2>2. CoveredBy(scope, row.scope, row.scopeId) <=> Contains(row.scope, row.scopeId, scope)
    BY <2>1, LineageExact
  <2>3. CASE row.org = p.org
    BY <1>1, <1>4, <2>2, <2>3, HolderExact
  <2>4. CASE row.org # p.org
    BY <2>4
  <2>. QED
    BY <2>3, <2>4
<1>5. CASE scope.org = p.org /\ IsActive(p)
  <2>1. mineRows = foundRows
    BY <1>4, <1>5
  <2> HIDE DEF mineRows, foundRows
  <2>2. EffectivePermissions(p, scope, known) = QueryPermissions(p, scope, known)
    BY <1>5 DEF EffectivePermissions, Held
  <2>. QED
    BY <1>2, <1>3, <2>1, <2>2, Zenon
<1>6. CASE ~(scope.org = p.org /\ IsActive(p))
  <2>1. mineRows = {}
    BY <1>1, <1>6
  <2>2. EffectivePermissions(p, scope, known) = {}
    BY <1>6 DEF EffectivePermissions
  <2> HIDE DEF mineRows
  <2>. QED
    BY <1>2, <2>1, <2>2
<1>. QED
  BY <1>5, <1>6

\* authorize and effective_permissions give every user and every service account
\* exactly what the committed tables entitle it to, for any tenants, teams,
\* scopes and grants, and any builds that serve side by side (jet-authz,
\* authorize and query_permissions).
THEOREM AuthorizeExact == Spec => []AuthorizeIsExact
<1>1. ASSUME AdminInv PROVE AuthorizeIsExact
  <2> SUFFICES ASSUME NEW s \in Serving, NEW p \in Principals, NEW scope \in Scopes,
                      p.kind # "system"
               PROVE  /\ EffectivePermissions(p, scope, KnownTo(s))
                            = Entitled(p, scope) \cap KnownTo(s)
                      /\ \A q \in KnownTo(s) :
                           Authorize(p, q, scope, KnownTo(s)) = "Ok" <=> q \in Entitled(p, scope)
    BY DEF AuthorizeIsExact
  <2>1. EffectivePermissions(p, scope, KnownTo(s)) = Entitled(p, scope) \cap KnownTo(s)
    BY <1>1, HeldExact
  <2>2. ASSUME NEW q \in KnownTo(s)
        PROVE  Authorize(p, q, scope, KnownTo(s)) = "Ok"
                 <=> q \in EffectivePermissions(p, scope, KnownTo(s))
    BY DEF Authorize, EffectivePermissions
  <2>. QED
    BY <2>1, <2>2
<1>. QED
  BY <1>1, Invariance, PTL DEF IInv

\* The key of the decision cache leaves out a scope's ancestors and loses nothing
\* by it: requests with equal keys have equal answers (jet-authz,
\* DecisionCache::key).
THEOREM KeyIsEnough == Spec => []KeyDecides
<1>1. KeyDecides
  <2> SUFFICES ASSUME NEW p \in Principals, NEW q \in Principals,
                      NEW c \in Scopes, NEW d \in Scopes, Key(p, c) = Key(q, d)
               PROVE  QueryPermissions(p, c, Permissions) = QueryPermissions(q, d, Permissions)
    BY DEF KeyDecides
  <2>1. p.org = q.org /\ p.id = q.id /\ c.kind = d.kind /\ OwnId(c) = OwnId(d)
    BY DEF Key
  <2>2. c = d
    BY <2>1, ScopeForms DEF OwnId
  <2>3. \A row : Holder(row, p) <=> Holder(row, q)
    BY <2>1 DEF Holder
  <2>4. {row \in assigned : row.org = p.org /\ Holder(row, p) /\ CoveredBy(c, row.scope, row.scopeId)}
        = {row \in assigned : row.org = q.org /\ Holder(row, q) /\ CoveredBy(d, row.scope, row.scopeId)}
    BY <2>1, <2>2, <2>3
  <2>. QED
    BY <2>4, Zenon DEF QueryPermissions
<1>. QED
  BY <1>1, PTL

\* An owner whose account is active may manage the organization at every moment
\* of every server's start, reconciliation and death (bootstrap.rs clears and
\* adds the owner's permissions again on every start).
THEOREM OwnersKeepControl == Spec => []OwnersNeverLockedOut
<1>1. ASSUME IInv PROVE OwnersNeverLockedOut
  <2> SUFFICES ASSUME NEW s \in Serving, NEW p \in Principals, IsActive(p),
                      NEW row \in assigned, row.org = p.org, row.kind = p.kind, row.id = p.id,
                      row.role = roles["owner"], row.scope = "org", row.scopeId = p.org
               PROVE  Authorize(p, "org.manage", OrgScope(p.org), KnownTo(s)) = "Ok"
    BY Zenon DEF OwnersNeverLockedOut
  <2>1. RowOK(row) /\ row.role \in DOMAIN perms
    BY <1>1 DEF IInv, AdminInv
  <2>2. p.kind # "system" /\ p.kind \in {"user", "service_account"}
    BY <2>1 DEF RowOK, Principals
  <2>3. roles["owner"] # None /\ "owner" \in Roles
    <3>1. row.role \in RoleIds
      <4>1. [roles |-> roles, perms |-> perms] \in TxSet
        BY <1>1 DEF IInv, BootInv, Shape
      <4>2. perms \in PermMaps
        BY <4>1 DEF TxSet
      <4>3. DOMAIN perms \subseteq RoleIds
        BY <4>2 DEF PermMaps
      <4>. QED
        BY <2>1, <4>3
    <3>. QED
      BY <3>1, RolesKnown, BuildsAssumption DEF RoleIds
  <2>4. PICK b \in Builds : perms[row.role] = Table[b]["owner"]
    BY <1>1, <2>3 DEF IInv, BootInv, WholeBut, Given
  <2>5. "org.manage" \in perms[row.role]
    BY <2>4, OwnerAssumption
  <2>6. s \in Servers /\ srv[s].build \in Builds
    BY <1>1 DEF Serving, IInv, BootInv, SrvInv
  <2>7. "org.manage" \in KnownTo(s)
    BY <2>3, <2>6, OwnerAssumption, BuildsAssumption DEF KnownTo
  <2> DEFINE scope == OrgScope(p.org)
  <2>8. CoveredBy(scope, "org", p.org)
    <3>1. Lineage(scope) = <<[kind |-> "org", id |-> p.org]>>
      BY DEF Lineage, OrgScope
    <3>. QED
      BY <3>1 DEF CoveredBy
  <2>9. Holder(row, p)
    BY <2>2 DEF Holder
  <2>10. scope.org = p.org
    BY DEF OrgScope
  <2> HIDE DEF scope
  <2>11. "org.manage" \in QueryPermissions(p, scope, KnownTo(s))
    <3> DEFINE rows == {x \in assigned : /\ x.org = p.org /\ Holder(x, p)
                                         /\ CoveredBy(scope, x.scope, x.scopeId)}
    <3>1. row \in rows
      BY <2>8, <2>9
    <3>2. QueryPermissions(p, scope, KnownTo(s))
            = (UNION {perms[x.role] : x \in rows}) \cap KnownTo(s)
      BY Zenon DEF QueryPermissions, Parsed
    <3> HIDE DEF rows
    <3>3. "org.manage" \in UNION {perms[x.role] : x \in rows}
      BY <2>5, <3>1, Zenon
    <3>. QED
      BY <2>7, <3>2, <3>3, Zenon
  <2>. QED
    BY <2>2, <2>10, <2>11 DEF Authorize, Held, scope
<1>. QED
  BY <1>1, Invariance, PTL

=============================================================================
