--------------------------------- MODULE Access ---------------------------------
(***************************************************************************)
(* Permissions, roles and who has them: iam/iam.service.ts, the default      *)
(* roles of tenants/tenants.service.ts and the access that                   *)
(* auth/auth.service.ts derives for every request.                           *)
(*                                                                         *)
(* One tenant beside the platform.  A syncRolePermissions handler is a read   *)
(* and a transaction of two statements: each sees what others have committed, *)
(* and nothing of it is seen before its own commit.  Other handlers are one    *)
(* action.                                                                  *)
(***************************************************************************)
EXTENDS FiniteSets

CONSTANTS Permission, Manages, \* "iam.roles.write"
          PlatformRole,        \* seeded, and kept complete by the bootstrap
          DefaultRole, CustomRole, \* of the tenant: provisioned, made by hand
          Template(_),         \* the permissions listed for a role of code
          SuperAdmin, Member,  \* the seeded platform user, users of the tenant
          RoleAdmin,           \* syncRolePermissions handlers
          NoRole, NoSync

ASSUME AccessAssumption ==
  /\ Manages \in Permission
  /\ \A r \in PlatformRole \cup DefaultRole : Template(r) \subseteq Permission
  /\ CustomRole \cap (PlatformRole \cup DefaultRole) = {}
  /\ \A P \in SUBSET Permission : P # NoRole

AccessUser == Member \cup {SuperAdmin}
Role == PlatformRole \cup DefaultRole \cup CustomRole

VARIABLES catalog, \* codes that have a Permission row
          holds,   \* RolePermission rows of a Role row, or NoRole
          grant,   \* UserRole rows, by their window
          sync,    \* syncRolePermissions handlers
          asked    \* history: requests committed since a role was last quiet

accessVars == <<catalog, holds, grant, sync, asked>>

Window == {"LATER", "OPEN", "OVER"}

AccessTypeOK ==
  /\ catalog \subseteq Permission
  /\ holds \in [Role -> (SUBSET Permission) \cup {NoRole}]
  /\ grant \in [AccessUser -> [Role -> Window \cup {NoRole}]]
  /\ \A h \in RoleAdmin : sync[h] # NoSync =>
       sync[h].role \in CustomRole /\ sync[h].request \in SUBSET Permission \ {{}}
  /\ asked \in [Role -> SUBSET SUBSET Permission]

\* Seeds: a catalog that may be older than the code, and the platform's roles.
AccessInit ==
  /\ catalog \in {c \in SUBSET Permission : Manages \in c}
  /\ holds = [r \in Role |-> IF r \in PlatformRole THEN Template(r) \cap catalog ELSE NoRole]
  /\ grant = [u \in AccessUser |-> [r \in Role |->
       IF u = SuperAdmin /\ r \in PlatformRole THEN "OPEN" ELSE NoRole]]
  /\ sync = [h \in RoleAdmin |-> NoSync]
  /\ asked = [r \in Role |-> {}]

Exists(r) == holds[r] # NoRole

\* buildAccess: roles whose window is open; nothing deactivates a role.
Granted(u) == UNION {holds[r] : r \in {q \in Role : Exists(q) /\ grant[u][q] = "OPEN"}}

\* The guard of the controller and findRoleForActor: somebody whose request may
\* change that role, or who has it.
Managed(r) ==
  \E u \in AccessUser : Manages \in Granted(u) /\ (r \in PlatformRole => u = SuperAdmin)

----------------------------------------------------------------------------
\* The catalog and the roles.

\* bootstrapPermissionCatalog only adds.
BootstrapPermissionCatalog ==
  /\ catalog' = Permission
  /\ holds' = [r \in Role |-> IF r \in PlatformRole THEN holds[r] \cup Template(r) ELSE holds[r]]
  /\ UNCHANGED <<grant, sync, asked>>

\* createTenant: default roles get what the catalog has of their template, and
\* the first administrator gets one, now or with the invitation.
CreateTenant(m, r, window) ==
  /\ r \in DefaultRole /\ \A q \in DefaultRole : ~Exists(q)
  /\ holds' = [q \in Role |-> IF q \in DefaultRole THEN Template(q) \cap catalog ELSE holds[q]]
  /\ grant' = [grant EXCEPT ![m][r] = window]
  /\ UNCHANGED <<catalog, sync, asked>>

CreateRole(r) ==
  /\ r \in CustomRole /\ ~Exists(r) /\ Managed(r)
  /\ holds' = [holds EXCEPT ![r] = {}]
  /\ UNCHANGED <<catalog, grant, sync, asked>>

----------------------------------------------------------------------------
\* Who has a role.

\* An assignment that is made again keeps its window where none is asked for.
AssignUserRole(u, r, window) ==
  /\ Exists(r) /\ Managed(r)
  /\ r \notin PlatformRole => u \in Member
  /\ grant' = [grant EXCEPT ![u][r] =
       IF window # NoRole THEN window ELSE IF @ = NoRole THEN "OPEN" ELSE @]
  /\ UNCHANGED <<catalog, holds, sync, asked>>

RemoveUserRole(u, r) ==
  /\ Exists(r) /\ grant[u][r] # NoRole /\ Managed(r)
  /\ grant' = [grant EXCEPT ![u][r] = NoRole]
  /\ UNCHANGED <<catalog, holds, sync, asked>>

WindowPasses(u, r) ==
  /\ grant[u][r] \in {"LATER", "OPEN"}
  /\ grant' = [grant EXCEPT ![u][r] = IF @ = "LATER" THEN "OPEN" ELSE "OVER"]
  /\ UNCHANGED <<catalog, holds, sync, asked>>

----------------------------------------------------------------------------
\* syncRolePermissions and applyPermissionTemplate.

At(h, at) == sync[h] # NoSync /\ sync[h].at = at
Changing(r) == {h \in RoleAdmin : sync[h] # NoSync /\ sync[h].role = r /\ sync[h].at # "delete"}

\* assertMutableRole refuses system roles; every permission must be resolved.
SyncRead(h, r, request) ==
  /\ sync[h] = NoSync
  /\ r \in CustomRole /\ Exists(r) /\ Managed(r)
  /\ request # {} /\ request \subseteq catalog
  /\ sync' = [sync EXCEPT ![h] = [at |-> "delete", role |-> r, request |-> request, gone |-> {}, new |-> {}]]
  /\ UNCHANGED <<catalog, holds, grant, asked>>

\* deleteMany, permissionId notIn.
Unlisted(r, request) == holds[r] \ request

SyncDelete(h) ==
  /\ At(h, "delete")
  /\ LET r == sync[h].role IN
     /\ sync' = [sync EXCEPT ![h].at = "upsert", ![h].gone = Unlisted(r, sync[h].request)]
     /\ asked' = IF Changing(r) = {} THEN [asked EXCEPT ![r] = {}] ELSE asked
  /\ UNCHANGED <<catalog, holds, grant>>

\* The upserts leave a row alone that is there, also one that another handler
\* has deleted and not committed.
SyncUpsert(h) ==
  /\ At(h, "upsert")
  /\ sync' = [sync EXCEPT ![h].at = "commit", ![h].new = sync[h].request \ holds[sync[h].role]]
  /\ UNCHANGED <<catalog, holds, grant, asked>>

SyncCommit(h) ==
  /\ At(h, "commit")
  /\ LET r == sync[h].role IN
     /\ holds' = [holds EXCEPT ![r] = (@ \ sync[h].gone) \cup sync[h].new]
     /\ asked' = [asked EXCEPT ![r] = @ \cup {sync[h].request}]
  /\ sync' = [sync EXCEPT ![h] = NoSync]
  /\ UNCHANGED <<catalog, grant>>

\* A lost connection, a deadlock or a duplicate row.
SyncRollsBack(h) ==
  /\ sync[h] # NoSync /\ sync' = [sync EXCEPT ![h] = NoSync]
  /\ UNCHANGED <<catalog, holds, grant, asked>>

----------------------------------------------------------------------------
AccessNext ==
  \/ BootstrapPermissionCatalog
  \/ \E r \in Role :
       \/ CreateRole(r)
       \/ \E m \in Member, window \in {"OPEN", NoRole} : CreateTenant(m, r, window)
       \/ \E u \in AccessUser : \/ \E window \in Window \cup {NoRole} : AssignUserRole(u, r, window)
                                \/ RemoveUserRole(u, r) \/ WindowPasses(u, r)
       \/ \E h \in RoleAdmin, request \in SUBSET Permission : SyncRead(h, r, request)
  \/ \E h \in RoleAdmin : SyncDelete(h) \/ SyncUpsert(h) \/ SyncCommit(h) \/ SyncRollsBack(h)

AccessSpec == AccessInit /\ [][AccessNext]_accessVars

----------------------------------------------------------------------------
\* Properties.

\* syncRolePermissions replaces the permissions of a role, several of them at
\* once included: the role holds what each of the requests asked for that were
\* committed since none was last under way, and nothing that none of them did.
RoleIsAsAsked ==
  \A r \in CustomRole : asked[r] # {} =>
    /\ \A p \in Permission : (\A request \in asked[r] : p \in request) => p \in holds[r]
    /\ holds[r] \subseteq UNION asked[r]
=============================================================================
