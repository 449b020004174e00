--------------------------------- MODULE Tenants ---------------------------------
(***************************************************************************)
(* Tenants: how one is provisioned with its first administrator, its status,  *)
(* settings, subscription and features (tenants/tenants.service.ts), and the  *)
(* employee numbers that its settings count (employees/employees.service.ts). *)
(*                                                                         *)
(* createTenant is a read, one transaction, and the mail of the invitation in *)
(* three statements after it; other handlers are one statement or one         *)
(* transaction that holds the row of the settings.  The default roles are      *)
(* those of Access, the accounts those of Accounts.                           *)
(***************************************************************************)
EXTENDS Integers

CONSTANTS TenantId, Slug,
          Feature, CoreFeature, \* platform features; CORE_ENABLED_FEATURES
          Provisioner,          \* createTenant handlers
          Prefix, PrefixOf(_),  \* of employee numbers; the one made of a slug
          EmployeeNumber, Format(_, _), \* formatEmployeeNumber
          MaxSequence,          \* bound of sequence numbers
          NoTenant, NoProvision

ASSUME TenantsAssumption ==
  /\ CoreFeature \subseteq Feature
  /\ \A s \in Slug : PrefixOf(s) \in Prefix
  /\ MaxSequence \in Nat

\* Numbers of one prefix differ; those of two may agree.
ASSUME FormatAssumption ==
  \A p \in Prefix : \A j, k \in 1 .. MaxSequence :
    /\ Format(p, j) \in EmployeeNumber
    /\ Format(p, j) = Format(p, k) => j = k

VARIABLES tenant,          \* slug and status of a Tenant row
          platformFeature, \* codes of the PlatformFeature rows; nothing deactivates one
          tenantFeature,   \* TenantFeature rows
          subscription,    \* status of the TenantSubscription
          numbering,       \* employeeNumberPrefix and employeeNumberNextSeq
          numbers,         \* employee numbers in use, those of archived employees among them,
                           \* with whom they are from (history)
          admin,           \* the first administrator
          mail,            \* the Notification of the invitation
          switched,        \* history: features switched by hand
          provisioner

tenantVars ==
  <<tenant, platformFeature, tenantFeature, subscription, numbering, numbers, admin, mail,
    switched, provisioner>>

TenantStatus == {"PENDING_VERIFICATION", "TRIAL", "ACTIVE", "SUSPENDED", "ARCHIVED"}
TenantRow == [slug : Slug, status : TenantStatus]
ASSUME NoTenantIsNoRow == NoTenant \notin TenantRow
FeatureStatus == {"ENABLED", "DISABLED"}
\* Given by the sequence, which the settings have not put before it since; or otherwise.
Origin == {"sequence", "hand"}
PlanStatus == {"TRIAL", "ACTIVE"}
Sequence == 1 .. MaxSequence + 1
SettingRow == [prefix : Prefix, next : Sequence]

TenantsTypeOK ==
  /\ tenant \in [TenantId -> TenantRow \cup {NoTenant}]
  /\ platformFeature \subseteq Feature
  /\ tenantFeature \in [TenantId -> [Feature -> FeatureStatus \cup {"NONE"}]]
  /\ subscription \in [TenantId -> PlanStatus \cup {"NONE"}]
  /\ numbering \in [TenantId -> SettingRow]
  /\ numbers \in [TenantId -> [EmployeeNumber -> Origin \cup {"free"}]]
  /\ admin \in [TenantId -> {"NONE", "INVITED", "ACTIVE"}]
  /\ mail \in [TenantId -> {"NONE", "PENDING", "SENT", "FAILED"}]
  /\ switched \subseteq TenantId \X Feature

\* What is kept of a tenant that does not exist is of no account.
TenantsInit ==
  /\ tenant = [t \in TenantId |-> NoTenant]
  /\ platformFeature \in SUBSET Feature
  /\ tenantFeature = [t \in TenantId |-> [f \in Feature |-> "NONE"]]
  /\ subscription = [t \in TenantId |-> "NONE"]
  /\ numbering \in [TenantId -> [prefix : Prefix, next : {1}]]
  /\ numbers = [t \in TenantId |-> [n \in EmployeeNumber |-> "free"]]
  /\ admin = [t \in TenantId |-> "NONE"]
  /\ mail = [t \in TenantId |-> "NONE"]
  /\ switched = {}
  /\ provisioner = [h \in Provisioner |-> NoProvision]

Provisioned(t) == tenant[t] # NoTenant
Free(slug) == \A t \in TenantId : Provisioned(t) => tenant[t].slug # slug
\* The numbers that the sequence will come to.
Ahead(prefix, next) == {Format(prefix, k) : k \in next .. MaxSequence}
\* TenantFeatureGuard.
Admitted(t, f) == f \in platformFeature /\ tenantFeature[t][f] = "ENABLED"

----------------------------------------------------------------------------
\* Provisioning.

SeedFeature(f) ==
  /\ platformFeature' = platformFeature \cup {f}
  /\ UNCHANGED <<tenant, tenantFeature, subscription, numbering, numbers, admin, mail, switched, provisioner>>

Provisions(h, step) == provisioner' = [provisioner EXCEPT ![h] = step]

\* The features are read before the transaction.
CreateTenantRead(h) ==
  /\ provisioner[h] = NoProvision
  /\ Provisions(h, [op |-> "create", features |-> platformFeature])
  /\ UNCHANGED <<tenant, platformFeature, tenantFeature, subscription, numbering, numbers, admin, mail, switched>>

\* With a password the administrator is active, otherwise invited.
CreateTenantCommit(h, t, slug, status, invited) ==
  /\ provisioner[h] # NoProvision /\ provisioner[h].op = "create"
  /\ ~Provisioned(t) /\ Free(slug)
  /\ tenant' = [tenant EXCEPT ![t] = [slug |-> slug, status |-> status]]
  /\ tenantFeature' = [tenantFeature EXCEPT ![t] = [f \in Feature |->
       IF f \notin provisioner[h].features THEN "NONE"
       ELSE IF f \in CoreFeature THEN "ENABLED" ELSE "DISABLED"]]
  /\ subscription' = [subscription EXCEPT ![t] = "TRIAL"]
  /\ numbering' = [numbering EXCEPT ![t] = [prefix |-> PrefixOf(slug), next |-> 1]]
  /\ admin' = [admin EXCEPT ![t] = IF invited THEN "INVITED" ELSE "ACTIVE"]
  /\ Provisions(h, IF invited THEN [op |-> "invite", tenant |-> t] ELSE NoProvision)
  /\ UNCHANGED <<platformFeature, numbers, mail, switched>>

Mails(h, op, status, step) ==
  /\ provisioner[h] # NoProvision /\ provisioner[h].op = op
  /\ mail' = [mail EXCEPT ![provisioner[h].tenant] = status]
  /\ Provisions(h, step)
  /\ UNCHANGED <<tenant, platformFeature, tenantFeature, subscription, numbering, numbers, admin, switched>>

\* sendTenantAdminInvitationEmail: the notification, and what its delivery,
\* which changes nothing here, came to.
NotifyAdmin(h) ==
  Mails(h, "invite", "PENDING", [op |-> "record", tenant |-> provisioner[h].tenant])
RecordInvitationDelivery(h, outcome) == Mails(h, "record", outcome, NoProvision)

ProvisionerStops(h) ==
  /\ provisioner[h] # NoProvision /\ Provisions(h, NoProvision)
  /\ UNCHANGED <<tenant, platformFeature, tenantFeature, subscription, numbering, numbers, admin, mail, switched>>

\* acceptInvitation; the only copy of the token is in the notification.
AdminAccepts(t) ==
  /\ admin[t] = "INVITED" /\ mail[t] # "NONE"
  /\ admin' = [admin EXCEPT ![t] = "ACTIVE"]
  /\ UNCHANGED <<tenant, platformFeature, tenantFeature, subscription, numbering, numbers, mail, switched, provisioner>>

----------------------------------------------------------------------------
\* A tenant that exists, whatever its status.

UpdateTenant(t, slug, status) ==
  /\ Provisioned(t) /\ (slug # tenant[t].slug => Free(slug))
  /\ tenant' = [tenant EXCEPT ![t] = [slug |-> slug, status |-> status]]
  /\ UNCHANGED <<platformFeature, tenantFeature, subscription, numbering, numbers, admin, mail, switched, provisioner>>

\* activateTenant, suspendTenant, archiveTenant.
SetTenantStatus(t, status) ==
  /\ Provisioned(t) /\ status \in {"ACTIVE", "SUSPENDED", "ARCHIVED"}
  /\ tenant' = [tenant EXCEPT ![t].status = status]
  /\ UNCHANGED <<platformFeature, tenantFeature, subscription, numbering, numbers, admin, mail, switched, provisioner>>

UpdateTenantSubscription(t, status) ==
  /\ Provisioned(t)
  /\ subscription' = [subscription EXCEPT ![t] = status]
  /\ UNCHANGED <<tenant, platformFeature, tenantFeature, numbering, numbers, admin, mail, switched, provisioner>>

\* By the platform or by the tenant; a row that is missing is written.
SetTenantFeatureStatus(t, f, status) ==
  /\ Provisioned(t) /\ f \in platformFeature
  /\ tenantFeature' = [tenantFeature EXCEPT ![t][f] = status]
  /\ switched' = switched \cup {<<t, f>>}
  /\ UNCHANGED <<tenant, platformFeature, subscription, numbering, numbers, admin, mail, provisioner>>

\* updateCurrentSettings: prefix and next number are any, behind or ahead of
\* the numbers in use.
UpdateSettings(t, prefix, next) ==
  /\ Provisioned(t)
  /\ numbering' = [numbering EXCEPT ![t] = [prefix |-> prefix, next |-> next]]
  /\ numbers' = [numbers EXCEPT ![t] =
       [n \in EmployeeNumber |->
          IF n \in Ahead(prefix, next) /\ numbers[t][n] # "free" THEN "hand" ELSE numbers[t][n]]]
  /\ UNCHANGED <<tenant, platformFeature, tenantFeature, subscription, admin, mail, switched, provisioner>>

----------------------------------------------------------------------------
\* Employee numbers: createEmployee and the import, with a number of their own
\* or the next one.  A number that is taken rolls the transaction back, the
\* increment of the sequence with it.

NextNumber(t) == Format(numbering[t].prefix, numbering[t].next)

Hire(t) ==
  /\ Provisioned(t) /\ numbering[t].next <= MaxSequence
  /\ numbers[t][NextNumber(t)] = "free"
  /\ numbers' = [numbers EXCEPT ![t][NextNumber(t)] = "sequence"]
  /\ numbering' = [numbering EXCEPT ![t].next = @ + 1]
  /\ UNCHANGED <<tenant, platformFeature, tenantFeature, subscription, admin, mail, switched, provisioner>>

\* Any number that is free, the ones that the sequence will come to among them.
Named(t, number) ==
  /\ Provisioned(t) /\ numbers[t][number] = "free"
  /\ UNCHANGED <<tenant, platformFeature, tenantFeature, subscription, numbering, admin, mail, switched, provisioner>>

HireAs(t, number) ==
  /\ Named(t, number)
  /\ numbers' = [numbers EXCEPT ![t][number] = "hand"]

\* updateEmployee; the old number becomes free.
Renumber(t, old, number) ==
  /\ numbers[t][old] # "free" /\ Named(t, number)
  /\ numbers' = [numbers EXCEPT ![t][old] = "free", ![t][number] = "hand"]

----------------------------------------------------------------------------
TenantsNext ==
  \/ \E f \in Feature : SeedFeature(f)
  \/ \E h \in Provisioner :
       \/ CreateTenantRead(h) \/ NotifyAdmin(h) \/ ProvisionerStops(h)
       \/ \E outcome \in {"SENT", "FAILED"} : RecordInvitationDelivery(h, outcome)
       \/ \E t \in TenantId, slug \in Slug, status \in TenantStatus, invited \in BOOLEAN :
            CreateTenantCommit(h, t, slug, status, invited)
  \/ \E t \in TenantId :
       \/ AdminAccepts(t) \/ Hire(t)
       \/ \E slug \in Slug, status \in TenantStatus : UpdateTenant(t, slug, status)
       \/ \E status \in TenantStatus : SetTenantStatus(t, status)
       \/ \E status \in PlanStatus : UpdateTenantSubscription(t, status)
       \/ \E f \in Feature, status \in FeatureStatus : SetTenantFeatureStatus(t, f, status)
       \/ \E prefix \in Prefix, next \in Sequence : UpdateSettings(t, prefix, next)
       \/ \E number \in EmployeeNumber :
            HireAs(t, number) \/ \E old \in EmployeeNumber : Renumber(t, old, number)

TenantsSpec == TenantsInit /\ [][TenantsNext]_tenantVars

----------------------------------------------------------------------------
\* Properties.

\* generateEmployeeNumber runs into no number that it gave itself: one that is
\* in use and still to come was named by a request, or the settings have put the
\* sequence before it.  (Every hire without a number of its own is refused
\* there, and since that takes the increment back, so is the next one.)
SequenceRunsIntoNamed ==
  \A t \in TenantId : Provisioned(t) =>
    \A n \in Ahead(numbering[t].prefix, numbering[t].next) : numbers[t][n] # "sequence"

\* A tenant is admitted to nothing but what was provisioned as core or switched
\* on by hand, whenever its features were read and the platform's seeded.
AdmittedAsGranted ==
  \A t \in TenantId, f \in Feature : Admitted(t, f) => f \in CoreFeature \/ <<t, f>> \in switched

\* A slug leads the login to one tenant.
SlugsApart ==
  \A s, t \in TenantId : s # t /\ Provisioned(s) /\ Provisioned(t) => tenant[s].slug # tenant[t].slug
=============================================================================
