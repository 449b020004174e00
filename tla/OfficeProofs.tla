------------------------------ MODULE OfficeProofs ------------------------------
(***************************************************************************)
(* What is proved of Tenants, HiringPipeline and Publications, for every set  *)
(* of tenants, features, provisioners, vacancies, applicants, articles,       *)
(* readers and widgets, and handlers that overlap; of the overtime of a week  *)
(* in ScheduleRules, for any shifts of any hours; and of AttendanceControls,  *)
(* for any rows of time and any rules.                                        *)
(***************************************************************************)
EXTENDS Tenants, HiringPipeline, Publications, ScheduleRules, AttendanceControls, SumProofs, FiniteSetTheorems, TLAPS

----------------------------------------------------------------------------
\* Tenants.

\* A tenant that has no number in use.
Unhired(t) == \A n \in EmployeeNumber : numbers[t][n] = "free"

\* What a tenant has before it is provisioned and what it was granted after.
TenantsInvariant ==
  /\ TenantsTypeOK
  /\ SequenceRunsIntoNamed
  /\ SlugsApart
  /\ \A t \in TenantId : ~Provisioned(t) => Unhired(t)
  /\ \A t \in TenantId, f \in Feature :
       tenantFeature[t][f] = "ENABLED" => f \in CoreFeature \/ <<t, f>> \in switched

LEMMA TenantsStart == TenantsInit => TenantsInvariant
<1> SUFFICES ASSUME TenantsInit PROVE TenantsInvariant OBVIOUS
<1> USE TenantsAssumption DEF TenantsInit
<1>1. TenantsTypeOK
  BY DEF TenantsTypeOK, SettingRow, Sequence
<1>2. \A t \in TenantId : ~Provisioned(t) BY DEF Provisioned
<1> QED BY <1>1, <1>2 DEF TenantsInvariant, SequenceRunsIntoNamed, SlugsApart, Unhired

\* The numbers ahead are members of EmployeeNumber.
LEMMA AheadAreNumbers ==
  ASSUME NEW p \in Prefix, NEW n \in Sequence
  PROVE  Ahead(p, n) \subseteq EmployeeNumber
BY TenantsAssumption, FormatAssumption DEF Ahead, Sequence

\* The next number is no longer among those ahead once the sequence has passed it.
LEMMA SequencePasses ==
  ASSUME NEW p \in Prefix, NEW n \in 1 .. MaxSequence
  PROVE  /\ Format(p, n) \in EmployeeNumber
         /\ Ahead(p, n + 1) \subseteq Ahead(p, n)
         /\ Format(p, n) \notin Ahead(p, n + 1)
BY TenantsAssumption, FormatAssumption DEF Ahead

LEMMA TenantsTypeStep ==
  ASSUME TenantsTypeOK, [TenantsNext]_tenantVars
  PROVE  TenantsTypeOK'
<1> USE TenantsAssumption DEF TenantsTypeOK
<1>1. ASSUME NEW f \in Feature, SeedFeature(f) PROVE TenantsTypeOK'
  BY <1>1 DEF SeedFeature
<1>2. ASSUME NEW h \in Provisioner, CreateTenantRead(h) \/ ProvisionerStops(h) PROVE TenantsTypeOK'
  BY <1>2 DEF CreateTenantRead, ProvisionerStops
<1>3. ASSUME NEW h \in Provisioner, NEW t \in TenantId, NEW slug \in Slug, NEW status \in TenantStatus,
             NEW invited \in BOOLEAN, CreateTenantCommit(h, t, slug, status, invited)
      PROVE  TenantsTypeOK'
  <2>1. [slug |-> slug, status |-> status] \in TenantRow BY DEF TenantRow
  <2>2. [prefix |-> PrefixOf(slug), next |-> 1] \in SettingRow BY DEF SettingRow, Sequence
  <2> QED BY <1>3, <2>1, <2>2 DEF CreateTenantCommit, FeatureStatus, PlanStatus
<1>4. ASSUME NEW h \in Provisioner, NEW outcome \in {"SENT", "FAILED"},
             NotifyAdmin(h) \/ RecordInvitationDelivery(h, outcome)
      PROVE  TenantsTypeOK'
  BY <1>4 DEF NotifyAdmin, RecordInvitationDelivery, Mails
<1>5. ASSUME NEW t \in TenantId, AdminAccepts(t) PROVE TenantsTypeOK'
  BY <1>5 DEF AdminAccepts
<1>6. ASSUME NEW t \in TenantId, Hire(t) PROVE TenantsTypeOK'
  <2>1. numbering[t] \in SettingRow /\ numbering[t].next \in 1 .. MaxSequence
    BY <1>6 DEF Hire, SettingRow, Sequence
  <2>2. [numbering[t] EXCEPT !.next = @ + 1] \in SettingRow
    <3>1. PICK row \in SettingRow : row = numbering[t] /\ row.next \in 1 .. MaxSequence BY <2>1
    <3>2. row.next + 1 \in Sequence BY <3>1 DEF Sequence
    <3>3. [row EXCEPT !.next = row.next + 1] \in SettingRow BY <3>2 DEF SettingRow
    <3> QED BY <3>1, <3>3
  <2>3. NextNumber(t) \in EmployeeNumber BY <2>1, SequencePasses DEF NextNumber, SettingRow
  <2>4. numbering' = [numbering EXCEPT ![t] = [numbering[t] EXCEPT !.next = @ + 1]]
    BY <1>6 DEF Hire
  <2>5. numbering' \in [TenantId -> SettingRow] BY <2>2, <2>4
  <2>6. numbers' \in [TenantId -> [EmployeeNumber -> Origin \cup {"free"}]]
    BY <1>6, <2>3 DEF Hire, Origin
  <2> QED BY <1>6, <2>5, <2>6 DEF Hire
<1>7. ASSUME NEW t \in TenantId, NEW slug \in Slug, NEW status \in TenantStatus, UpdateTenant(t, slug, status)
      PROVE  TenantsTypeOK'
  BY <1>7 DEF UpdateTenant, TenantRow
<1>8. ASSUME NEW t \in TenantId, NEW status \in TenantStatus, SetTenantStatus(t, status)
      PROVE  TenantsTypeOK'
  <2>1. tenant[t] \in TenantRow BY <1>8 DEF SetTenantStatus, Provisioned
  <2>2. [tenant[t] EXCEPT !.status = status] \in TenantRow BY <2>1 DEF TenantRow
  <2>3. tenant' = [tenant EXCEPT ![t] = [tenant[t] EXCEPT !.status = status]]
    BY <1>8 DEF SetTenantStatus
  <2>4. tenant' \in [TenantId -> TenantRow \cup {NoTenant}] BY <2>2, <2>3
  <2> QED BY <1>8, <2>4 DEF SetTenantStatus
<1>9. ASSUME NEW t \in TenantId, NEW status \in PlanStatus, UpdateTenantSubscription(t, status)
      PROVE  TenantsTypeOK'
  BY <1>9 DEF UpdateTenantSubscription
<1>10. ASSUME NEW t \in TenantId, NEW f \in Feature, NEW status \in FeatureStatus,
              SetTenantFeatureStatus(t, f, status)
       PROVE  TenantsTypeOK'
  BY <1>10 DEF SetTenantFeatureStatus
<1>11. ASSUME NEW t \in TenantId, NEW prefix \in Prefix, NEW next \in Sequence, UpdateSettings(t, prefix, next)
       PROVE  TenantsTypeOK'
  BY <1>11 DEF UpdateSettings, SettingRow, Origin
<1>12. ASSUME NEW t \in TenantId, NEW number \in EmployeeNumber, HireAs(t, number) PROVE TenantsTypeOK'
  BY <1>12 DEF HireAs, Named, Origin
<1>13. ASSUME NEW t \in TenantId, NEW number \in EmployeeNumber, NEW old \in EmployeeNumber,
              Renumber(t, old, number)
       PROVE  TenantsTypeOK'
  BY <1>13 DEF Renumber, Named, Origin
<1>14. CASE UNCHANGED tenantVars BY <1>14 DEF tenantVars
<1> QED BY <1>1, <1>2, <1>3, <1>4, <1>5, <1>6, <1>7, <1>8, <1>9, <1>10, <1>11, <1>12, <1>13, <1>14
        DEF TenantsNext

LEMMA TenantsInvariantStep ==
  ASSUME TenantsInvariant, [TenantsNext]_tenantVars
  PROVE  TenantsInvariant'
<1> DEFINE Unborn == \A t \in TenantId : ~Provisioned(t) => Unhired(t)
           Granted == \A t \in TenantId, f \in Feature :
             tenantFeature[t][f] = "ENABLED" => f \in CoreFeature \/ <<t, f>> \in switched
<1> USE TenantsAssumption
<1>0. /\ TenantsTypeOK /\ SequenceRunsIntoNamed /\ SlugsApart /\ Unborn /\ Granted
  BY DEF TenantsInvariant
<1>a. TenantsTypeOK' BY <1>0, TenantsTypeStep
<1>b. SUFFICES SequenceRunsIntoNamed' /\ SlugsApart' /\ Unborn' /\ Granted'
  BY <1>a DEF TenantsInvariant
<1> USE <1>0
<1>1. ASSUME NEW f \in Feature, SeedFeature(f) PROVE SequenceRunsIntoNamed' /\ SlugsApart' /\ Unborn' /\ Granted'
  BY <1>1 DEF SeedFeature, SequenceRunsIntoNamed, SlugsApart, Provisioned, Ahead, Unhired
<1>2. ASSUME NEW h \in Provisioner, CreateTenantRead(h) \/ ProvisionerStops(h)
      PROVE  SequenceRunsIntoNamed' /\ SlugsApart' /\ Unborn' /\ Granted'
  BY <1>2 DEF CreateTenantRead, ProvisionerStops, SequenceRunsIntoNamed, SlugsApart, Provisioned, Ahead, Unhired
<1>3. ASSUME NEW h \in Provisioner, NEW t \in TenantId, NEW slug \in Slug, NEW status \in TenantStatus,
             NEW invited \in BOOLEAN, CreateTenantCommit(h, t, slug, status, invited)
      PROVE  SequenceRunsIntoNamed' /\ SlugsApart' /\ Unborn' /\ Granted'
  <2> DEFINE row == [slug |-> slug, status |-> status]
             start == [prefix |-> PrefixOf(slug), next |-> 1]
             given == [f \in Feature |-> IF f \notin provisioner[h].features THEN "NONE"
                                        ELSE IF f \in CoreFeature THEN "ENABLED" ELSE "DISABLED"]
  <2>1. /\ ~Provisioned(t) /\ Free(slug) /\ tenant' = [tenant EXCEPT ![t] = row]
        /\ numbering' = [numbering EXCEPT ![t] = start] /\ numbers' = numbers /\ switched' = switched
        /\ tenantFeature' = [tenantFeature EXCEPT ![t] = given]
    BY <1>3 DEF CreateTenantCommit
  <2>2. row.slug = slug OBVIOUS
  <2>3. \A f \in Feature : given[f] = "ENABLED" => f \in CoreFeature OBVIOUS
  <2> HIDE DEF row, start, given
  <2>4. tenant'[t] = row /\ \A s \in TenantId \ {t} : tenant'[s] = tenant[s]
    BY <2>1 DEF TenantsTypeOK
  <2>5. SequenceRunsIntoNamed'
    <3>1. Unhired(t) /\ start.prefix \in Prefix /\ start.next \in Sequence
      BY <2>1 DEF start, Sequence
    <3>2. Ahead(start.prefix, start.next) \subseteq EmployeeNumber BY <3>1, AheadAreNumbers
    <3>3. numbering'[t] = start /\ \A s \in TenantId \ {t} : numbering'[s] = numbering[s]
      BY <2>1 DEF TenantsTypeOK
    <3>4. \A n \in Ahead(numbering'[t].prefix, numbering'[t].next) : numbers'[t][n] # "sequence"
      BY <2>1, <3>1, <3>2, <3>3 DEF Unhired
    <3>5. \A s \in TenantId \ {t} : Provisioned(s)' => Provisioned(s) BY <2>4 DEF Provisioned
    <3> QED BY <2>1, <3>3, <3>4, <3>5 DEF SequenceRunsIntoNamed, Ahead
  <2>6. SlugsApart'
    BY <2>1, <2>2, <2>4 DEF SlugsApart, Free, Provisioned
  <2>7. Unborn' BY <2>1, <2>4 DEF Provisioned, Unhired
  <2>8. Granted' BY <2>1, <2>3 DEF TenantsTypeOK
  <2> QED BY <2>5, <2>6, <2>7, <2>8
<1>4. ASSUME NEW h \in Provisioner, NEW outcome \in {"SENT", "FAILED"},
             NotifyAdmin(h) \/ RecordInvitationDelivery(h, outcome)
      PROVE  SequenceRunsIntoNamed' /\ SlugsApart' /\ Unborn' /\ Granted'
  BY <1>4 DEF NotifyAdmin, RecordInvitationDelivery, Mails, SequenceRunsIntoNamed, SlugsApart, Provisioned, Ahead, Unhired
<1>5. ASSUME NEW t \in TenantId, AdminAccepts(t) PROVE SequenceRunsIntoNamed' /\ SlugsApart' /\ Unborn' /\ Granted'
  BY <1>5 DEF AdminAccepts, SequenceRunsIntoNamed, SlugsApart, Provisioned, Ahead, Unhired
<1>6. ASSUME NEW t \in TenantId, Hire(t) PROVE SequenceRunsIntoNamed' /\ SlugsApart' /\ Unborn' /\ Granted'
  <2> DEFINE p == numbering[t].prefix
             n == numbering[t].next
  <2>1. /\ Provisioned(t) /\ tenant' = tenant /\ tenantFeature' = tenantFeature /\ switched' = switched
        /\ numbers' = [numbers EXCEPT ![t][Format(p, n)] = "sequence"] /\ n <= MaxSequence
        /\ numbering' = [numbering EXCEPT ![t].next = @ + 1]
    BY <1>6 DEF Hire, NextNumber
  <2>2. p \in Prefix /\ n \in 1 .. MaxSequence BY <2>1 DEF TenantsTypeOK, SettingRow, Sequence
  <2>3. numbering'[t].prefix = p /\ numbering'[t].next = n + 1 BY <2>1 DEF TenantsTypeOK, SettingRow
  <2>4. \A s \in TenantId \ {t} : numbering'[s] = numbering[s] /\ numbers'[s] = numbers[s]
    BY <2>1 DEF TenantsTypeOK
  <2>5. \A e \in EmployeeNumber : e # Format(p, n) => numbers'[t][e] = numbers[t][e]
    BY <2>1 DEF TenantsTypeOK
  <2>6. /\ Ahead(p, n + 1) \subseteq Ahead(p, n) /\ Format(p, n) \notin Ahead(p, n + 1)
        /\ Ahead(p, n) \subseteq EmployeeNumber
    <3>1. n \in Sequence BY <2>2, TenantsAssumption DEF Sequence
    <3> HIDE DEF p, n
    <3> QED BY <2>2, <3>1, SequencePasses, AheadAreNumbers
  <2>7. SequenceRunsIntoNamed'
    <3> SUFFICES ASSUME NEW s \in TenantId, Provisioned(s)',
                        NEW e \in Ahead(numbering'[s].prefix, numbering'[s].next)
                 PROVE  numbers'[s][e] # "sequence"
      BY DEF SequenceRunsIntoNamed, Ahead
    <3>1. Provisioned(s) BY <2>1 DEF Provisioned
    <3>2. CASE s = t
      <4>1. e \in Ahead(p, n) /\ e # Format(p, n) BY <3>2, <2>3, <2>6
      <4>2. numbers[t][e] # "sequence" BY <3>1, <3>2, <4>1 DEF SequenceRunsIntoNamed
      <4> QED BY <3>2, <4>1, <4>2, <2>5, <2>6
    <3>3. CASE s # t BY <3>1, <3>3, <2>4 DEF SequenceRunsIntoNamed
    <3> QED BY <3>2, <3>3
  <2>8. SlugsApart' BY <2>1 DEF SlugsApart, Provisioned
  <2>9. Unborn' BY <2>1, <2>4 DEF Provisioned, Unhired
  <2>10. Granted' BY <2>1
  <2> QED BY <2>7, <2>8, <2>9, <2>10
<1>7. ASSUME NEW t \in TenantId, NEW slug \in Slug, NEW status \in TenantStatus, UpdateTenant(t, slug, status)
      PROVE  SequenceRunsIntoNamed' /\ SlugsApart' /\ Unborn' /\ Granted'
  <2> DEFINE row == [slug |-> slug, status |-> status]
  <2>1. /\ Provisioned(t) /\ (slug # tenant[t].slug => Free(slug)) /\ tenant' = [tenant EXCEPT ![t] = row]
        /\ UNCHANGED <<numbering, numbers, switched, tenantFeature>>
    BY <1>7 DEF UpdateTenant
  <2>2. row.slug = slug OBVIOUS
  <2> HIDE DEF row
  <2>3. tenant'[t] = row /\ \A s \in TenantId \ {t} : tenant'[s] = tenant[s] BY <2>1 DEF TenantsTypeOK
  <2>4. SlugsApart' BY <2>1, <2>2, <2>3 DEF SlugsApart, Free, Provisioned
  <2>5. SequenceRunsIntoNamed' BY <2>1, <2>3 DEF SequenceRunsIntoNamed, Provisioned, Ahead, Unhired
  <2>6. row # NoTenant BY NoTenantIsNoRow DEF row, TenantRow
  <2>7. Unborn' BY <2>1, <2>3, <2>6 DEF Provisioned, Unhired
  <2> QED BY <2>1, <2>4, <2>5, <2>7
<1>8. ASSUME NEW t \in TenantId, NEW status \in TenantStatus, SetTenantStatus(t, status)
      PROVE  SequenceRunsIntoNamed' /\ SlugsApart' /\ Unborn' /\ Granted'
  <2> DEFINE row == [tenant[t] EXCEPT !.status = status]
  <2>1. /\ Provisioned(t) /\ tenant' = [tenant EXCEPT ![t] = row]
        /\ UNCHANGED <<numbering, numbers, switched, tenantFeature>>
    BY <1>8 DEF SetTenantStatus
  <2>2. tenant[t] \in TenantRow BY <2>1 DEF TenantsTypeOK, Provisioned
  <2>3. row.slug = tenant[t].slug /\ row # NoTenant BY <2>2, NoTenantIsNoRow DEF TenantRow
  <2> HIDE DEF row
  <2>4. tenant'[t] = row /\ \A s \in TenantId \ {t} : tenant'[s] = tenant[s] BY <2>1 DEF TenantsTypeOK
  <2>5. SlugsApart' BY <2>1, <2>3, <2>4 DEF SlugsApart, Provisioned
  <2>6. SequenceRunsIntoNamed' BY <2>1, <2>4 DEF SequenceRunsIntoNamed, Provisioned, Ahead, Unhired
  <2>7. Unborn' BY <2>1, <2>3, <2>4 DEF Provisioned, Unhired
  <2> QED BY <2>1, <2>5, <2>6, <2>7
<1>9. ASSUME NEW t \in TenantId, NEW status \in PlanStatus, UpdateTenantSubscription(t, status)
      PROVE  SequenceRunsIntoNamed' /\ SlugsApart' /\ Unborn' /\ Granted'
  BY <1>9 DEF UpdateTenantSubscription, SequenceRunsIntoNamed, SlugsApart, Provisioned, Ahead, Unhired
<1>10. ASSUME NEW t \in TenantId, NEW f \in Feature, NEW status \in FeatureStatus,
              SetTenantFeatureStatus(t, f, status)
       PROVE  SequenceRunsIntoNamed' /\ SlugsApart' /\ Unborn' /\ Granted'
  <2>1. SequenceRunsIntoNamed' /\ SlugsApart' /\ Unborn'
    BY <1>10 DEF SetTenantFeatureStatus, SequenceRunsIntoNamed, SlugsApart, Provisioned, Ahead, Unhired
  <2>2. Granted' BY <1>10 DEF SetTenantFeatureStatus, TenantsTypeOK
  <2> QED BY <2>1, <2>2
<1>11. ASSUME NEW t \in TenantId, NEW prefix \in Prefix, NEW next \in Sequence, UpdateSettings(t, prefix, next)
       PROVE  SequenceRunsIntoNamed' /\ SlugsApart' /\ Unborn' /\ Granted'
  <2>1. /\ Provisioned(t) /\ numbering' = [numbering EXCEPT ![t] = [prefix |-> prefix, next |-> next]]
        /\ \A e \in Ahead(prefix, next) : numbers'[t][e] # "sequence"
        /\ \A s \in TenantId \ {t} : numbers'[s] = numbers[s] /\ numbering'[s] = numbering[s]
        /\ tenant' = tenant /\ tenantFeature' = tenantFeature /\ switched' = switched
    BY <1>11, AheadAreNumbers DEF UpdateSettings, TenantsTypeOK
  <2>2. numbering'[t].prefix = prefix /\ numbering'[t].next = next BY <2>1 DEF TenantsTypeOK
  <2>3. Ahead(prefix, next) \subseteq EmployeeNumber BY AheadAreNumbers
  <2>4. \A s \in TenantId : Provisioned(s)' <=> Provisioned(s) BY <2>1 DEF Provisioned
  <2>5. SequenceRunsIntoNamed' BY <2>1, <2>2, <2>3, <2>4 DEF SequenceRunsIntoNamed, Ahead
  <2>6. SlugsApart' BY <2>1 DEF SlugsApart, Provisioned
  <2>7. Unborn' BY <2>1, <2>4 DEF Unhired, Provisioned
  <2>8. Granted' BY <2>1
  <2> QED BY <2>5, <2>6, <2>7, <2>8
<1>12. ASSUME NEW t \in TenantId, NEW number \in EmployeeNumber, Named(t, number),
              \A s \in TenantId \ {t} : numbers'[s] = numbers[s],
              \A e \in EmployeeNumber : numbers'[t][e] = "sequence" => numbers[t][e] = "sequence"
       PROVE  SequenceRunsIntoNamed' /\ SlugsApart' /\ Unborn' /\ Granted'
  <2>1. /\ Provisioned(t) /\ tenant' = tenant /\ tenantFeature' = tenantFeature /\ switched' = switched
        /\ numbering' = numbering
    BY <1>12 DEF Named
  <2>2. \A s \in TenantId : Provisioned(s)' <=> Provisioned(s) BY <2>1 DEF Provisioned
  <2>3. \A s \in TenantId : Ahead(numbering[s].prefix, numbering[s].next) \subseteq EmployeeNumber
    BY AheadAreNumbers DEF TenantsTypeOK, SettingRow
  <2>4. SequenceRunsIntoNamed'
    <3> SUFFICES ASSUME NEW s \in TenantId, Provisioned(s),
                        NEW e \in Ahead(numbering[s].prefix, numbering[s].next)
                 PROVE  numbers'[s][e] # "sequence"
      BY <2>1, <2>2 DEF SequenceRunsIntoNamed, Ahead
    <3>1. numbers[s][e] # "sequence" /\ e \in EmployeeNumber BY <2>3 DEF SequenceRunsIntoNamed
    <3> QED BY <3>1, <1>12
  <2>5. SlugsApart' BY <2>1 DEF SlugsApart, Provisioned
  <2>6. Unborn' BY <1>12, <2>1, <2>2 DEF Unhired
  <2>7. Granted' BY <2>1
  <2> QED BY <2>4, <2>5, <2>6, <2>7
<1>13. ASSUME NEW t \in TenantId, NEW number \in EmployeeNumber,
              HireAs(t, number) \/ \E old \in EmployeeNumber : Renumber(t, old, number)
       PROVE  SequenceRunsIntoNamed' /\ SlugsApart' /\ Unborn' /\ Granted'
  <2>1. Named(t, number) BY <1>13 DEF HireAs, Renumber
  <2>2. numbers \in [TenantId -> [EmployeeNumber -> Origin \cup {"free"}]] BY DEF TenantsTypeOK
  <2>3. /\ \A s \in TenantId \ {t} : numbers'[s] = numbers[s]
        /\ \A e \in EmployeeNumber : numbers'[t][e] = "sequence" => numbers[t][e] = "sequence"
    <3>1. CASE HireAs(t, number) BY <2>2, <3>1 DEF HireAs
    <3>2. ASSUME NEW old \in EmployeeNumber, Renumber(t, old, number)
          PROVE  /\ \A s \in TenantId \ {t} : numbers'[s] = numbers[s]
                 /\ \A e \in EmployeeNumber : numbers'[t][e] = "sequence" => numbers[t][e] = "sequence"
      <4>1. PICK row : row = [numbers[t] EXCEPT ![old] = "free", ![number] = "hand"] OBVIOUS
      <4>2. \A e \in EmployeeNumber : row[e] = "sequence" => numbers[t][e] = "sequence" BY <2>2, <4>1
      <4>3. numbers' = [numbers EXCEPT ![t] = row] BY <3>2, <4>1 DEF Renumber
      <4> QED BY <2>2, <4>2, <4>3
    <3> QED BY <1>13, <3>1, <3>2
  <2> QED BY <2>1, <2>3, <1>12
<1>14. CASE UNCHANGED tenantVars
  BY <1>14 DEF tenantVars, SequenceRunsIntoNamed, SlugsApart, Provisioned, Ahead, Unhired
<1> QED BY <1>1, <1>2, <1>3, <1>4, <1>5, <1>6, <1>7, <1>8, <1>9, <1>10, <1>11, <1>13, <1>14
        DEF TenantsNext

LEMMA TenantsInvariantHolds == TenantsSpec => []TenantsInvariant
BY TenantsStart, TenantsInvariantStep, PTL DEF TenantsSpec

\* generateEmployeeNumber runs into a number that is in use only where a request
\* named it or the settings set the sequence back behind it, whatever is hired,
\* renumbered and set; nothing in the code keeps either from happening.
THEOREM CollisionsAreNamed == TenantsSpec => []SequenceRunsIntoNamed
BY TenantsInvariantHolds, PTL DEF TenantsInvariant

\* TenantFeatureGuard admits a tenant to nothing that was neither core when it
\* was provisioned nor switched on by hand, however provisioning overlaps with
\* the seeding of features.
THEOREM AlwaysAdmittedAsGranted == TenantsSpec => []AdmittedAsGranted
<1>1. TenantsInvariant => AdmittedAsGranted BY DEF TenantsInvariant, AdmittedAsGranted, Admitted
<1> QED BY <1>1, TenantsInvariantHolds, PTL

\* Provisioning and renaming never give two tenants one slug.
THEOREM SlugsStayApart == TenantsSpec => []SlugsApart
BY TenantsInvariantHolds, PTL DEF TenantsInvariant

----------------------------------------------------------------------------
\* HiringPipeline.

\* A vacancy has its default stages from the start, and loses none; who moves an
\* application moves it to a stage that the vacancy has.
PipelineInvariant ==
  /\ PipelineTypeOK
  /\ StageTellsStatus
  /\ \A v \in Vacancy : Opened(v) => stage[v][1] = "APPLIED"
  /\ \A a \in Application : Applied(a) => Opened(a[2])
  /\ \A m \in Mover : Busy(m) => Applied(Of(m))
  /\ \A m \in Mover : Doing(m, "move") => stage[Of(m)[2]][mover[m].place] # NoStage

LEMMA PlacesOfDefaults ==
  /\ \A t \in StageType : PlaceOf[t] \in Place
  /\ \A t, u \in StageType : PlaceOf[t] = PlaceOf[u] => t = u
  /\ PlaceOf["APPLIED"] = 1
BY PipelineAssumption DEF PlaceOf, StageType, ApplicationStatus, Place

LEMMA NoStageIsNoType == NoStage \notin StageType /\ ApplicationStatus \subseteq StageType
BY PipelineAssumption DEF StageType, ApplicationStatus

\* The stages that OpenVacancy makes.
DefaultStages ==
  [p \in Place |-> IF \E t \in ApplicationStatus : PlaceOf[t] = p
                  THEN CHOOSE t \in ApplicationStatus : PlaceOf[t] = p ELSE NoStage]

LEMMA DefaultsFit ==
  /\ DefaultStages \in [Place -> StageType \cup {NoStage}]
  /\ DefaultStages[1] = "APPLIED"
  /\ \A p, q \in Place : p # q /\ DefaultStages[p] = DefaultStages[q] => DefaultStages[p] = NoStage
<1>1. \A p \in Place : DefaultStages[p] = NoStage \/
        (DefaultStages[p] \in ApplicationStatus /\ PlaceOf[DefaultStages[p]] = p)
  BY DEF DefaultStages
<1>2. "APPLIED" \in ApplicationStatus /\ 1 \in Place
  BY PipelineAssumption DEF ApplicationStatus, Place
<1>3. DefaultStages[1] \in ApplicationStatus /\ PlaceOf[DefaultStages[1]] = 1
  BY <1>2, PlacesOfDefaults DEF DefaultStages
<1>4. DefaultStages[1] = "APPLIED" BY <1>2, <1>3, PlacesOfDefaults, NoStageIsNoType
<1>5. DefaultStages \in [Place -> StageType \cup {NoStage}] BY <1>1, NoStageIsNoType DEF DefaultStages
<1> QED BY <1>1, <1>4, <1>5, NoStageIsNoType

LEMMA PipelineStart == PipelineInit => PipelineInvariant
<1> SUFFICES ASSUME PipelineInit PROVE PipelineInvariant OBVIOUS
<1> USE PipelineAssumption, NoStageIsNoType DEF PipelineInit
<1>1. PipelineTypeOK BY DEF PipelineTypeOK
<1>2. \A v \in Vacancy : ~Opened(v)
  BY DEF Opened, Placed, StageType, ApplicationStatus
<1>3. /\ \A a \in Application : ~Applied(a)
      /\ \A m \in Mover : ~Busy(m)
  BY DEF Applied, Busy
<1> QED BY <1>1, <1>2, <1>3 DEF PipelineInvariant, StageTellsStatus, Doing

\* What a handler remembers at each of its steps.
LEMMA Remembered ==
  ASSUME PipelineTypeOK, NEW m \in Mover, Busy(m)
  PROVE  /\ mover[m] \in MoveStep /\ Of(m) \in Application
         /\ Of(m)[1] \in Applicant /\ Of(m)[2] \in Vacancy
         /\ mover[m].op \in {"find", "measure", "create"} => mover[m].type \in StageType
         /\ mover[m].op \in {"find", "measure", "create", "move"} => mover[m].read \in ApplicationStatus
         /\ mover[m].op \in {"create", "move"} => mover[m].place \in Place
<1>1. mover[m] \in MoveStep BY DEF PipelineTypeOK, Busy
<1>2. Of(m) \in Application BY <1>1 DEF MoveStep, Of
<1> QED BY <1>1, <1>2 DEF MoveStep, Application

\* A handler's next step.
LEMMA MovesTyped ==
  ASSUME NEW a \in Application, NEW type \in StageType, NEW read \in ApplicationStatus, NEW p \in Place
  PROVE  /\ [op |-> "find", application |-> a, type |-> type, read |-> read] \in MoveStep
         /\ [op |-> "measure", application |-> a, type |-> type, read |-> read] \in MoveStep
         /\ [op |-> "create", application |-> a, type |-> type, read |-> read, place |-> p] \in MoveStep
         /\ [op |-> "move", application |-> a, read |-> read, place |-> p] \in MoveStep
         /\ [op |-> "meet", application |-> a] \in MoveStep
         /\ [op |-> "hire", application |-> a] \in MoveStep
BY DEF MoveStep

LEMMA Measuring ==
  ASSUME PipelineTypeOK, NEW m \in Mover, Doing(m, "find")
  PROVE  /\ [mover[m] EXCEPT !.op = "measure"] \in MoveStep
         /\ [mover[m] EXCEPT !.op = "measure"] =
              [op |-> "measure", application |-> Of(m), type |-> mover[m].type, read |-> mover[m].read]
<1>1. mover[m] \in [op : {"find", "measure"}, application : Application, type : StageType,
                    read : ApplicationStatus]
  BY Remembered DEF Doing, MoveStep
<1> QED BY <1>1 DEF MoveStep, Of

LEMMA PipelineTypeStep ==
  ASSUME PipelineTypeOK, \A m \in Mover : Busy(m) => Applied(Of(m)), [PipelineNext]_pipelineVars
  PROVE  PipelineTypeOK'
<1> USE PipelineAssumption DEF PipelineTypeOK
<1>1. ASSUME NEW v \in Vacancy, OpenVacancy(v) PROVE PipelineTypeOK'
  BY <1>1, DefaultsFit DEF OpenVacancy, DefaultStages
<1>2. ASSUME NEW c \in Applicant, NEW status \in ApplicantStatus,
             CreateCandidate(c, status) \/ ChangeCandidate(c, status)
      PROVE  PipelineTypeOK'
  BY <1>2 DEF CreateCandidate, ChangeCandidate
<1>3. ASSUME NEW c \in Applicant, NEW status \in ProfileStatus, SubmitPublicTalentProfile(c, status)
      PROVE  PipelineTypeOK'
  BY <1>3 DEF SubmitPublicTalentProfile
<1>4. ASSUME NEW a \in Application, CreateApplication(a) PROVE PipelineTypeOK'
  <2>1. PICK p \in Place : \E status \in ApplicationStatus : application' = [application EXCEPT ![a] =
          [place |-> p, status |-> status, hired |-> FALSE, rejected |-> FALSE, byHand |-> FALSE]]
    BY <1>4, Zenon DEF CreateApplication, Enters, First, ApplicationStatus
  <2>2. application' \in [Application -> ApplicationRow \cup {NoApplication}]
    BY <2>1 DEF ApplicationRow
  <2> QED BY <1>4, <2>2 DEF CreateApplication
<1>5. ASSUME NEW a \in Application, ApplyToPublicJob(a) PROVE PipelineTypeOK'
  <2>1. applicant' \in [Applicant -> ApplicantStatus \cup {"NONE"}]
    BY <1>5 DEF ApplyToPublicJob, ApplicantStatus, Application
  <2>2. application' \in [Application -> ApplicationRow \cup {NoApplication}]
    <3>1. CASE Applied(a) BY <1>5, <3>1 DEF ApplyToPublicJob
    <3>2. CASE ~Applied(a)
      <4>1. PICK p \in Place : application' = [application EXCEPT ![a] =
              [place |-> p, status |-> "APPLIED", hired |-> FALSE, rejected |-> FALSE, byHand |-> FALSE]]
        BY <1>5, <3>2 DEF ApplyToPublicJob, First, Placed
      <4> QED BY <4>1 DEF ApplicationRow, ApplicationStatus
    <3> QED BY <3>1, <3>2
  <2> QED BY <1>5, <2>1, <2>2 DEF ApplyToPublicJob
<1>6. ASSUME NEW a \in Application, AcceptedApplication(a) PROVE PipelineTypeOK'
  <2>1. application[a] \in ApplicationRow BY <1>6 DEF AcceptedApplication, Applied
  <2>2. PICK p \in Place : application' = [application EXCEPT ![a] =
          [application[a] EXCEPT !.place = p, !.status = "HIRED", !.hired = TRUE, !.byHand = FALSE]]
    BY <1>6 DEF AcceptedApplication, First, Placed
  <2>3. [application[a] EXCEPT !.place = p, !.status = "HIRED", !.hired = TRUE, !.byHand = FALSE]
          \in ApplicationRow
    BY <2>1 DEF ApplicationRow, ApplicationStatus
  <2>4. application' \in [Application -> ApplicationRow \cup {NoApplication}] BY <2>2, <2>3
  <2> QED BY <1>6, <2>4 DEF AcceptedApplication
<1>7. ASSUME NEW i \in Meeting, SubmitInterviewFeedback(i) PROVE PipelineTypeOK'
  <2>1. meeting[i] \in MeetingRow BY <1>7 DEF SubmitInterviewFeedback
  <2>2. [meeting[i] EXCEPT !.feedback = TRUE] \in MeetingRow BY <2>1 DEF MeetingRow
  <2>3. meeting' = [meeting EXCEPT ![i] = [meeting[i] EXCEPT !.feedback = TRUE]]
    BY <1>7 DEF SubmitInterviewFeedback
  <2>4. meeting' \in [Meeting -> MeetingRow \cup {NoMeeting}] BY <2>2, <2>3
  <2> QED BY <1>7, <2>4 DEF SubmitInterviewFeedback
<1>8. ASSUME NEW m \in Mover, FindStage(m) PROVE PipelineTypeOK'
  <2>1. PICK step \in MoveStep : Moves(m, step)
    <3>1. CASE Moves(m, [mover[m] EXCEPT !.op = "measure"]) BY <1>8, <3>1, Measuring DEF FindStage
    <3>2. CASE ~Moves(m, [mover[m] EXCEPT !.op = "measure"])
      <4>1. Busy(m) /\ mover[m].op = "find" BY <1>8 DEF FindStage, Doing
      <4>2. PICK p \in Place : Moves(m, [op |-> "move", application |-> Of(m), read |-> mover[m].read, place |-> p])
        BY <1>8, <3>2 DEF FindStage, First, Placed
      <4> QED BY <4>1, <4>2, Remembered, MovesTyped
    <3> QED BY <3>1, <3>2
  <2>2. crossed' \in [Vacancy -> SUBSET StageType]
    <3>1. mover[m].type \in StageType BY <1>8, Remembered DEF FindStage, Doing
    <3>2. CASE UNCHANGED crossed BY <3>2
    <3>3. CASE ~UNCHANGED crossed
      <4> DEFINE more == IF \E n \in Mover : Making(n, Of(m)[2], mover[m].type)
                         THEN crossed[Of(m)[2]] \cup {mover[m].type} ELSE crossed[Of(m)[2]]
      <4>1. crossed' = [crossed EXCEPT ![Of(m)[2]] = more] BY <1>8, <3>3 DEF FindStage
      <4>2. Of(m)[2] \in Vacancy BY <1>8, Remembered DEF FindStage, Doing
      <4>3. more \in SUBSET StageType BY <3>1, <4>2
      <4> HIDE DEF more
      <4> QED BY <4>1, <4>3
    <3> QED BY <3>2, <3>3
  <2>3. mover' \in [Mover -> MoveStep \cup {NoMove}] BY <2>1 DEF Moves
  <2> QED BY <1>8, <2>2, <2>3 DEF FindStage
<1>9. ASSUME NEW m \in Mover, MeasureStages(m) PROVE PipelineTypeOK'
  <2>1. Busy(m) /\ mover[m].op = "measure" BY <1>9 DEF MeasureStages, Doing
  <2>2. PICK p \in Place : Moves(m, [op |-> "create", application |-> Of(m), type |-> mover[m].type,
                                    read |-> mover[m].read, place |-> p])
    BY <1>9, Zenon DEF MeasureStages
  <2>3. [op |-> "create", application |-> Of(m), type |-> mover[m].type,
         read |-> mover[m].read, place |-> p] \in MoveStep
    BY <2>1, Remembered, MovesTyped
  <2> QED BY <1>9, <2>2, <2>3 DEF MeasureStages, Moves
<1>10. ASSUME NEW m \in Mover, CreateStage(m) PROVE PipelineTypeOK'
  <2> DEFINE step == [op |-> "move", application |-> Of(m), read |-> mover[m].read, place |-> mover[m].place]
  <2>1. Busy(m) /\ mover[m].op = "create" BY <1>10 DEF CreateStage, Doing
  <2>2. step \in MoveStep BY <2>1, Remembered, MovesTyped
  <2> HIDE DEF step
  <2>3. Moves(m, step) \/ Moves(m, NoMove) BY <1>10 DEF CreateStage, step
  <2>4. stage' \in [Vacancy -> [Place -> StageType \cup {NoStage}]]
    BY <1>10, <2>1, Remembered DEF CreateStage
  <2> QED BY <1>10, <2>2, <2>3, <2>4 DEF CreateStage, Moves
<1>11. ASSUME NEW m \in Mover, NEW says \in ApplicationStatus \cup {Unsaid}, WriteMove(m, says)
       PROVE  PipelineTypeOK'
  <2>1. Busy(m) /\ mover[m].op = "move" BY <1>11 DEF WriteMove, Doing
  <2> DEFINE a == Of(m)
             type == stage[a[2]][mover[m].place]
             status == IF says # Unsaid THEN says
                       ELSE IF type \in ApplicationStatus THEN type ELSE mover[m].read
             row == [place |-> mover[m].place, status |-> status,
                     hired |-> application[a].hired \/ status = "HIRED",
                     rejected |-> application[a].rejected \/ status = "REJECTED",
                     byHand |-> says # Unsaid]
  <2>2. application' = [application EXCEPT ![a] = row]
    BY <1>11 DEF WriteMove
  <2>3. status \in ApplicationStatus BY <2>1, Remembered
  <2>4. mover[m].place \in Place BY <2>1, Remembered
  <2>5. row \in ApplicationRow
    <3> HIDE DEF status, a
    <3>1. /\ (application[a].hired \/ status = "HIRED") \in BOOLEAN
          /\ (application[a].rejected \/ status = "REJECTED") \in BOOLEAN
          /\ (says # Unsaid) \in BOOLEAN
      OBVIOUS
    <3> QED BY <2>3, <2>4, <3>1, Zenon DEF ApplicationRow
  <2>6. application' \in [Application -> ApplicationRow \cup {NoApplication}]
    <3> HIDE DEF row, a
    <3> QED BY <2>2, <2>5
  <2>7. PICK step \in MoveStep \cup {NoMove} : Moves(m, step)
    <3>1. [op |-> "hire", application |-> a] \in MoveStep BY <2>1, Remembered DEF MoveStep
    <3> QED BY <1>11, <3>1 DEF WriteMove
  <2> QED BY <1>11, <2>6, <2>7 DEF WriteMove, Moves
<1>12. ASSUME NEW m \in Mover, HireApplicant(m) PROVE PipelineTypeOK'
  <2>1. Of(m)[1] \in Applicant BY <1>12, Remembered DEF HireApplicant, Doing
  <2> QED BY <1>12, <2>1 DEF HireApplicant, Moves, ApplicantStatus
<1>13. ASSUME NEW m \in Mover, MarkInterview(m) PROVE PipelineTypeOK'
  <2> DEFINE row == [application[Of(m)] EXCEPT !.status = "INTERVIEW", !.byHand = TRUE]
  <2>1. application' = [application EXCEPT ![Of(m)] = row] BY <1>13 DEF MarkInterview
  <2>2. application[Of(m)] \in ApplicationRow BY <1>13, Remembered DEF MarkInterview, Doing, Applied
  <2>3. row \in ApplicationRow BY <2>2 DEF ApplicationRow, ApplicationStatus
  <2> HIDE DEF row
  <2>4. application' \in [Application -> ApplicationRow \cup {NoApplication}] BY <2>1, <2>3
  <2> QED BY <1>13, <2>4 DEF MarkInterview, Moves
<1>14. ASSUME NEW m \in Mover, MoverStops(m) PROVE PipelineTypeOK'
  BY <1>14 DEF MoverStops, Moves
<1>15. ASSUME NEW m \in Mover, NEW a \in Application, NEW p \in Place, MoveToStage(m, a, p)
       PROVE  PipelineTypeOK'
  <2>1. application[a] \in ApplicationRow BY <1>15 DEF MoveToStage, Applied
  <2>2. [op |-> "move", application |-> a, read |-> application[a].status, place |-> p] \in MoveStep
    BY <2>1 DEF ApplicationRow, MoveStep
  <2> QED BY <1>15, <2>2 DEF MoveToStage, Moves
<1>16. ASSUME NEW m \in Mover, NEW a \in Application, NEW type \in StageType, MoveToType(m, a, type)
       PROVE  PipelineTypeOK'
  <2>1. application[a] \in ApplicationRow BY <1>16 DEF MoveToType, Applied
  <2>2. [op |-> "find", application |-> a, type |-> type, read |-> application[a].status] \in MoveStep
    BY <2>1 DEF ApplicationRow, MoveStep
  <2> QED BY <1>16, <2>2 DEF MoveToType, Moves
<1>17. ASSUME NEW m \in Mover, NEW a \in Application, NEW i \in Meeting, NEW p \in Place \cup {NoStage},
              ScheduleInterview(m, i, a, p)
       PROVE  PipelineTypeOK'
  <2>1. [op |-> "meet", application |-> a] \in MoveStep BY DEF MoveStep
  <2>2. [application |-> a, place |-> p, feedback |-> FALSE] \in MeetingRow BY DEF MeetingRow
  <2> QED BY <1>17, <2>1, <2>2 DEF ScheduleInterview, Moves
<1>18. CASE UNCHANGED pipelineVars BY <1>18 DEF pipelineVars
<1> QED BY <1>1, <1>2, <1>3, <1>4, <1>5, <1>6, <1>7, <1>8, <1>9, <1>10, <1>11, <1>12, <1>13, <1>14, <1>15,
           <1>16, <1>17, <1>18
        DEF PipelineNext, MoverStep

\* What StageTellsStatus says of one application.
RowFits(row, type) ==
  /\ type # NoStage
  /\ type \in ApplicationStatus /\ ~row.byHand => row.status = type
  /\ row.status = "HIRED" => row.hired
  /\ row.status = "REJECTED" => row.rejected

LEMMA FitsByRow ==
  /\ StageTellsStatus <=>
       \A a \in Application : Applied(a) => RowFits(application[a], stage[a[2]][application[a].place])
  /\ StageTellsStatus' <=>
       \A a \in Application : Applied(a)' => RowFits(application'[a], stage'[a[2]][application'[a].place])
BY DEF StageTellsStatus, RowFits, Applied

\* A stage that an open vacancy has stays there; an open vacancy stays open.
LEMMA StagesStand ==
  ASSUME PipelineInvariant, [PipelineNext]_pipelineVars
  PROVE  /\ \A v \in Vacancy, p \in Place :
              Opened(v) /\ stage[v][p] # NoStage => stage'[v][p] = stage[v][p]
         /\ \A v \in Vacancy : Opened(v) => Opened(v)'
         /\ \A v \in Vacancy : Opened(v)' => stage'[v][1] = "APPLIED"
<1> USE PipelineAssumption
<1>a. PipelineTypeOK /\ 1 \in Place BY DEF PipelineInvariant, Place
<1>b. \A v \in Vacancy : Opened(v) <=> \E p \in Place : stage[v][p] = "APPLIED"
  BY DEF Opened, Placed
<1>c. \A v \in Vacancy : Opened(v)' <=> \E p \in Place : stage'[v][p] = "APPLIED"
  BY DEF Opened, Placed
<1>d. \A v \in Vacancy : Opened(v) => stage[v][1] = "APPLIED" BY DEF PipelineInvariant
<1>1. CASE UNCHANGED stage BY <1>1, <1>b, <1>c, <1>d
<1>2. ASSUME NEW v \in Vacancy, OpenVacancy(v)
      PROVE  /\ \A w \in Vacancy, p \in Place :
                  Opened(w) /\ stage[w][p] # NoStage => stage'[w][p] = stage[w][p]
             /\ \A w \in Vacancy : Opened(w) => Opened(w)'
             /\ \A w \in Vacancy : Opened(w)' => stage'[w][1] = "APPLIED"
  <2>1. /\ ~Opened(v) /\ \A w \in Vacancy \ {v} : stage'[w] = stage[w]
        /\ stage'[v] = DefaultStages
    BY <1>2, <1>a DEF OpenVacancy, DefaultStages, PipelineTypeOK
  <2> QED BY <2>1, <1>a, <1>b, <1>c, <1>d, DefaultsFit
<1>3. ASSUME NEW m \in Mover, CreateStage(m)
      PROVE  /\ \A w \in Vacancy, p \in Place :
                  Opened(w) /\ stage[w][p] # NoStage => stage'[w][p] = stage[w][p]
             /\ \A w \in Vacancy : Opened(w) => Opened(w)'
             /\ \A w \in Vacancy : Opened(w)' => stage'[w][1] = "APPLIED"
  <2> DEFINE v == Of(m)[2]
             p == mover[m].place
  <2>1. Busy(m) /\ mover[m].op = "create" BY <1>3 DEF CreateStage, Doing
  <2>2. v \in Vacancy /\ p \in Place BY <2>1, <1>a, Remembered
  <2>3. Opened(v) BY <2>1, <2>2, Remembered, <1>a DEF PipelineInvariant
  <2>4. UNCHANGED stage \/ (stage[v][p] = NoStage /\ stage' = [stage EXCEPT ![v][p] = mover[m].type])
    BY <1>3 DEF CreateStage
  <2> HIDE DEF v, p
  <2>5. \A w \in Vacancy, q \in Place : w # v \/ q # p => stage'[w][q] = stage[w][q]
    BY <2>2, <2>4, <1>a DEF PipelineTypeOK
  <2>6. stage[v][p] = NoStage \/ stage' = stage BY <2>4
  <2>7. \A w \in Vacancy, q \in Place :
          Opened(w) /\ stage[w][q] # NoStage => stage'[w][q] = stage[w][q]
    BY <2>5, <2>6
  <2>8. "APPLIED" # NoStage BY NoStageIsNoType DEF StageType, ApplicationStatus
  <2>9. \A w \in Vacancy : Opened(w) => stage'[w][1] = "APPLIED" BY <2>7, <2>8, <1>a, <1>d
  <2>10. \A w \in Vacancy : Opened(w)' => stage'[w][1] = "APPLIED"
    BY <2>3, <2>5, <2>9, <1>a, <1>b, <1>c
  <2> QED BY <2>7, <2>9, <2>10, <1>a, <1>c
<1> QED BY <1>1, <1>2, <1>3
        DEF PipelineNext, MoverStep, pipelineVars, CreateCandidate, ChangeCandidate, SubmitPublicTalentProfile,
            CreateApplication, ApplyToPublicJob, AcceptedApplication, SubmitInterviewFeedback, FindStage,
            MeasureStages, WriteMove, HireApplicant, MarkInterview, MoverStops, MoveToStage, MoveToType,
            ScheduleInterview

\* What is written to an application fits the stage that it is put in.
Written(a, row) ==
  /\ row \in ApplicationRow /\ Opened(a[2]) /\ RowFits(row, stage[a[2]][row.place])
  /\ application' = [application EXCEPT ![a] = row] /\ UNCHANGED stage

LEMMA EntersWritten ==
  ASSUME PipelineInvariant, NEW a \in Application, Enters(a), UNCHANGED stage
  PROVE  \E row \in ApplicationRow : Written(a, row)
<1>1. /\ PipelineTypeOK /\ a[2] \in Vacancy /\ Opened(a[2]) /\ stage[a[2]][1] = "APPLIED" /\ 1 \in Place
  BY PipelineAssumption DEF PipelineInvariant, Enters, Place, Application
<1>2. \A p \in Place : p \in First({q \in Place : stage[a[2]][q] # NoStage}) => p = 1
  BY <1>1, NoStageIsNoType DEF First, Place, StageType, ApplicationStatus
<1> DEFINE row == [place |-> 1, status |-> "APPLIED", hired |-> FALSE, rejected |-> FALSE, byHand |-> FALSE]
<1>3. application' = [application EXCEPT ![a] = row]
  <2>1. PICK p \in First({q \in Place : stage[a[2]][q] # NoStage}) :
          LET type == stage[a[2]][p] IN
          application' = [application EXCEPT ![a] =
            [place |-> p, status |-> IF type \in ApplicationStatus THEN type ELSE "APPLIED",
             hired |-> FALSE, rejected |-> FALSE, byHand |-> FALSE]]
    BY DEF Enters
  <2>2. p = 1 BY <1>2 DEF First
  <2> QED BY <1>1, <2>1, <2>2
<1>4. row \in ApplicationRow BY <1>1 DEF ApplicationRow, ApplicationStatus
<1>5. RowFits(row, stage[a[2]][row.place])
  BY <1>1, NoStageIsNoType DEF RowFits, StageType, ApplicationStatus
<1> QED BY <1>1, <1>3, <1>4, <1>5 DEF Written

LEMMA WriteMoveWritten ==
  ASSUME PipelineInvariant, NEW m \in Mover, NEW says \in ApplicationStatus \cup {Unsaid}, WriteMove(m, says)
  PROVE  \E row \in ApplicationRow : Written(Of(m), row)
<1>1. PipelineTypeOK /\ Busy(m) /\ mover[m].op = "move" BY DEF PipelineInvariant, WriteMove, Doing
<1> DEFINE a == Of(m)
           type == stage[a[2]][mover[m].place]
           status == IF says # Unsaid THEN says
                     ELSE IF type \in ApplicationStatus THEN type ELSE mover[m].read
           hired == application[a].hired \/ status = "HIRED"
           rejected == application[a].rejected \/ status = "REJECTED"
           row == [place |-> mover[m].place, status |-> status, hired |-> hired, rejected |-> rejected,
                   byHand |-> says # Unsaid]
<1>2. application' = [application EXCEPT ![a] = row] /\ UNCHANGED stage BY DEF WriteMove
<1>3. a \in Application /\ mover[m].place \in Place /\ status \in ApplicationStatus BY <1>1, Remembered
<1>4. type # NoStage /\ Opened(a[2]) BY <1>1, <1>3 DEF PipelineInvariant, Doing
<1>5. row.place = mover[m].place /\ row.status = status /\ row.hired = hired /\ row.rejected = rejected
      /\ row.byHand = (says # Unsaid)
  OBVIOUS
<1>6. row \in ApplicationRow
  <2> HIDE DEF status, a
  <2>1. hired \in BOOLEAN /\ rejected \in BOOLEAN /\ (says # Unsaid) \in BOOLEAN OBVIOUS
  <2> HIDE DEF hired, rejected
  <2> QED BY <1>3, <2>1, Zenon DEF ApplicationRow
<1>7. says = Unsaid /\ type \in ApplicationStatus => status = type OBVIOUS
<1>8. (status = "HIRED" => hired) /\ (status = "REJECTED" => rejected) OBVIOUS
<1>9. RowFits(row, stage[a[2]][row.place])
  <2>1. stage[a[2]][row.place] = type BY <1>5
  <2> HIDE DEF row, status, hired, rejected, type, a
  <2>2. /\ type \in ApplicationStatus /\ ~row.byHand => row.status = type
        /\ row.status = "HIRED" => row.hired
        /\ row.status = "REJECTED" => row.rejected
    BY <1>5, <1>7, <1>8, Zenon
  <2> QED BY <1>4, <2>1, <2>2 DEF RowFits
<1> HIDE DEF row
<1>10. Written(a, row) BY <1>2, <1>4, <1>6, <1>9 DEF Written
<1> QED BY <1>6, <1>10

LEMMA ApplicationsWritten ==
  ASSUME PipelineInvariant, [PipelineNext]_pipelineVars
  PROVE  UNCHANGED application \/ \E a \in Application, row \in ApplicationRow : Written(a, row)
<1>a. PipelineTypeOK BY DEF PipelineInvariant
<1>b. \A a \in Application : Applied(a) =>
        application[a] \in ApplicationRow /\ Opened(a[2]) /\ RowFits(application[a], stage[a[2]][application[a].place])
  BY <1>a, FitsByRow DEF PipelineInvariant, PipelineTypeOK, Applied
<1>1. ASSUME NEW a \in Application, CreateApplication(a)
      PROVE  \E row \in ApplicationRow : Written(a, row)
  BY <1>1, EntersWritten DEF CreateApplication
<1>2. ASSUME NEW a \in Application, ApplyToPublicJob(a), ~Applied(a)
      PROVE  \E row \in ApplicationRow : Written(a, row)
  <2>1. PICK p \in First(Placed(a[2], "APPLIED")) : application' = [application EXCEPT ![a] =
              [place |-> p, status |-> "APPLIED", hired |-> FALSE, rejected |-> FALSE, byHand |-> FALSE]]
    BY <1>2 DEF ApplyToPublicJob
  <2>2. p \in Place /\ stage[a[2]][p] = "APPLIED" BY DEF First, Placed
  <2> DEFINE row == [place |-> p, status |-> "APPLIED", hired |-> FALSE, rejected |-> FALSE, byHand |-> FALSE]
  <2>3. row \in ApplicationRow BY <2>2 DEF ApplicationRow, ApplicationStatus
  <2>4. RowFits(row, stage[a[2]][row.place])
    BY <2>2, NoStageIsNoType DEF RowFits, StageType, ApplicationStatus
  <2>5. Opened(a[2]) /\ UNCHANGED stage BY <1>2 DEF ApplyToPublicJob
  <2> HIDE DEF row
  <2>6. application' = [application EXCEPT ![a] = row] BY <2>1 DEF row
  <2> QED BY <2>3, <2>4, <2>5, <2>6 DEF Written
<1>3. ASSUME NEW a \in Application, AcceptedApplication(a)
      PROVE  \E row \in ApplicationRow : Written(a, row)
  <2>1. PICK p \in First(Placed(a[2], "HIRED")) : application' = [application EXCEPT ![a] =
          [application[a] EXCEPT !.place = p, !.status = "HIRED", !.hired = TRUE, !.byHand = FALSE]]
    BY <1>3 DEF AcceptedApplication
  <2>2. p \in Place /\ stage[a[2]][p] = "HIRED" BY DEF First, Placed
  <2>3. Applied(a) /\ UNCHANGED stage BY <1>3 DEF AcceptedApplication
  <2>4. application[a] \in ApplicationRow /\ Opened(a[2]) BY <1>b, <2>3
  <2> DEFINE row == [application[a] EXCEPT !.place = p, !.status = "HIRED", !.hired = TRUE, !.byHand = FALSE]
  <2>5. row \in ApplicationRow /\ row.place = p /\ row.status = "HIRED" /\ row.hired
    BY <2>2, <2>4 DEF ApplicationRow, ApplicationStatus
  <2> HIDE DEF row
  <2>6. RowFits(row, stage[a[2]][row.place])
    BY <2>2, <2>5, NoStageIsNoType DEF RowFits, StageType, ApplicationStatus
  <2>7. application' = [application EXCEPT ![a] = row] BY <2>1 DEF row
  <2> QED BY <2>3, <2>4, <2>5, <2>6, <2>7 DEF Written
<1>4. ASSUME NEW m \in Mover, MarkInterview(m)
      PROVE  \E a \in Application, row \in ApplicationRow : Written(a, row)
  <2> DEFINE a == Of(m)
             row == [application[a] EXCEPT !.status = "INTERVIEW", !.byHand = TRUE]
  <2>1. a \in Application /\ Applied(a)
    BY <1>4, <1>a, Remembered DEF MarkInterview, Doing, PipelineInvariant
  <2>2. application' = [application EXCEPT ![a] = row] /\ UNCHANGED stage BY <1>4 DEF MarkInterview
  <2> HIDE DEF a
  <2>3. /\ row \in ApplicationRow /\ row.place = application[a].place /\ row.status = "INTERVIEW" /\ row.byHand
    BY <2>1, <1>b DEF ApplicationRow, ApplicationStatus
  <2> HIDE DEF row
  <2>4. RowFits(row, stage[a[2]][row.place]) BY <1>b, <2>1, <2>3 DEF RowFits
  <2> QED BY <1>b, <2>1, <2>2, <2>3, <2>4 DEF Written
<1>5. ASSUME NEW m \in Mover, NEW says \in ApplicationStatus \cup {Unsaid}, WriteMove(m, says)
      PROVE  \E a \in Application, row \in ApplicationRow : Written(a, row)
  <2>1. Of(m) \in Application BY <1>5, <1>a, Remembered DEF WriteMove, Doing
  <2> QED BY <1>5, <2>1, WriteMoveWritten
<1>6. ASSUME NEW a \in Application, ApplyToPublicJob(a), Applied(a) PROVE UNCHANGED application
  BY <1>6 DEF ApplyToPublicJob
<1> QED BY <1>1, <1>2, <1>3, <1>4, <1>5, <1>6
        DEF PipelineNext, MoverStep, pipelineVars, OpenVacancy, CreateCandidate, ChangeCandidate,
            SubmitPublicTalentProfile, SubmitInterviewFeedback, FindStage, MeasureStages, CreateStage,
            HireApplicant, MoverStops, MoveToStage, MoveToType, ScheduleInterview

\* What a handler goes on with is an application, and a stage to move it to.
Continues(m, step) ==
  /\ mover' = [mover EXCEPT ![m] = step]
  /\ step # NoMove =>
       /\ step.application \in Application /\ Applied(step.application)
       /\ step.op = "move" => step.place \in Place /\ stage'[step.application[2]][step.place] # NoStage

LEMMA MoversContinue ==
  ASSUME PipelineInvariant, [PipelineNext]_pipelineVars
  PROVE  UNCHANGED mover \/ \E m \in Mover : \E step : Continues(m, step)
<1>a. PipelineTypeOK BY DEF PipelineInvariant
<1>b. \A m \in Mover : Busy(m) => Of(m) \in Application /\ Applied(Of(m))
  BY <1>a, Remembered DEF PipelineInvariant
<1>1. ASSUME NEW m \in Mover, NEW a \in Application, NEW p \in Place, MoveToStage(m, a, p)
      PROVE  \E step : Continues(m, step)
  <2>1. Continues(m, [op |-> "move", application |-> a, read |-> application[a].status, place |-> p])
    BY <1>1 DEF MoveToStage, Moves, Continues
  <2> QED BY <2>1
<1>2. ASSUME NEW m \in Mover, NEW a \in Application, NEW type \in StageType, MoveToType(m, a, type)
      PROVE  \E step : Continues(m, step)
  <2>1. Continues(m, [op |-> "find", application |-> a, type |-> type, read |-> application[a].status])
    BY <1>2 DEF MoveToType, Moves, Continues
  <2> QED BY <2>1
<1>3. ASSUME NEW m \in Mover, NEW a \in Application, NEW i \in Meeting, NEW p \in Place \cup {NoStage},
             ScheduleInterview(m, i, a, p)
      PROVE  \E step : Continues(m, step)
  <2>1. Continues(m, [op |-> "meet", application |-> a])
    BY <1>3 DEF ScheduleInterview, Moves, Continues
  <2> QED BY <2>1
<1>4. ASSUME NEW m \in Mover, FindStage(m) PROVE \E step : Continues(m, step)
  <2>1. Doing(m, "find") /\ Of(m) \in Application /\ Applied(Of(m)) BY <1>4, <1>b DEF FindStage, Doing
  <2>2. CASE Moves(m, [mover[m] EXCEPT !.op = "measure"])
    <3>1. Continues(m, [op |-> "measure", application |-> Of(m), type |-> mover[m].type, read |-> mover[m].read])
      BY <2>1, <2>2, <1>a, Measuring DEF Moves, Continues
    <3> QED BY <3>1
  <2>3. ASSUME NEW p \in First(Placed(Of(m)[2], mover[m].type)),
               Moves(m, [op |-> "move", application |-> Of(m), read |-> mover[m].read, place |-> p])
        PROVE  \E step : Continues(m, step)
    <3>1. p \in Place /\ stage[Of(m)[2]][p] = mover[m].type BY DEF First, Placed
    <3>2. mover[m].type \in StageType BY <2>1, <1>a, Remembered DEF Doing
    <3>3. UNCHANGED stage BY <1>4 DEF FindStage
    <3>4. Continues(m, [op |-> "move", application |-> Of(m), read |-> mover[m].read, place |-> p])
      BY <2>1, <2>3, <3>1, <3>2, <3>3, NoStageIsNoType DEF Moves, Continues
    <3> QED BY <3>4
  <2> QED BY <1>4, <2>2, <2>3 DEF FindStage
<1>5. ASSUME NEW m \in Mover, MeasureStages(m) PROVE \E step : Continues(m, step)
  <2>1. Of(m) \in Application /\ Applied(Of(m)) BY <1>5, <1>b DEF MeasureStages, Doing
  <2>2. PICK p \in Place : Moves(m, [op |-> "create", application |-> Of(m), type |-> mover[m].type,
                                    read |-> mover[m].read, place |-> p])
    BY <1>5, Zenon DEF MeasureStages
  <2>3. Continues(m, [op |-> "create", application |-> Of(m), type |-> mover[m].type,
                      read |-> mover[m].read, place |-> p])
    BY <2>1, <2>2 DEF Moves, Continues
  <2> QED BY <2>3
<1>6. ASSUME NEW m \in Mover, CreateStage(m) PROVE \E step : Continues(m, step)
  <2>1. /\ Of(m) \in Application /\ Applied(Of(m)) /\ mover[m].place \in Place
        /\ mover[m].type \in StageType /\ Of(m)[2] \in Vacancy
    BY <1>6, <1>a, <1>b, Remembered DEF CreateStage, Doing
  <2>2. CASE Moves(m, NoMove)
    <3>1. Continues(m, NoMove) BY <2>2 DEF Moves, Continues
    <3> QED BY <3>1
  <2>3. CASE ~Moves(m, NoMove)
    <3>1. /\ stage' = [stage EXCEPT ![Of(m)[2]][mover[m].place] = mover[m].type]
          /\ Moves(m, [op |-> "move", application |-> Of(m), read |-> mover[m].read, place |-> mover[m].place])
      BY <1>6, <2>3 DEF CreateStage
    <3>2. stage'[Of(m)[2]][mover[m].place] = mover[m].type BY <3>1, <2>1, <1>a DEF PipelineTypeOK
    <3>3. Continues(m, [op |-> "move", application |-> Of(m), read |-> mover[m].read, place |-> mover[m].place])
      BY <2>1, <3>1, <3>2, NoStageIsNoType DEF Moves, Continues
    <3> QED BY <3>3
  <2> QED BY <2>2, <2>3
<1>7. ASSUME NEW m \in Mover, NEW says \in ApplicationStatus \cup {Unsaid}, WriteMove(m, says)
      PROVE  \E step : Continues(m, step)
  <2>1. Of(m) \in Application /\ Applied(Of(m)) BY <1>7, <1>b DEF WriteMove, Doing
  <2>2. Moves(m, NoMove) \/ Moves(m, [op |-> "hire", application |-> Of(m)]) BY <1>7 DEF WriteMove
  <2>3. Continues(m, NoMove) \/ Continues(m, [op |-> "hire", application |-> Of(m)])
    BY <2>1, <2>2 DEF Moves, Continues
  <2> QED BY <2>3
<1>8. ASSUME NEW m \in Mover, HireApplicant(m) \/ MarkInterview(m) \/ MoverStops(m)
      PROVE  \E step : Continues(m, step)
  <2>1. Continues(m, NoMove) BY <1>8 DEF HireApplicant, MarkInterview, MoverStops, Moves, Continues
  <2> QED BY <2>1
<1> QED BY <1>1, <1>2, <1>3, <1>4, <1>5, <1>6, <1>7, <1>8
        DEF PipelineNext, MoverStep, pipelineVars, OpenVacancy, CreateCandidate, ChangeCandidate,
            SubmitPublicTalentProfile, SubmitInterviewFeedback, CreateApplication, ApplyToPublicJob,
            AcceptedApplication

LEMMA PipelineInvariantStep ==
  ASSUME PipelineInvariant, [PipelineNext]_pipelineVars
  PROVE  PipelineInvariant'
<1>a. /\ PipelineTypeOK /\ StageTellsStatus /\ \A a \in Application : Applied(a) => Opened(a[2])
      /\ \A m \in Mover : Busy(m) => Applied(Of(m))
      /\ \A m \in Mover : Doing(m, "move") => stage[Of(m)[2]][mover[m].place] # NoStage
  BY DEF PipelineInvariant
<1>b. PipelineTypeOK' BY <1>a, PipelineTypeStep
<1>c. /\ \A v \in Vacancy, p \in Place : Opened(v) /\ stage[v][p] # NoStage => stage'[v][p] = stage[v][p]
      /\ \A v \in Vacancy : Opened(v) => Opened(v)'
      /\ \A v \in Vacancy : Opened(v)' => stage'[v][1] = "APPLIED"
  BY StagesStand
<1>d. \A a \in Application : a[2] \in Vacancy BY DEF Application
<1>e. \A a \in Application : Applied(a) => application[a] \in ApplicationRow /\ application[a].place \in Place
  BY <1>a DEF PipelineTypeOK, Applied, ApplicationRow
<1>1. /\ StageTellsStatus'
      /\ \A a \in Application : Applied(a)' => Opened(a[2])'
      /\ \A a \in Application : Applied(a) => Applied(a)'
  <2>1. \A a \in Application : Applied(a) => RowFits(application[a], stage'[a[2]][application[a].place])
    BY <1>a, <1>c, <1>d, <1>e, FitsByRow DEF RowFits
  <2>2. CASE UNCHANGED application
    BY <1>a, <1>c, <1>d, <2>1, <2>2, FitsByRow DEF Applied
  <2>3. ASSUME NEW a \in Application, NEW row \in ApplicationRow, Written(a, row)
        PROVE  /\ StageTellsStatus'
               /\ \A b \in Application : Applied(b)' => Opened(b[2])'
               /\ \A b \in Application : Applied(b) => Applied(b)'
    <3>1. /\ application'[a] = row /\ \A b \in Application \ {a} : application'[b] = application[b]
          /\ row # NoApplication /\ UNCHANGED stage
      BY <2>3, <1>a, NoApplicationIsNoRow DEF Written, PipelineTypeOK
    <3>2. RowFits(row, stage'[a[2]][row.place]) /\ Opened(a[2])' BY <2>3, <3>1, <1>c, <1>d DEF Written
    <3> QED BY <1>a, <1>c, <1>d, <2>1, <3>1, <3>2, FitsByRow DEF Applied
  <2> QED BY <2>2, <2>3, ApplicationsWritten
<1>2. /\ \A m \in Mover : Busy(m)' => Applied(Of(m))'
      /\ \A m \in Mover : Doing(m, "move")' => stage'[Of(m)'[2]][mover'[m].place] # NoStage
  <2>1. \A m \in Mover : Busy(m) =>
          /\ Of(m) \in Application /\ application'[Of(m)] # NoApplication
          /\ mover[m].op = "move" => stage'[Of(m)[2]][mover[m].place] # NoStage
    <3> SUFFICES ASSUME NEW m \in Mover, Busy(m)
                 PROVE  /\ Of(m) \in Application /\ application'[Of(m)] # NoApplication
                        /\ mover[m].op = "move" => stage'[Of(m)[2]][mover[m].place] # NoStage
      OBVIOUS
    <3>1. Of(m) \in Application /\ (mover[m].op = "move" => mover[m].place \in Place) BY <1>a, Remembered
    <3> QED BY <3>1, <1>1, <1>a, <1>c, <1>d DEF Doing, Applied
  <2>2. CASE UNCHANGED mover
    BY <2>1, <2>2 DEF Busy, Doing, Of, Applied
  <2>3. ASSUME NEW m \in Mover, NEW step, Continues(m, step)
        PROVE  /\ \A n \in Mover : Busy(n)' => Applied(Of(n))'
               /\ \A n \in Mover : Doing(n, "move")' => stage'[Of(n)'[2]][mover'[n].place] # NoStage
    <3>1. /\ mover'[m] = step /\ \A n \in Mover \ {m} : mover'[n] = mover[n]
          /\ step # NoMove =>
               /\ Applied(step.application)'
               /\ step.op = "move" => stage'[step.application[2]][step.place] # NoStage
      BY <2>3, <1>a, <1>1 DEF Continues, PipelineTypeOK
    <3> QED BY <2>1, <3>1 DEF Busy, Doing, Of, Applied
  <2> QED BY <2>2, <2>3, MoversContinue
<1> QED BY <1>b, <1>c, <1>1, <1>2 DEF PipelineInvariant

LEMMA PipelineInvariantHolds == PipelineSpec => []PipelineInvariant
BY PipelineStart, PipelineInvariantStep, PTL DEF PipelineSpec

\* moveApplication, acceptOffer and scheduleInterview keep the status of an
\* application and its stage in agreement although none of them is in a
\* transaction, for any number of them at once.
THEOREM StageAlwaysTellsStatus == PipelineSpec => []StageTellsStatus
BY PipelineInvariantHolds, PTL DEF PipelineInvariant

\* As long as no two moves at once went to create a stage of a type, one at most
\* does, there is none yet while it does, and never a second.
Singly(v, type) ==
  /\ \A m, n \in Mover : Making(m, v, type) /\ Making(n, v, type) => m = n
  /\ \A m \in Mover : Making(m, v, type) => \A p \in Place : stage[v][p] # type
  /\ \A p, q \in Place : stage[v][p] = type /\ stage[v][q] = type => p = q

SinglyUnlessCrossed == \A v \in Vacancy, type \in StageType : type \notin crossed[v] => Singly(v, type)

\* Nothing happens to the stages of a type, and nobody begins to create one.
Undisturbed(v, type) ==
  /\ \A p \in Place : stage'[v][p] = type => stage[v][p] = type
  /\ \A m \in Mover : Making(m, v, type)' => Making(m, v, type)

LEMMA StaysSingle ==
  ASSUME NEW v, NEW type, Singly(v, type), Undisturbed(v, type)
  PROVE  Singly(v, type)'
BY DEF Singly, Undisturbed

\* One handler takes a step.
LEMMA OneMoves ==
  ASSUME PipelineTypeOK, NEW m \in Mover, NEW step, Moves(m, step)
  PROVE  /\ \A n \in Mover \ {m} : \A v, type : Making(n, v, type)' <=> Making(n, v, type)
         /\ \A v, type : Making(m, v, type)' <=>
              /\ step # NoMove /\ step.op \in {"measure", "create"}
              /\ step.application[2] = v /\ step.type = type
<1>1. mover'[m] = step /\ \A n \in Mover \ {m} : mover'[n] = mover[n]
  BY DEF PipelineTypeOK, Moves
<1> QED BY <1>1 DEF Making, Doing, Busy, Of

LEMMA SinglyStep ==
  ASSUME PipelineInvariant, SinglyUnlessCrossed, [PipelineNext]_pipelineVars
  PROVE  SinglyUnlessCrossed'
<1>a. /\ PipelineTypeOK
      /\ \A m \in Mover : \A v, type : Making(m, v, type) => Opened(v)
  <2>1. PipelineTypeOK BY DEF PipelineInvariant
  <2>2. ASSUME NEW m \in Mover, NEW v, NEW type, Making(m, v, type) PROVE Opened(v)
    <3>1. Busy(m) /\ Of(m)[2] = v BY <2>2 DEF Making, Doing
    <3>2. Of(m) \in Application /\ Applied(Of(m)) BY <2>1, <3>1, Remembered DEF PipelineInvariant
    <3> QED BY <3>1, <3>2 DEF PipelineInvariant
  <2> QED BY <2>1, <2>2
<1>b. ASSUME UNCHANGED crossed, \A v \in Vacancy, type \in StageType : Undisturbed(v, type)
      PROVE  SinglyUnlessCrossed'
  BY <1>b, StaysSingle DEF SinglyUnlessCrossed
<1>c. ASSUME UNCHANGED <<stage, crossed>>, NEW m \in Mover, NEW step, Moves(m, step),
             \A v, type : step # NoMove /\ step.op \in {"measure", "create"}
               /\ step.application[2] = v /\ step.type = type => Making(m, v, type)
      PROVE  SinglyUnlessCrossed'
  <2>1. \A v \in Vacancy, type \in StageType : Undisturbed(v, type)
    BY <1>a, <1>c, OneMoves DEF Undisturbed
  <2> QED BY <1>b, <1>c, <2>1
<1>1. ASSUME NEW w \in Vacancy, OpenVacancy(w) PROVE SinglyUnlessCrossed'
  <2>1. /\ UNCHANGED <<crossed, mover>> /\ ~Opened(w)
        /\ stage'[w] = DefaultStages /\ \A v \in Vacancy \ {w} : stage'[v] = stage[v]
    BY <1>1, <1>a DEF OpenVacancy, DefaultStages, PipelineTypeOK
  <2>2. \A m \in Mover : \A v, type : Making(m, v, type)' <=> Making(m, v, type)
    BY <2>1 DEF Making, Doing, Busy, Of
  <2>3. ASSUME NEW v \in Vacancy, NEW type \in StageType, type \notin crossed'[v] PROVE Singly(v, type)'
    <3>1. CASE v = w
      <4>1. \A m \in Mover : ~Making(m, v, type)' BY <1>a, <2>1, <2>2, <3>1
      <4>2. type # NoStage BY NoStageIsNoType
      <4>3. \A p, q \in Place : stage'[v][p] = type /\ stage'[v][q] = type => p = q
        BY <2>1, <3>1, <4>2, DefaultsFit
      <4> QED BY <4>1, <4>3 DEF Singly
    <3>2. CASE v # w
      <4>1. Undisturbed(v, type) BY <2>1, <2>2, <3>2 DEF Undisturbed
      <4>2. Singly(v, type) BY <2>1, <2>3 DEF SinglyUnlessCrossed
      <4> QED BY <4>1, <4>2, StaysSingle
    <3> QED BY <3>1, <3>2
  <2> QED BY <2>3 DEF SinglyUnlessCrossed
<1>2. ASSUME NEW m \in Mover, NEW a \in Application, NEW p \in Place, MoveToStage(m, a, p)
      PROVE  SinglyUnlessCrossed'
  <2> DEFINE step == [op |-> "move", application |-> a, read |-> application[a].status, place |-> p]
  <2>1. step.op \notin {"measure", "create"} OBVIOUS
  <2>2. Moves(m, step) /\ UNCHANGED <<stage, crossed>> BY <1>2 DEF MoveToStage
  <2> HIDE DEF step
  <2> QED BY <2>1, <2>2, <1>c
<1>3. ASSUME NEW m \in Mover, NEW a \in Application, NEW type \in StageType, MoveToType(m, a, type)
      PROVE  SinglyUnlessCrossed'
  <2> DEFINE step == [op |-> "find", application |-> a, type |-> type, read |-> application[a].status]
  <2>1. step.op \notin {"measure", "create"} OBVIOUS
  <2>2. Moves(m, step) /\ UNCHANGED <<stage, crossed>> BY <1>3 DEF MoveToType
  <2> HIDE DEF step
  <2> QED BY <2>1, <2>2, <1>c
<1>4. ASSUME NEW m \in Mover, NEW a \in Application, NEW i \in Meeting, NEW p \in Place \cup {NoStage},
             ScheduleInterview(m, i, a, p)
      PROVE  SinglyUnlessCrossed'
  <2> DEFINE step == [op |-> "meet", application |-> a]
  <2>1. step.op \notin {"measure", "create"} OBVIOUS
  <2>2. Moves(m, step) /\ UNCHANGED <<stage, crossed>> BY <1>4 DEF ScheduleInterview
  <2> HIDE DEF step
  <2> QED BY <2>1, <2>2, <1>c
<1>5. ASSUME NEW m \in Mover, FindStage(m) PROVE SinglyUnlessCrossed'
  <2> DEFINE w == Of(m)[2]
             sought == mover[m].type
  <2>1. /\ Busy(m) /\ Doing(m, "find") /\ UNCHANGED stage /\ w \in Vacancy /\ sought \in StageType
    BY <1>5, <1>a, Remembered DEF FindStage, Doing
  <2>2. CASE /\ Placed(w, sought) = {} /\ Moves(m, [mover[m] EXCEPT !.op = "measure"])
             /\ crossed' = [crossed EXCEPT ![w] =
                  IF \E n \in Mover : Making(n, w, sought) THEN @ \cup {sought} ELSE @]
    <3> DEFINE step == [op |-> "measure", application |-> Of(m), type |-> mover[m].type, read |-> mover[m].read]
    <3>1. Moves(m, step) BY <2>1, <2>2, <1>a, Measuring
    <3>2. step.application[2] = w /\ step.type = sought OBVIOUS
    <3>3. \A v \in Vacancy : crossed[v] \subseteq crossed'[v] BY <2>2, <1>a DEF PipelineTypeOK
    <3>4. sought \notin crossed'[w] => \A n \in Mover : ~Making(n, w, sought)
      BY <2>1, <2>2, <1>a DEF PipelineTypeOK
    <3>5. \A p \in Place : stage[w][p] # sought BY <2>2 DEF Placed
    <3>6. \A n \in Mover \ {m} : \A v, type : Making(n, v, type)' <=> Making(n, v, type)
      <4> HIDE DEF step
      <4> QED BY <3>1, <1>a, OneMoves
    <3>7. \A v, type : Making(m, v, type)' => v = w /\ type = sought
      <4> HIDE DEF step, w, sought
      <4> QED BY <3>1, <3>2, <1>a, OneMoves
    <3> HIDE DEF step, w, sought
    <3>8. ASSUME NEW v \in Vacancy, NEW type \in StageType, type \notin crossed'[v] PROVE Singly(v, type)'
      <4>1. Singly(v, type) BY <3>3, <3>8 DEF SinglyUnlessCrossed
      <4>2. CASE v = w /\ type = sought
        <5>1. \A n \in Mover : Making(n, v, type)' => n = m BY <3>4, <3>6, <3>8, <4>2
        <5>2. \A p \in Place : stage'[v][p] # type BY <2>1, <3>5, <4>2
        <5> QED BY <5>1, <5>2 DEF Singly
      <4>3. CASE ~(v = w /\ type = sought)
        <5>1. Undisturbed(v, type) BY <2>1, <3>6, <3>7, <4>3 DEF Undisturbed
        <5> QED BY <4>1, <5>1, StaysSingle
      <4> QED BY <4>2, <4>3
    <3> QED BY <3>8 DEF SinglyUnlessCrossed
  <2>3. ASSUME NEW p \in First(Placed(w, sought)), UNCHANGED crossed,
               Moves(m, [op |-> "move", application |-> Of(m), read |-> mover[m].read, place |-> p])
        PROVE  SinglyUnlessCrossed'
    <3> DEFINE step == [op |-> "move", application |-> Of(m), read |-> mover[m].read, place |-> p]
    <3>1. step.op \notin {"measure", "create"} OBVIOUS
    <3>2. Moves(m, step) BY <2>3
    <3> HIDE DEF step
    <3> QED BY <2>1, <2>3, <3>1, <3>2, <1>c
  <2> QED BY <1>5, <2>2, <2>3 DEF FindStage
<1>6. ASSUME NEW m \in Mover, MeasureStages(m) PROVE SinglyUnlessCrossed'
  <2>1. Busy(m) /\ Doing(m, "measure") /\ UNCHANGED <<stage, crossed>> BY <1>6 DEF MeasureStages, Doing
  <2>2. PICK p \in Place : Moves(m, [op |-> "create", application |-> Of(m), type |-> mover[m].type,
                                    read |-> mover[m].read, place |-> p])
    BY <1>6, Zenon DEF MeasureStages
  <2> DEFINE step == [op |-> "create", application |-> Of(m), type |-> mover[m].type,
                      read |-> mover[m].read, place |-> p]
  <2>3. step.application = Of(m) /\ step.type = mover[m].type OBVIOUS
  <2>4. Moves(m, step) BY <2>2
  <2> HIDE DEF step
  <2>5. \A v, type : step.application[2] = v /\ step.type = type => Making(m, v, type)
    BY <2>1, <2>3 DEF Making
  <2> QED BY <2>1, <2>4, <2>5, <1>c
<1>7. ASSUME NEW m \in Mover, CreateStage(m) PROVE SinglyUnlessCrossed'
  <2> DEFINE step == [op |-> "move", application |-> Of(m), read |-> mover[m].read, place |-> mover[m].place]
             w == Of(m)[2]
             place == mover[m].place
             made == mover[m].type
  <2>1. Busy(m) /\ Doing(m, "create") /\ UNCHANGED crossed BY <1>7 DEF CreateStage, Doing
  <2>2. w \in Vacancy /\ place \in Place BY <2>1, <1>a, Remembered DEF Doing
  <2>3. step.op \notin {"measure", "create"} OBVIOUS
  <2>4. \/ Moves(m, NoMove) /\ UNCHANGED stage
        \/ Moves(m, step) /\ stage[w][place] = NoStage /\ stage' = [stage EXCEPT ![w][place] = made]
    BY <1>7 DEF CreateStage
  <2>5. Making(m, w, made) BY <2>1 DEF Making
  <2> HIDE DEF step, w, place, made
  <2>6. CASE Moves(m, NoMove) /\ UNCHANGED stage BY <2>1, <2>6, <1>c
  <2>7. CASE Moves(m, step) /\ stage[w][place] = NoStage /\ stage' = [stage EXCEPT ![w][place] = made]
    <3>1. /\ stage'[w][place] = made
          /\ \A v \in Vacancy, q \in Place : v # w \/ q # place => stage'[v][q] = stage[v][q]
      BY <2>2, <2>7, <1>a DEF PipelineTypeOK
    <3>2. \A n \in Mover : \A v, type : Making(n, v, type)' => n # m /\ Making(n, v, type)
      BY <1>a, <2>3, <2>7, OneMoves
    <3>3. ASSUME NEW v \in Vacancy, NEW type \in StageType, type \notin crossed'[v] PROVE Singly(v, type)'
      <4>1. Singly(v, type) BY <2>1, <3>3 DEF SinglyUnlessCrossed
      <4>2. CASE v = w /\ type = made
        <5>1. \A n \in Mover : ~Making(n, v, type)' BY <2>5, <3>2, <4>1, <4>2 DEF Singly
        <5>2. \A q \in Place : stage[v][q] # type BY <2>5, <4>1, <4>2 DEF Singly
        <5>3. \A q \in Place : stage'[v][q] = type => q = place BY <3>1, <4>2, <5>2
        <5> QED BY <5>1, <5>3 DEF Singly
      <4>3. CASE ~(v = w /\ type = made)
        <5>1. \A q \in Place : stage'[v][q] = type => stage[v][q] = type BY <3>1, <4>3
        <5>2. Undisturbed(v, type) BY <3>2, <5>1 DEF Undisturbed
        <5> QED BY <4>1, <5>2, StaysSingle
      <4> QED BY <4>2, <4>3
    <3> QED BY <3>3 DEF SinglyUnlessCrossed
  <2> QED BY <2>4, <2>6, <2>7
<1>8. ASSUME NEW m \in Mover, NEW says \in ApplicationStatus \cup {Unsaid}, WriteMove(m, says)
      PROVE  SinglyUnlessCrossed'
  <2> DEFINE step == [op |-> "hire", application |-> Of(m)]
  <2>1. UNCHANGED <<stage, crossed>> BY <1>8 DEF WriteMove
  <2>2. Moves(m, NoMove) \/ Moves(m, step) BY <1>8 DEF WriteMove
  <2>3. step.op \notin {"measure", "create"} OBVIOUS
  <2> HIDE DEF step
  <2> QED BY <2>1, <2>2, <2>3, <1>c
<1>9. ASSUME NEW m \in Mover, HireApplicant(m) \/ MarkInterview(m) \/ MoverStops(m)
      PROVE  SinglyUnlessCrossed'
  <2>1. UNCHANGED <<stage, crossed>> /\ Moves(m, NoMove)
    BY <1>9 DEF HireApplicant, MarkInterview, MoverStops
  <2> QED BY <2>1, <1>c
<1>10. CASE UNCHANGED <<stage, crossed, mover>>
  <2>1. \A v \in Vacancy, type \in StageType : Undisturbed(v, type)
    BY <1>10 DEF Undisturbed, Making, Doing, Busy, Of
  <2> QED BY <1>10, <2>1, <1>b
<1> QED BY <1>1, <1>2, <1>3, <1>4, <1>5, <1>6, <1>7, <1>8, <1>9, <1>10
        DEF PipelineNext, MoverStep, pipelineVars, CreateCandidate, ChangeCandidate, SubmitPublicTalentProfile,
            CreateApplication, ApplyToPublicJob, AcceptedApplication, SubmitInterviewFeedback

\* ensurePipelineStage gives a vacancy a second stage of a type only where two
\* moves at once had both found none, however many there are and wherever they
\* break off: a handler alone, or one behind the other, never does.
THEOREM SecondStageTakesCrossing == PipelineSpec => []OneStageOfAType
<1>1. PipelineInit => SinglyUnlessCrossed
  <2> SUFFICES ASSUME PipelineInit PROVE SinglyUnlessCrossed OBVIOUS
  <2>1. \A v \in Vacancy, p \in Place : stage[v][p] = NoStage BY DEF PipelineInit
  <2>2. \A m \in Mover : \A v, type : ~Making(m, v, type) BY DEF PipelineInit, Making, Doing, Busy
  <2> QED BY <2>1, <2>2, NoStageIsNoType DEF SinglyUnlessCrossed, Singly
<1>2. PipelineInvariant /\ SinglyUnlessCrossed /\ [PipelineNext]_pipelineVars => SinglyUnlessCrossed'
  BY SinglyStep
<1>3. PipelineInvariant /\ SinglyUnlessCrossed => OneStageOfAType
  <2> SUFFICES ASSUME PipelineInvariant, SinglyUnlessCrossed,
                      NEW v \in Vacancy, NEW p \in Place, NEW q \in Place,
                      p # q, stage[v][p] = stage[v][q], stage[v][p] # NoStage
               PROVE  stage[v][p] \in crossed[v]
    BY DEF OneStageOfAType
  <2>1. stage[v][p] \in StageType BY DEF PipelineInvariant, PipelineTypeOK
  <2> QED BY <2>1 DEF SinglyUnlessCrossed, Singly
<1> QED BY <1>1, <1>2, <1>3, PipelineInvariantHolds, PTL DEF PipelineSpec

----------------------------------------------------------------------------
\* HR guides.

Existing(a) == article[a] # NoArticle
\* The article that a request found.
Found(step) == IF step.op = "withdraw" THEN step.row.article ELSE step.article
GuideInvariant ==
  /\ article \in [Article -> ArticleRow \cup {NoArticle}]
  /\ reactions \subseteq ReactionRow /\ reacted \in 0 .. MaxRows
  /\ visitor \in [Visitor -> VisitorStep \cup {NotVisiting}]
  /\ editor \in [Editor -> Article \cup {NotEditing}]
  /\ IsFiniteSet(reactions)
  /\ \A r \in reactions : Existing(r.article)
  /\ \A k \in Visitor : visitor[k] # NotVisiting => Existing(Found(visitor[k]))
  /\ \A e \in Editor : editor[e] # NotEditing => Existing(editor[e])
  /\ CountersTellReactions

HelpfulOf(S, a) == {r \in S : r.article = a /\ r.type = "HELPFUL"}
LikesOf(S, a) == {r \in S : r.article = a /\ r.type # "HELPFUL"}

\* What one reaction more, or less, does to the two counts.
LEMMA ReactionAdded ==
  ASSUME NEW S, IsFiniteSet(S), NEW r, r \notin S, NEW a
  PROVE  /\ Cardinality(HelpfulOf(S, a)) \in Int /\ Cardinality(LikesOf(S, a)) \in Int
         /\ Cardinality(HelpfulOf(S \cup {r}, a)) = Cardinality(HelpfulOf(S, a)) +
              (IF r.article = a /\ r.type = "HELPFUL" THEN 1 ELSE 0)
         /\ Cardinality(LikesOf(S \cup {r}, a)) = Cardinality(LikesOf(S, a)) +
              (IF r.article = a /\ r.type # "HELPFUL" THEN 1 ELSE 0)
<1> DEFINE H == HelpfulOf(S, a)
           L == LikesOf(S, a)
<1>1. H \subseteq S /\ L \subseteq S /\ r \notin H /\ r \notin L BY DEF HelpfulOf, LikesOf
<1>2. IsFiniteSet(H) /\ IsFiniteSet(L) BY <1>1, FS_Subset
<1>3. /\ Cardinality(H) \in Int /\ Cardinality(L) \in Int
  <2>1. Cardinality(H) \in Nat /\ Cardinality(L) \in Nat BY <1>2, FS_CardinalityType
  <2> QED BY <2>1
<1>4. HelpfulOf(S \cup {r}, a) = IF r.article = a /\ r.type = "HELPFUL" THEN H \cup {r} ELSE H
  BY DEF HelpfulOf
<1>5. LikesOf(S \cup {r}, a) = IF r.article = a /\ r.type # "HELPFUL" THEN L \cup {r} ELSE L
  BY DEF LikesOf
<1>6. Cardinality(H \cup {r}) = Cardinality(H) + 1 /\ Cardinality(L \cup {r}) = Cardinality(L) + 1
  BY <1>1, <1>2, FS_AddElement
<1> HIDE DEF H, L
<1>7. Cardinality(HelpfulOf(S \cup {r}, a)) = Cardinality(H) +
        (IF r.article = a /\ r.type = "HELPFUL" THEN 1 ELSE 0)
  BY <1>3, <1>4, <1>6
<1>8. Cardinality(LikesOf(S \cup {r}, a)) = Cardinality(L) +
        (IF r.article = a /\ r.type # "HELPFUL" THEN 1 ELSE 0)
  BY <1>3, <1>5, <1>6
<1> QED BY <1>3, <1>7, <1>8 DEF H, L

LEMMA ReactionRemoved ==
  ASSUME NEW S, IsFiniteSet(S), NEW r \in S, NEW a
  PROVE  /\ Cardinality(HelpfulOf(S \ {r}, a)) \in Int /\ Cardinality(LikesOf(S \ {r}, a)) \in Int
         /\ Cardinality(HelpfulOf(S, a)) = Cardinality(HelpfulOf(S \ {r}, a)) +
              (IF r.article = a /\ r.type = "HELPFUL" THEN 1 ELSE 0)
         /\ Cardinality(LikesOf(S, a)) = Cardinality(LikesOf(S \ {r}, a)) +
              (IF r.article = a /\ r.type # "HELPFUL" THEN 1 ELSE 0)
<1> DEFINE T == S \ {r}
<1>1. IsFiniteSet(T) BY FS_RemoveElement
<1>2. r \notin T /\ T \cup {r} = S OBVIOUS
<1> HIDE DEF T
<1>3. /\ Cardinality(HelpfulOf(T, a)) \in Int /\ Cardinality(LikesOf(T, a)) \in Int
      /\ Cardinality(HelpfulOf(T \cup {r}, a)) = Cardinality(HelpfulOf(T, a)) +
           (IF r.article = a /\ r.type = "HELPFUL" THEN 1 ELSE 0)
      /\ Cardinality(LikesOf(T \cup {r}, a)) = Cardinality(LikesOf(T, a)) +
           (IF r.article = a /\ r.type # "HELPFUL" THEN 1 ELSE 0)
  BY <1>1, <1>2, ReactionAdded
<1> QED BY <1>2, <1>3 DEF T

LEMMA CountedRow ==
  ASSUME NEW row \in ArticleRow, NEW type \in ReactionType, NEW n \in Int
  PROVE  /\ Counted(row, type, n) \in ArticleRow
         /\ Counted(row, type, n).helpful = row.helpful + (IF type = "HELPFUL" THEN n ELSE 0)
         /\ Counted(row, type, n).likes = row.likes + (IF type # "HELPFUL" THEN n ELSE 0)
BY DEF Counted, ArticleRow

\* A step that leaves the reactions alone and writes one row with its counters.
LEMMA GuideRowWritten ==
  ASSUME GuideInvariant, NEW a \in Article, NEW row \in ArticleRow,
         IF Existing(a) THEN row.likes = article[a].likes /\ row.helpful = article[a].helpful
         ELSE row.likes = 0 /\ row.helpful = 0,
         article' = [article EXCEPT ![a] = row],
         UNCHANGED <<reactions, reacted>>
  PROVE  /\ article' \in [Article -> ArticleRow \cup {NoArticle}]
         /\ \A b \in Article : Existing(b) => Existing(b)'
         /\ \A r \in reactions' : Existing(r.article)'
         /\ CountersTellReactions'
<1>1. article' \in [Article -> ArticleRow \cup {NoArticle}] BY DEF GuideInvariant
<1>2. \A b \in Article : article'[b] = IF b = a THEN row ELSE article[b] BY DEF GuideInvariant
<1>3. \A b \in Article : Existing(b) => Existing(b)' BY <1>2, NoArticleIsNoRow DEF Existing
<1>4. \A r \in reactions : r.article \in Article BY DEF GuideInvariant, ReactionRow
<1>5. \A r \in reactions' : Existing(r.article)' BY <1>3, <1>4 DEF GuideInvariant
<1>6. ASSUME NEW b \in Article, article'[b] # NoArticle
      PROVE  /\ article'[b].helpful = Cardinality({r \in reactions' : r.article = b /\ r.type = "HELPFUL"})
             /\ article'[b].likes = Cardinality({r \in reactions' : r.article = b /\ r.type # "HELPFUL"})
  <2>1. CASE Existing(b) BY <2>1, <1>2 DEF GuideInvariant, CountersTellReactions, Existing
  <2>2. CASE ~Existing(b)
    <3>1. b = a BY <2>2, <1>2, <1>6 DEF Existing
    <3>2. /\ {r \in reactions' : r.article = b /\ r.type = "HELPFUL"} = {}
          /\ {r \in reactions' : r.article = b /\ r.type # "HELPFUL"} = {}
      BY <2>2 DEF GuideInvariant
    <3> QED BY <3>1, <3>2, <2>2, <1>2, FS_EmptySet
  <2> QED BY <2>1, <2>2
<1>7. CountersTellReactions' BY <1>6 DEF CountersTellReactions
<1> QED BY <1>1, <1>3, <1>5, <1>7

\* The requests that were there still find their article.
LEMMA VisitsContinue ==
  ASSUME GuideInvariant, NEW k \in Visitor, NEW step \in VisitorStep \cup {NotVisiting},
         step # NotVisiting => Found(step) \in Article /\ Existing(Found(step)),
         Visits(k, step),
         \A b \in Article : Existing(b) => Existing(b)'
  PROVE  /\ visitor' \in [Visitor -> VisitorStep \cup {NotVisiting}]
         /\ \A h \in Visitor : visitor'[h] # NotVisiting => article'[Found(visitor'[h])] # NoArticle
<1>1. visitor' \in [Visitor -> VisitorStep \cup {NotVisiting}] BY DEF GuideInvariant, Visits
<1>2. \A h \in Visitor : visitor'[h] = IF h = k THEN step ELSE visitor[h] BY DEF GuideInvariant, Visits
<1>3. \A s \in VisitorStep : Found(s) \in Article
  BY DEF Found, VisitorStep, ReactionRow
<1>4. ASSUME NEW h \in Visitor, visitor'[h] # NotVisiting
      PROVE  article'[Found(visitor'[h])] # NoArticle
  <2> DEFINE s == visitor'[h]
  <2>1. s \in VisitorStep BY <1>1, <1>4
  <2>2. Found(s) \in Article /\ Existing(Found(s)) BY <2>1, <1>2, <1>3, <1>4 DEF GuideInvariant
  <2>3. article'[Found(s)] # NoArticle BY <2>2 DEF Existing
  <2> QED BY <2>3
<1> QED BY <1>1, <1>4

LEMMA GuideInvariantStep ==
  ASSUME GuideInvariant, GuideNext \/ UNCHANGED guideVars
  PROVE  GuideInvariant'
<1> DEFINE Standing == /\ \A b \in Article : Existing(b) => Existing(b)'
                       /\ \A r \in reactions' : Existing(r.article)'
                       /\ article' \in [Article -> ArticleRow \cup {NoArticle}]
                       /\ CountersTellReactions'
           Asked == /\ visitor' \in [Visitor -> VisitorStep \cup {NotVisiting}]
                    /\ \A h \in Visitor : visitor'[h] # NotVisiting => article'[Found(visitor'[h])] # NoArticle
           Edited == /\ editor' \in [Editor -> Article \cup {NotEditing}]
                     /\ \A e \in Editor : editor'[e] # NotEditing => article'[editor'[e]] # NoArticle
           Stored == /\ reactions' \subseteq ReactionRow /\ reacted' \in 0 .. MaxRows
                      /\ IsFiniteSet(reactions')
<1>a. UNCHANGED <<article, reactions>> => Standing
  BY DEF GuideInvariant, CountersTellReactions, Existing
<1>b. Standing /\ UNCHANGED visitor => Asked
  <2> SUFFICES ASSUME Standing, UNCHANGED visitor PROVE Asked OBVIOUS
  <2>1. \A s \in VisitorStep : Found(s) \in Article BY DEF Found, VisitorStep, ReactionRow
  <2>2. ASSUME NEW h \in Visitor, visitor'[h] # NotVisiting PROVE article'[Found(visitor'[h])] # NoArticle
    <3>1. visitor[h] \in VisitorStep BY <2>2 DEF GuideInvariant
    <3>2. Existing(Found(visitor[h])) /\ Found(visitor[h]) \in Article BY <3>1, <2>1, <2>2 DEF GuideInvariant
    <3>3. article'[Found(visitor[h])] # NoArticle BY <3>2 DEF Existing
    <3> QED BY <3>1, <3>3
  <2> QED BY <2>2 DEF GuideInvariant
<1>c. Standing /\ UNCHANGED editor => Edited
  BY DEF GuideInvariant, Existing
<1>d. UNCHANGED <<reactions, reacted>> => Stored BY DEF GuideInvariant
<1>e. Standing /\ Asked /\ Edited /\ Stored => GuideInvariant' BY DEF GuideInvariant, Existing
<1> HIDE DEF Standing, Asked, Edited, Stored
<1>1. ASSUME NEW a \in Article, NEW status \in ArticleStatus, NEW public \in BOOLEAN,
             CreatePlatformArticle(a, status, public)
      PROVE  GuideInvariant'
  <2> DEFINE row == [status |-> status, public |-> public, deleted |-> FALSE,
                     likes |-> 0, helpful |-> 0, commented |-> 0, read |-> 0]
  <2>1. row \in ArticleRow /\ row.likes = 0 /\ row.helpful = 0 BY DEF ArticleRow
  <2>2. ~Existing(a) /\ article' = [article EXCEPT ![a] = row]
        /\ UNCHANGED <<reactions, reacted, visitor, editor>>
    BY <1>1 DEF CreatePlatformArticle, Existing
  <2> HIDE DEF row
  <2>3. Standing BY <2>1, <2>2, GuideRowWritten DEF Standing
  <2> QED BY <2>2, <2>3, <1>b, <1>c, <1>d, <1>e
<1>2. ASSUME NEW e \in Editor, NEW a \in Article, EditRead(e, a) PROVE GuideInvariant'
  <2>1. Standing /\ Stored BY <1>2, <1>a, <1>d DEF EditRead
  <2>2. Edited BY <1>2 DEF EditRead, GuideInvariant, Existing, Edited
  <2> QED BY <2>1, <2>2, <1>2, <1>b, <1>e DEF EditRead
<1>3. ASSUME NEW e \in Editor, NEW status \in ArticleStatus, NEW public \in BOOLEAN, NEW deleted \in BOOLEAN,
             Edits(e, status, public, deleted)
      PROVE  GuideInvariant'
  <2> DEFINE a == editor[e]
             row == [article[a] EXCEPT !.status = status, !.public = public, !.deleted = deleted]
  <2>1. a \in Article /\ article[a] \in ArticleRow BY <1>3 DEF Edits, GuideInvariant, Existing
  <2>2. row \in ArticleRow /\ row.likes = article[a].likes /\ row.helpful = article[a].helpful
    BY <2>1 DEF ArticleRow
  <2>3. Existing(a) /\ article' = [article EXCEPT ![a] = row] /\ UNCHANGED <<reactions, reacted, visitor>>
    BY <1>3 DEF Edits, GuideInvariant
  <2> HIDE DEF row
  <2>4. Standing BY <2>1, <2>2, <2>3, GuideRowWritten DEF Standing
  <2>5. Edited
    BY <1>3, <2>4 DEF Edits, GuideInvariant, Existing, Edited, Standing
  <2> QED BY <2>3, <2>4, <2>5, <1>b, <1>d, <1>e
<1>4. ASSUME NEW e \in Editor, EditorStops(e) PROVE GuideInvariant'
  <2>1. Standing /\ Stored BY <1>4, <1>a, <1>d DEF EditorStops
  <2>2. Edited BY <1>4 DEF EditorStops, GuideInvariant, Existing, Edited
  <2> QED BY <2>1, <2>2, <1>4, <1>b, <1>e DEF EditorStops
<1>5. ASSUME NEW k \in Visitor, NEW a \in Article, NEW op \in {"read", "comment"}, FindPublished(k, a, op)
      PROVE  GuideInvariant'
  <2> DEFINE step == [op |-> op, article |-> a]
  <2>1. step \in VisitorStep /\ Found(step) = a BY DEF VisitorStep, Found
  <2>2. Existing(a) /\ Visits(k, step) /\ UNCHANGED <<article, reactions, reacted, editor>>
    BY <1>5 DEF FindPublished, Visible, Existing
  <2> HIDE DEF step
  <2>3. Standing BY <2>2, <1>a
  <2>4. Asked BY <2>1, <2>2, <2>3, VisitsContinue DEF Standing, Asked
  <2> QED BY <2>2, <2>3, <2>4, <1>c, <1>d, <1>e
<1>6. ASSUME NEW k \in Visitor, GetPublishedArticle(k) PROVE GuideInvariant'
  <2> DEFINE a == visitor[k].article
             row == [article[a] EXCEPT !.read = @ + 1]
  <2>1. visitor[k] \in VisitorStep /\ visitor[k].op = "read" BY <1>6 DEF GetPublishedArticle, Counting, GuideInvariant
  <2>2. a \in Article /\ Found(visitor[k]) = a BY <2>1 DEF VisitorStep, Found
  <2>3. Existing(a) BY <2>2, <1>6 DEF GetPublishedArticle, Counting, GuideInvariant
  <2>4. article[a] \in ArticleRow BY <2>2, <2>3 DEF GuideInvariant, Existing
  <2>5. row \in ArticleRow /\ row.likes = article[a].likes /\ row.helpful = article[a].helpful
    BY <2>4 DEF ArticleRow
  <2>6. /\ article' = [article EXCEPT ![a] = row] /\ Visits(k, NotVisiting)
        /\ UNCHANGED <<reactions, reacted, editor>>
    BY <1>6 DEF GetPublishedArticle
  <2> HIDE DEF row, a
  <2>7. Standing BY <2>2, <2>3, <2>5, <2>6, GuideRowWritten DEF Standing
  <2>8. Asked BY <2>6, <2>7, VisitsContinue DEF Standing, Asked
  <2> QED BY <2>6, <2>7, <2>8, <1>c, <1>d, <1>e
<1>7. ASSUME NEW k \in Visitor, CreatePublicComment(k) PROVE GuideInvariant'
  <2> DEFINE a == visitor[k].article
             row == [article[a] EXCEPT !.commented = @ + 1]
  <2>1. visitor[k] \in VisitorStep /\ visitor[k].op = "comment"
    BY <1>7 DEF CreatePublicComment, Counting, GuideInvariant
  <2>2. a \in Article /\ Found(visitor[k]) = a BY <2>1 DEF VisitorStep, Found
  <2>3. Existing(a) BY <2>2, <1>7 DEF CreatePublicComment, Counting, GuideInvariant
  <2>4. article[a] \in ArticleRow BY <2>2, <2>3 DEF GuideInvariant, Existing
  <2>5. row \in ArticleRow /\ row.likes = article[a].likes /\ row.helpful = article[a].helpful
    BY <2>4 DEF ArticleRow
  <2>6. /\ article' = [article EXCEPT ![a] = row] /\ Visits(k, NotVisiting)
        /\ UNCHANGED <<reactions, reacted, editor>>
    BY <1>7 DEF CreatePublicComment
  <2> HIDE DEF row, a
  <2>7. Standing BY <2>2, <2>3, <2>5, <2>6, GuideRowWritten DEF Standing
  <2>8. Asked BY <2>6, <2>7, VisitsContinue DEF Standing, Asked
  <2> QED BY <2>6, <2>7, <2>8, <1>c, <1>d, <1>e
<1>8. ASSUME NEW k \in Visitor, NEW a \in Article, NEW g \in Guest, NEW type \in ReactionType,
             ToggleRead(k, a, g, type)
      PROVE  GuideInvariant'
  <2>1. Existing(a) /\ UNCHANGED <<article, reactions, reacted, editor>>
    BY <1>8 DEF ToggleRead, Visible, Existing
  <2>2. Standing /\ Stored /\ Edited BY <2>1, <1>a, <1>c, <1>d
  <2>3. PICK step \in VisitorStep : Visits(k, step) /\ Found(step) = a
    <3>1. CASE Visits(k, [op |-> "react", article |-> a, guest |-> g, type |-> type])
      <4> DEFINE step == [op |-> "react", article |-> a, guest |-> g, type |-> type]
      <4>1. step \in VisitorStep /\ Found(step) = a BY DEF VisitorStep, Found
      <4> QED BY <4>1, <3>1
    <3>2. ASSUME NEW r \in Reaction(a, g, type), Visits(k, [op |-> "withdraw", row |-> r])
          PROVE  \E step \in VisitorStep : Visits(k, step) /\ Found(step) = a
      <4> DEFINE step == [op |-> "withdraw", row |-> r]
      <4>1. r \in ReactionRow /\ r.article = a BY DEF Reaction, GuideInvariant
      <4>2. step \in VisitorStep /\ Found(step) = a BY <4>1 DEF VisitorStep, Found
      <4> QED BY <4>2, <3>2
    <3> QED BY <3>1, <3>2, <1>8 DEF ToggleRead
  <2>4. Asked BY <2>1, <2>2, <2>3, VisitsContinue DEF Standing, Asked
  <2> QED BY <2>2, <2>4, <1>e
<1>9. ASSUME NEW k \in Visitor, React(k) PROVE GuideInvariant'
  <2> DEFINE a == visitor[k].article
             g == visitor[k].guest
             type == visitor[k].type
             r == [id |-> reacted + 1, article |-> a, guest |-> g, type |-> type]
             row == Counted(article[a], type, 1)
  <2>1. visitor[k] \in VisitorStep /\ visitor[k].op = "react" BY <1>9 DEF React, Counting, GuideInvariant
  <2>2. a \in Article /\ g \in Guest /\ type \in ReactionType /\ Found(visitor[k]) = a
    BY <2>1 DEF VisitorStep, Found
  <2>3. Existing(a) BY <2>2, <1>9 DEF React, Counting, GuideInvariant
  <2>4. article[a] \in ArticleRow BY <2>2, <2>3 DEF GuideInvariant, Existing
  <2>5. /\ row \in ArticleRow
        /\ row.helpful = article[a].helpful + (IF type = "HELPFUL" THEN 1 ELSE 0)
        /\ row.likes = article[a].likes + (IF type # "HELPFUL" THEN 1 ELSE 0)
    BY <2>2, <2>4, CountedRow
  <2>6. reacted + 1 \in 1 .. MaxRows BY <1>9, PublicationsAssumption DEF React, GuideInvariant
  <2>7. r \in ReactionRow /\ r.article = a /\ r.guest = g /\ r.type = type BY <2>2, <2>6 DEF ReactionRow
  <2>8. Reaction(a, g, type) = {} BY <1>9 DEF React
  <2>9. r \notin reactions BY <2>7, <2>8 DEF Reaction
  <2>10. /\ reactions' = reactions \cup {r} /\ article' = [article EXCEPT ![a] = row]
         /\ reacted' = reacted + 1 /\ Visits(k, NotVisiting) /\ UNCHANGED editor
    BY <1>9 DEF React
  <2> HIDE DEF row, r, a, g, type
  <2>11. article' \in [Article -> ArticleRow \cup {NoArticle}] BY <2>5, <2>10 DEF GuideInvariant
  <2>12. \A b \in Article : article'[b] = IF b = a THEN row ELSE article[b] BY <2>10 DEF GuideInvariant
  <2>13. \A b \in Article : Existing(b) => Existing(b)' BY <2>5, <2>12, NoArticleIsNoRow DEF Existing
  <2>14. \A s \in reactions' : Existing(s.article)'
    BY <2>2, <2>3, <2>7, <2>10, <2>13 DEF GuideInvariant, ReactionRow
  <2>15. IsFiniteSet(reactions') BY <2>10, FS_AddElement DEF GuideInvariant
  <2>16. Stored BY <2>6, <2>7, <2>10, <2>15 DEF Stored, GuideInvariant
  <2>17. ASSUME NEW b \in Article, article'[b] # NoArticle
         PROVE  /\ article'[b].helpful = Cardinality(HelpfulOf(reactions', b))
                /\ article'[b].likes = Cardinality(LikesOf(reactions', b))
    <3>1. Existing(b) BY <2>3, <2>12, <2>17 DEF Existing
    <3>2. /\ article[b].helpful = Cardinality(HelpfulOf(reactions, b))
          /\ article[b].likes = Cardinality(LikesOf(reactions, b))
      BY <3>1 DEF GuideInvariant, CountersTellReactions, HelpfulOf, LikesOf, Existing
    <3>3. /\ Cardinality(HelpfulOf(reactions, b)) \in Int /\ Cardinality(LikesOf(reactions, b)) \in Int
          /\ Cardinality(HelpfulOf(reactions \cup {r}, b)) = Cardinality(HelpfulOf(reactions, b)) +
               (IF r.article = b /\ r.type = "HELPFUL" THEN 1 ELSE 0)
          /\ Cardinality(LikesOf(reactions \cup {r}, b)) = Cardinality(LikesOf(reactions, b)) +
               (IF r.article = b /\ r.type # "HELPFUL" THEN 1 ELSE 0)
      <4>1. IsFiniteSet(reactions) BY DEF GuideInvariant
      <4> QED BY <4>1, <2>9, ReactionAdded
    <3>4. CASE b = a BY <3>2, <3>3, <3>4, <2>5, <2>7, <2>10, <2>12
    <3>5. CASE b # a BY <3>2, <3>3, <3>5, <2>7, <2>10, <2>12
    <3> QED BY <3>4, <3>5
  <2>18. CountersTellReactions' BY <2>17 DEF CountersTellReactions, HelpfulOf, LikesOf
  <2>19. Standing BY <2>11, <2>13, <2>14, <2>18 DEF Standing
  <2>20. Asked BY <2>10, <2>13, VisitsContinue DEF Asked
  <2> QED BY <2>10, <2>16, <2>19, <2>20, <1>c, <1>e
<1>10. ASSUME NEW k \in Visitor, Withdraw(k) PROVE GuideInvariant'
  <2> DEFINE r == visitor[k].row
             a == r.article
             row == Counted(article[a], r.type, -1)
  <2>1. r \in reactions BY <1>10 DEF Withdraw
  <2>2. r \in ReactionRow /\ a \in Article /\ r.type \in ReactionType BY <2>1 DEF GuideInvariant, ReactionRow
  <2>3. Existing(a) /\ article[a] \in ArticleRow BY <2>1, <2>2 DEF GuideInvariant, Existing
  <2>5. /\ row \in ArticleRow
        /\ row.helpful = article[a].helpful + (IF r.type = "HELPFUL" THEN -1 ELSE 0)
        /\ row.likes = article[a].likes + (IF r.type # "HELPFUL" THEN -1 ELSE 0)
    BY <2>2, <2>3, CountedRow
  <2>10. /\ reactions' = reactions \ {r} /\ article' = [article EXCEPT ![a] = row]
         /\ Visits(k, NotVisiting) /\ UNCHANGED <<reacted, editor>>
    BY <1>10 DEF Withdraw
  <2>4. r.article = a OBVIOUS
  <2> HIDE DEF row, r, a
  <2>11. article' \in [Article -> ArticleRow \cup {NoArticle}] BY <2>5, <2>10 DEF GuideInvariant
  <2>12. \A b \in Article : article'[b] = IF b = a THEN row ELSE article[b] BY <2>10 DEF GuideInvariant
  <2>13. \A b \in Article : Existing(b) => Existing(b)' BY <2>5, <2>12, NoArticleIsNoRow DEF Existing
  <2>14. \A s \in reactions' : Existing(s.article)'
    BY <2>10, <2>13 DEF GuideInvariant, ReactionRow
  <2>15. IsFiniteSet(reactions') BY <2>10, FS_RemoveElement DEF GuideInvariant
  <2>16. Stored BY <2>10, <2>15 DEF Stored, GuideInvariant
  <2>17. ASSUME NEW b \in Article, article'[b] # NoArticle
         PROVE  /\ article'[b].helpful = Cardinality(HelpfulOf(reactions', b))
                /\ article'[b].likes = Cardinality(LikesOf(reactions', b))
    <3>1. Existing(b) BY <2>3, <2>12, <2>17 DEF Existing
    <3>2. /\ article[b].helpful = Cardinality(HelpfulOf(reactions, b))
          /\ article[b].likes = Cardinality(LikesOf(reactions, b))
      BY <3>1 DEF GuideInvariant, CountersTellReactions, HelpfulOf, LikesOf, Existing
    <3>3. /\ Cardinality(HelpfulOf(reactions \ {r}, b)) \in Int /\ Cardinality(LikesOf(reactions \ {r}, b)) \in Int
          /\ Cardinality(HelpfulOf(reactions, b)) = Cardinality(HelpfulOf(reactions \ {r}, b)) +
               (IF r.article = b /\ r.type = "HELPFUL" THEN 1 ELSE 0)
          /\ Cardinality(LikesOf(reactions, b)) = Cardinality(LikesOf(reactions \ {r}, b)) +
               (IF r.article = b /\ r.type # "HELPFUL" THEN 1 ELSE 0)
      <4>1. IsFiniteSet(reactions) BY DEF GuideInvariant
      <4> QED BY <4>1, <2>1, ReactionRemoved
    <3>4. CASE b = a BY <3>2, <3>3, <3>4, <2>4, <2>5, <2>10, <2>12
    <3>5. CASE b # a BY <3>2, <3>3, <3>5, <2>4, <2>10, <2>12
    <3> QED BY <3>4, <3>5
  <2>18. CountersTellReactions' BY <2>17 DEF CountersTellReactions, HelpfulOf, LikesOf
  <2>19. Standing BY <2>11, <2>13, <2>14, <2>18 DEF Standing
  <2>20. Asked BY <2>10, <2>13, VisitsContinue DEF Asked
  <2> QED BY <2>10, <2>16, <2>19, <2>20, <1>c, <1>e
<1>11. ASSUME NEW k \in Visitor, VisitorStops(k) PROVE GuideInvariant'
  <2>1. Visits(k, NotVisiting) /\ UNCHANGED <<article, reactions, reacted, editor>> BY <1>11 DEF VisitorStops
  <2>2. Standing /\ Stored /\ Edited BY <2>1, <1>a, <1>c, <1>d
  <2>3. Asked BY <2>1, <2>2, VisitsContinue DEF Standing, Asked
  <2> QED BY <2>2, <2>3, <1>e
<1>12. CASE UNCHANGED guideVars
  <2>1. UNCHANGED <<article, reactions, reacted, visitor, editor>> BY <1>12 DEF guideVars
  <2>2. Standing /\ Stored BY <2>1, <1>a, <1>d
  <2> QED BY <2>1, <2>2, <1>b, <1>c, <1>e
<1>13. ASSUME NEW e \in Editor,
              DeletePlatformArticle(e)
              \/ \E status \in ArticleStatus, public \in BOOLEAN : UpdatePlatformArticle(e, status, public)
       PROVE  GuideInvariant'
  <2>1. editor[e] # NotEditing BY <1>13 DEF DeletePlatformArticle, UpdatePlatformArticle
  <2>2. article[editor[e]] \in ArticleRow BY <2>1 DEF GuideInvariant, Existing
  <2>3. article[editor[e]].public \in BOOLEAN /\ article[editor[e]].deleted \in BOOLEAN BY <2>2 DEF ArticleRow
  <2> QED BY <2>3, <1>3, <1>13 DEF DeletePlatformArticle, UpdatePlatformArticle, ArticleStatus
<1> QED BY <1>1, <1>2, <1>4, <1>5, <1>6, <1>7, <1>8, <1>9, <1>10, <1>11, <1>12, <1>13 DEF GuideNext

\* However togglePublicReaction requests overlap, likeCount and helpfulCount of an
\* article are the reactions there are to it.
THEOREM CountersAlwaysTellReactions == PublicationsSpec => []CountersTellReactions
<1>1. PublicationsInit => GuideInvariant
  <2> SUFFICES ASSUME PublicationsInit PROVE GuideInvariant OBVIOUS
  <2> USE DEF PublicationsInit
  <2>1. IsFiniteSet(reactions) BY FS_EmptySet
  <2> QED BY <2>1, PublicationsAssumption DEF GuideInvariant, CountersTellReactions
<1>2. GuideInvariant /\ [PublicationsNext]_publicationVars => GuideInvariant'
  BY GuideInvariantStep DEF PublicationsNext, publicationVars
<1>3. GuideInvariant => CountersTellReactions BY DEF GuideInvariant
<1> QED BY <1>1, <1>2, <1>3, PTL DEF PublicationsSpec

----------------------------------------------------------------------------
\* The dashboard.

Bears(row, owner, code) == row # NoWidget /\ row.owner = owner /\ row.code = code
\* What a handler of widgets may rely on when it commits.
Grounded(rows, step) == step.op \in {"update", "rename"} => rows[step.widget] # NoWidget
CodesApart ==
  \A w, x \in Widget :
    /\ w # x /\ widget[w] # NoWidget /\ widget[x] # NoWidget
    /\ widget[w].owner = widget[x].owner /\ widget[w].code = widget[x].code
    => widget[w].owner = Platform
WidgetInvariant ==
  /\ widget \in [Widget -> WidgetRow \cup {NoWidget}]
  /\ curator \in [Curator -> CuratorStep \cup {NotCurating}]
  /\ \A c \in Curator : curator[c] # NotCurating => Grounded(widget, curator[c])
  /\ CodesApart

\* A step of one handler that writes no widget.
LEMMA CuratorContinues ==
  ASSUME WidgetInvariant, NEW c \in Curator, NEW step \in CuratorStep \cup {NotCurating},
         step # NotCurating => Grounded(widget, step),
         Curates(c, step), UNCHANGED widget
  PROVE  WidgetInvariant'
<1>1. curator' \in [Curator -> CuratorStep \cup {NotCurating}] BY DEF WidgetInvariant, Curates
<1>2. \A d \in Curator : curator'[d] = IF d = c THEN step ELSE curator[d] BY DEF WidgetInvariant, Curates
<1>4. \A d \in Curator : curator'[d] # NotCurating => Grounded(widget', curator'[d])
  BY <1>2 DEF WidgetInvariant
<1>5. CodesApart' BY DEF WidgetInvariant, CodesApart
<1> QED BY <1>1, <1>4, <1>5 DEF WidgetInvariant

\* A step that writes one widget of an owner and a code that no other one has,
\* if the owner is a tenant.
LEMMA WidgetWritten ==
  ASSUME WidgetInvariant, NEW c \in Curator, curator[c] # NotCurating,
         NEW w \in Widget, NEW row \in WidgetRow,
         row.owner # Platform =>
           \A x \in Widget : Bears(widget[x], row.owner, row.code) => x = w,
         widget' = [widget EXCEPT ![w] = row], Curates(c, NotCurating)
  PROVE  WidgetInvariant'
<1>1. widget' \in [Widget -> WidgetRow \cup {NoWidget}] BY DEF WidgetInvariant
<1>2. \A x \in Widget : widget'[x] = IF x = w THEN row ELSE widget[x] BY DEF WidgetInvariant
<1>3. curator' \in [Curator -> CuratorStep \cup {NotCurating}] BY DEF WidgetInvariant, Curates
<1>4. \A d \in Curator : curator'[d] = IF d = c THEN NotCurating ELSE curator[d]
  BY DEF WidgetInvariant, Curates
<1>6. ASSUME NEW d \in Curator, curator'[d] # NotCurating PROVE Grounded(widget', curator'[d])
  <2>1. d # c /\ curator'[d] = curator[d] BY <1>4, <1>6
  <2>3. Grounded(widget, curator[d]) /\ curator[d] \in CuratorStep BY <2>1, <1>6 DEF WidgetInvariant
  <2>4. curator[d].op \in {"update", "rename"} => curator[d].widget \in Widget BY <2>3 DEF CuratorStep
  <2>5. row # NoWidget BY NoStepIsNoStep
  <2> QED BY <2>1, <2>3, <2>4, <2>5, <1>2 DEF Grounded
<1>7. ASSUME NEW x \in Widget, NEW y \in Widget, x # y, widget'[x] # NoWidget, widget'[y] # NoWidget,
             widget'[x].owner = widget'[y].owner, widget'[x].code = widget'[y].code
      PROVE  widget'[x].owner = Platform
  <2>1. CASE x = w BY <2>1, <1>2, <1>7 DEF Bears
  <2>2. CASE y = w BY <2>2, <1>2, <1>7 DEF Bears
  <2>3. CASE x # w /\ y # w BY <2>3, <1>2, <1>7 DEF WidgetInvariant, CodesApart
  <2> QED BY <2>1, <2>2, <2>3
<1>8. CodesApart' BY <1>7 DEF CodesApart
<1> QED BY <1>1, <1>3, <1>6, <1>8 DEF WidgetInvariant

LEMMA WidgetInvariantStep ==
  ASSUME WidgetInvariant, figure \in 0 .. MaxFigure, stewards \subseteq Steward,
         Len(snapshots) \in 0 .. MaxSnapshots,
         BoardNext \/ UNCHANGED boardVars
  PROVE  WidgetInvariant'
<1> USE DEF CuratorStep
<1>1. ASSUME NEW c \in Curator, RefreshRead(c) PROVE WidgetInvariant'
  <2> DEFINE step == [op |-> "refresh", figure |-> figure, since |-> Len(snapshots)]
  <2>1. step \in CuratorStep /\ step.op = "refresh" BY <1>1
  <2>2. Curates(c, step) /\ UNCHANGED widget BY <1>1 DEF RefreshRead
  <2> HIDE DEF step, CuratorStep
  <2>3. Grounded(widget, step) BY <2>1 DEF Grounded
  <2> QED BY <2>1, <2>2, <2>3, CuratorContinues
<1>2. ASSUME NEW c \in Curator, Curates(c, NotCurating), UNCHANGED widget PROVE WidgetInvariant'
  BY <1>2, CuratorContinues
<1>3. ASSUME NEW c \in Curator, NEW about \in Issue \cup Event, FindTenantStewards(c, about)
      PROVE  WidgetInvariant'
  <2> DEFINE step == [op |-> "alert", about |-> about, to |-> stewards]
  <2>1. step \in CuratorStep /\ step.op = "alert" BY <1>3
  <2>2. Curates(c, step) /\ UNCHANGED widget BY <1>3 DEF FindTenantStewards
  <2> HIDE DEF step, CuratorStep
  <2>3. Grounded(widget, step) BY <2>1 DEF Grounded
  <2> QED BY <2>1, <2>2, <2>3, CuratorContinues
<1>4. ASSUME NEW c \in Curator, NEW owner \in WidgetOwner, NEW code \in WidgetCode, UpsertRead(c, owner, code)
      PROVE  WidgetInvariant'
  <2>0. UNCHANGED widget BY <1>4 DEF UpsertRead
  <2>1. CASE Coded(owner, code) = {} /\ Curates(c, [op |-> "create", owner |-> owner, code |-> code])
    <3> DEFINE step == [op |-> "create", owner |-> owner, code |-> code]
    <3>1. step \in CuratorStep /\ step.op = "create" /\ step.owner = owner /\ step.code = code OBVIOUS
    <3>2. Curates(c, step) BY <2>1
    <3> HIDE DEF step, CuratorStep
    <3>3. Grounded(widget, step) BY <3>1, <2>1 DEF Grounded, Bears, Coded
    <3> QED BY <3>1, <3>2, <3>3, <2>0, CuratorContinues
  <2>2. ASSUME NEW w \in Coded(owner, code), Curates(c, [op |-> "update", widget |-> w])
        PROVE  WidgetInvariant'
    <3> DEFINE step == [op |-> "update", widget |-> w]
    <3>1. step \in CuratorStep /\ step.op = "update" /\ step.widget = w BY DEF Coded
    <3>2. Curates(c, step) BY <2>2
    <3> HIDE DEF step, CuratorStep
    <3>3. Grounded(widget, step) BY <3>1, <2>2 DEF Grounded, Coded
    <3> QED BY <3>1, <3>2, <3>3, <2>0, CuratorContinues
  <2> QED BY <2>1, <2>2, <1>4 DEF UpsertRead
<1>5. ASSUME NEW c \in Curator, NEW w \in Widget, UpdateWidgetRead(c, w) PROVE WidgetInvariant'
  <2> DEFINE step == [op |-> "update", widget |-> w]
  <2>1. step \in CuratorStep /\ step.op = "update" /\ step.widget = w OBVIOUS
  <2>2. Curates(c, step) /\ UNCHANGED widget /\ widget[w] # NoWidget
    BY <1>5 DEF UpdateWidgetRead
  <2> HIDE DEF step, CuratorStep
  <2>3. Grounded(widget, step) BY <2>1, <2>2 DEF Grounded
  <2> QED BY <2>1, <2>2, <2>3, CuratorContinues
<1>6. ASSUME NEW c \in Curator, NEW w \in Widget, NEW code \in WidgetCode, RenameRead(c, w, code)
      PROVE  WidgetInvariant'
  <2> DEFINE step == [op |-> "rename", widget |-> w, code |-> code]
  <2>1. step \in CuratorStep /\ step.op = "rename" /\ step.widget = w /\ step.code = code OBVIOUS
  <2>2. /\ Curates(c, step) /\ UNCHANGED widget /\ widget[w] # NoWidget
        /\ code # widget[w].code => Coded(widget[w].owner, code) = {}
    BY <1>6 DEF RenameRead
  <2> HIDE DEF step, CuratorStep
  <2>4. Grounded(widget, step) BY <2>1, <2>2 DEF Grounded
  <2> QED BY <2>1, <2>2, <2>4, CuratorContinues
<1>7. ASSUME NEW c \in Curator, NEW w \in Widget, CreateWidget(c, w) PROVE WidgetInvariant'
  <2> DEFINE owner == curator[c].owner
             code == curator[c].code
  <2>1. curator[c] # NotCurating /\ curator[c].op = "create" BY <1>7 DEF CreateWidget, Curating
  <2>2. owner \in WidgetOwner /\ code \in WidgetCode BY <2>1 DEF WidgetInvariant
  <2>3. PICK active \in BOOLEAN :
          widget' = [widget EXCEPT ![w] = [owner |-> owner, code |-> code, active |-> active]]
    BY <1>7 DEF CreateWidget
  <2> DEFINE row == [owner |-> owner, code |-> code, active |-> active]
  <2>4. row \in WidgetRow /\ row.owner = owner /\ row.code = code BY <2>2 DEF WidgetRow
  <2>5. owner # Platform => Coded(owner, code) \subseteq {w} BY <1>7 DEF CreateWidget, Indexed
  <2>7. widget' = [widget EXCEPT ![w] = row] /\ Curates(c, NotCurating) BY <1>7, <2>3 DEF CreateWidget
  <2> HIDE DEF row, owner, code, CuratorStep
  <2>8. row.owner # Platform => \A x \in Widget : Bears(widget[x], row.owner, row.code) => x = w
    BY <2>4, <2>5 DEF Bears, Coded
  <2> QED BY <2>1, <2>4, <2>7, <2>8, WidgetWritten
<1>8. ASSUME NEW c \in Curator, NEW w \in Widget, NEW code \in WidgetCode, curator[c] # NotCurating,
             widget[w] # NoWidget, WritesWidget(c, w, code)
      PROVE  WidgetInvariant'
  <2> DEFINE owner == widget[w].owner
  <2>1. owner \in WidgetOwner BY <1>8 DEF WidgetInvariant, WidgetRow
  <2>2. PICK active \in BOOLEAN :
          widget' = [widget EXCEPT ![w] = [owner |-> owner, code |-> code, active |-> active]]
    BY <1>8 DEF WritesWidget
  <2> DEFINE row == [owner |-> owner, code |-> code, active |-> active]
  <2>3. row \in WidgetRow /\ row.owner = owner /\ row.code = code BY <2>1 DEF WidgetRow
  <2>4. owner # Platform => Coded(owner, code) \subseteq {w} BY <1>8 DEF WritesWidget, Indexed
  <2>5. widget' = [widget EXCEPT ![w] = row] /\ Curates(c, NotCurating) BY <1>8, <2>2 DEF WritesWidget
  <2> HIDE DEF row, CuratorStep
  <2>6. row.owner # Platform => \A x \in Widget : Bears(widget[x], row.owner, row.code) => x = w
    BY <2>3, <2>4 DEF Bears, Coded
  <2> QED BY <1>8, <2>3, <2>5, <2>6, WidgetWritten
<1>9. ASSUME NEW c \in Curator, UpdateWidget(c) PROVE WidgetInvariant'
  <2> DEFINE w == curator[c].widget
  <2>1. curator[c] # NotCurating /\ curator[c].op = "update" BY <1>9 DEF UpdateWidget, Curating
  <2>2. w \in Widget BY <2>1 DEF WidgetInvariant
  <2>3. widget[w] # NoWidget BY <2>1 DEF WidgetInvariant, Grounded
  <2>4. widget[w].code \in WidgetCode BY <2>2, <2>3 DEF WidgetInvariant, WidgetRow
  <2> HIDE DEF CuratorStep
  <2> QED BY <2>1, <2>2, <2>3, <2>4, <1>8, <1>9 DEF UpdateWidget
<1>10. ASSUME NEW c \in Curator, RenameWidget(c) PROVE WidgetInvariant'
  <2> DEFINE w == curator[c].widget
  <2>1. curator[c] # NotCurating /\ curator[c].op = "rename" BY <1>10 DEF RenameWidget, Curating
  <2>2. w \in Widget /\ curator[c].code \in WidgetCode BY <2>1 DEF WidgetInvariant
  <2>3. widget[w] # NoWidget BY <2>1 DEF WidgetInvariant, Grounded
  <2> HIDE DEF CuratorStep
  <2> QED BY <2>1, <2>2, <2>3, <1>8, <1>10 DEF RenameWidget
<1>11. CASE UNCHANGED <<widget, curator>>
  BY <1>11 DEF WidgetInvariant, CodesApart
<1> HIDE DEF CuratorStep
<1> QED
  BY <1>1, <1>2, <1>3, <1>4, <1>5, <1>6, <1>7, <1>9, <1>10, <1>11
  DEF BoardNext, boardVars, FigureGrows, StewardsChange, RefreshCommit, HandleDataQualityAction,
      BroadcastOutboxMessage, Alerts, CuratorStops

----------------------------------------------------------------------------
\* Widgets of the platform.

\* A widget of the platform has the code; a handler goes to create one with it,
\* or to give it to one.
Held(x, code) == widget[x] # NoWidget /\ widget[x].owner = Platform /\ widget[x].code = code
Makes(c, code) == Curating(c, "create") /\ curator[c].owner = Platform /\ curator[c].code = code
Gives(c, x, code) ==
  Curating(c, "rename") /\ curator[c].widget = x /\ curator[c].code = code /\ widget[x].owner = Platform

\* What holds of a code until two handlers at once go to give it to widgets.
Uncontested(code) ==
  /\ \A x, y \in Widget : Held(x, code) /\ Held(y, code) => x = y
  /\ \A c, d \in Curator : Makes(c, code) /\ Makes(d, code) => c = d
  /\ \A c, d \in Curator, x \in Widget : ~(Makes(c, code) /\ Gives(d, x, code))
  /\ \A c, d \in Curator, x, y \in Widget : Gives(c, x, code) /\ Gives(d, y, code) => x = y
  /\ \A c \in Curator, x \in Widget : ~(Makes(c, code) /\ Held(x, code))
  /\ \A c \in Curator, x, y \in Widget : Gives(c, x, code) /\ Held(y, code) => x = y
UncontestedUnlessSaid == \A code \in WidgetCode : code \notin contested => Uncontested(code)

\* No widget gets the code, and no handler goes to give it to one.
Calm(code) ==
  /\ \A x \in Widget : Held(x, code)' => Held(x, code)
  /\ \A c \in Curator : Makes(c, code)' => Makes(c, code)
  /\ \A c \in Curator, x \in Widget : Gives(c, x, code)' => Gives(c, x, code)

LEMMA CalmKeeps ==
  ASSUME NEW code, Uncontested(code), Calm(code)
  PROVE  Uncontested(code)'
BY DEF Uncontested, Calm

\* One handler takes a step that writes no widget.
LEMMA CuratorMoves ==
  ASSUME WidgetInvariant, NEW c \in Curator, NEW step, Curates(c, step), UNCHANGED widget
  PROVE  /\ \A x, code : Held(x, code)' <=> Held(x, code)
         /\ \A d \in Curator \ {c} : \A x, code :
              (Makes(d, code)' <=> Makes(d, code)) /\ (Gives(d, x, code)' <=> Gives(d, x, code))
         /\ \A code : Makes(c, code)' <=>
              step # NotCurating /\ step.op = "create" /\ step.owner = Platform /\ step.code = code
         /\ \A x, code : Gives(c, x, code)' <=>
              /\ step # NotCurating /\ step.op = "rename" /\ step.widget = x /\ step.code = code
              /\ widget[x].owner = Platform
<1>1. curator'[c] = step /\ \A d \in Curator \ {c} : curator'[d] = curator[d]
  BY DEF WidgetInvariant, Curates
<1> QED BY <1>1 DEF Held, Makes, Gives, Curating

\* A handler that commits leaves the others where they are, and a widget that
\* there was with its owner.
LEMMA CuratorWrites ==
  ASSUME WidgetInvariant, NEW c \in Curator, Curates(c, NotCurating),
         NEW w \in Widget, NEW row \in WidgetRow, widget' = [widget EXCEPT ![w] = row],
         widget[w] # NoWidget => row.owner = widget[w].owner
  PROVE  /\ \A code : ~Makes(c, code)'
         /\ \A x, code : ~Gives(c, x, code)'
         /\ \A d \in Curator \ {c} : \A code : Makes(d, code)' <=> Makes(d, code)
         /\ \A d \in Curator \ {c}, x \in Widget : \A code : Gives(d, x, code)' <=> Gives(d, x, code)
         /\ \A x \in Widget \ {w} : \A code : Held(x, code)' <=> Held(x, code)
         /\ \A code : Held(w, code)' <=> row.owner = Platform /\ row.code = code
<1>1. curator'[c] = NotCurating /\ \A d \in Curator \ {c} : curator'[d] = curator[d]
  BY DEF WidgetInvariant, Curates
<1>2. widget'[w] = row /\ \A x \in Widget \ {w} : widget'[x] = widget[x] BY DEF WidgetInvariant
<1>3. row # NoWidget BY NoStepIsNoStep
<1>4. ASSUME NEW d \in Curator \ {c}, NEW x \in Widget, NEW code
      PROVE  Gives(d, x, code)' <=> Gives(d, x, code)
  <2>1. Curating(d, "rename") /\ curator[d].widget = x => widget[x] # NoWidget
    BY DEF WidgetInvariant, Grounded, Curating
  <2>2. widget[x] # NoWidget => widget'[x].owner = widget[x].owner BY <1>2
  <2> QED BY <1>1, <2>1, <2>2 DEF Gives, Curating
<1> QED BY <1>1, <1>2, <1>3, <1>4 DEF Held, Makes, Gives, Curating

LEMMA ContestStep ==
  ASSUME WidgetInvariant, UncontestedUnlessSaid, BoardNext \/ UNCHANGED boardVars
  PROVE  UncontestedUnlessSaid'
<1>a. ASSUME UNCHANGED contested, \A code \in WidgetCode : Calm(code) PROVE UncontestedUnlessSaid'
  BY <1>a, CalmKeeps DEF UncontestedUnlessSaid
<1>b. ASSUME NEW c \in Curator, NEW step, Curates(c, step), UNCHANGED <<widget, contested>>,
             step # NotCurating => step.op \notin {"create", "rename"}
      PROVE  UncontestedUnlessSaid'
  <2>1. /\ \A x, code : Held(x, code)' <=> Held(x, code)
        /\ \A d \in Curator \ {c} : \A x, code :
             (Makes(d, code)' <=> Makes(d, code)) /\ (Gives(d, x, code)' <=> Gives(d, x, code))
        /\ \A code : ~Makes(c, code)'
        /\ \A x, code : ~Gives(c, x, code)'
    BY <1>b, CuratorMoves
  <2>2. ASSUME NEW code \in WidgetCode PROVE Calm(code)
    <3>1. \A x \in Widget : Held(x, code)' => Held(x, code) BY <2>1
    <3>2. ASSUME NEW d \in Curator PROVE Makes(d, code)' => Makes(d, code)
      <4>1. CASE d = c BY <2>1, <4>1
      <4>2. CASE d \in Curator \ {c} BY <2>1, <4>2
      <4> QED BY <4>1, <4>2
    <3>3. ASSUME NEW d \in Curator, NEW x \in Widget PROVE Gives(d, x, code)' => Gives(d, x, code)
      <4>1. CASE d = c BY <2>1, <4>1
      <4>2. CASE d \in Curator \ {c} BY <2>1, <4>2
      <4> QED BY <4>1, <4>2
    <3> QED BY <3>1, <3>2, <3>3 DEF Calm
  <2> QED BY <1>a, <1>b, <2>2
<1>1. ASSUME NEW c \in Curator, NEW owner \in WidgetOwner, NEW code \in WidgetCode, UpsertRead(c, owner, code)
      PROVE  UncontestedUnlessSaid'
  <2>1. curator[c] = NotCurating /\ UNCHANGED widget BY <1>1 DEF UpsertRead
  <2>2. CASE /\ Coded(owner, code) = {} /\ Contest(owner, code, {})
             /\ Curates(c, [op |-> "create", owner |-> owner, code |-> code])
    <3> DEFINE step == [op |-> "create", owner |-> owner, code |-> code]
    <3>1. step.op = "create" /\ step.owner = owner /\ step.code = code OBVIOUS
    <3>2. Curates(c, step) BY <2>2
    <3> HIDE DEF step
    <3>3. /\ \A x \in Widget : \A k : Held(x, k)' <=> Held(x, k)
          /\ \A d \in Curator \ {c} : \A x, k :
               (Makes(d, k)' <=> Makes(d, k)) /\ (Gives(d, x, k)' <=> Gives(d, x, k))
          /\ \A k : Makes(c, k)' => owner = Platform /\ k = code
          /\ \A x, k : ~Gives(c, x, k)'
      BY <2>1, <3>1, <3>2, CuratorMoves
    <3>4. ASSUME NEW k \in WidgetCode, k \notin contested' PROVE Uncontested(k)'
      <4>1. k \notin contested BY <2>2, <3>4 DEF Contest
      <4>2. Uncontested(k) BY <4>1 DEF UncontestedUnlessSaid
      <4>3. CASE ~(owner = Platform /\ k = code)
        <5>1. \A x \in Widget : Held(x, k)' => Held(x, k) BY <3>3
        <5>2. ASSUME NEW d \in Curator PROVE Makes(d, k)' => Makes(d, k)
          <6>1. CASE d = c BY <3>3, <4>3, <6>1
          <6>2. CASE d \in Curator \ {c} BY <3>3, <6>2
          <6> QED BY <6>1, <6>2
        <5>3. ASSUME NEW d \in Curator, NEW x \in Widget PROVE Gives(d, x, k)' => Gives(d, x, k)
          <6>1. CASE d = c BY <3>3, <6>1
          <6>2. CASE d \in Curator \ {c} BY <3>3, <6>2
          <6> QED BY <6>1, <6>2
        <5>4. Calm(k) BY <5>1, <5>2, <5>3 DEF Calm
        <5> QED BY <4>2, <5>4, CalmKeeps
      <4>4. CASE owner = Platform /\ k = code
        <5>1. \A d \in Curator : ~Claims(d, code, {}) BY <2>2, <3>4, <4>4 DEF Contest
        <5>2. \A d \in Curator \ {c} : ~Makes(d, k)' /\ \A x : ~Gives(d, x, k)'
          BY <3>3, <4>4, <5>1 DEF Claims, Makes, Gives
        <5>3. \A x \in Widget : ~Held(x, k)' BY <2>2, <3>3, <4>4 DEF Held, Coded
        <5> QED BY <3>3, <5>2, <5>3 DEF Uncontested
      <4> QED BY <4>3, <4>4
    <3> QED BY <3>4 DEF UncontestedUnlessSaid
  <2>3. ASSUME NEW w \in Coded(owner, code), Curates(c, [op |-> "update", widget |-> w]), UNCHANGED contested
        PROVE  UncontestedUnlessSaid'
    <3> DEFINE step == [op |-> "update", widget |-> w]
    <3>1. step.op \notin {"create", "rename"} OBVIOUS
    <3>2. Curates(c, step) BY <2>3
    <3> HIDE DEF step
    <3> QED BY <2>1, <2>3, <3>1, <3>2, <1>b
  <2> QED BY <1>1, <2>2, <2>3 DEF UpsertRead
<1>2. ASSUME NEW c \in Curator, NEW w \in Widget, NEW code \in WidgetCode, RenameRead(c, w, code)
      PROVE  UncontestedUnlessSaid'
  <2> DEFINE step == [op |-> "rename", widget |-> w, code |-> code]
             owner == widget[w].owner
  <2>1. /\ curator[c] = NotCurating /\ UNCHANGED widget /\ widget[w] # NoWidget
        /\ Curates(c, step) /\ Contest(owner, code, {w})
        /\ code # widget[w].code => Coded(owner, code) = {}
    BY <1>2 DEF RenameRead
  <2>2. step.op = "rename" /\ step.widget = w /\ step.code = code OBVIOUS
  <2> HIDE DEF step
  <2>3. /\ \A x \in Widget : \A k : Held(x, k)' <=> Held(x, k)
        /\ \A d \in Curator \ {c} : \A x, k :
             (Makes(d, k)' <=> Makes(d, k)) /\ (Gives(d, x, k)' <=> Gives(d, x, k))
        /\ \A k : ~Makes(c, k)'
        /\ \A x, k : Gives(c, x, k)' => owner = Platform /\ x = w /\ k = code
    BY <2>1, <2>2, CuratorMoves
  <2>4. ASSUME NEW k \in WidgetCode, k \notin contested' PROVE Uncontested(k)'
    <3>1. k \notin contested BY <2>1, <2>4 DEF Contest
    <3>2. Uncontested(k) BY <3>1 DEF UncontestedUnlessSaid
    <3>3. CASE ~(owner = Platform /\ k = code)
      <4>1. Calm(k) BY <2>3, <3>3 DEF Calm
      <4> QED BY <3>2, <4>1, CalmKeeps
    <3>4. CASE owner = Platform /\ k = code
      <4>1. \A d \in Curator : ~Claims(d, code, {w}) BY <2>1, <2>4, <3>4 DEF Contest
      <4>2. \A d \in Curator \ {c} : ~Makes(d, k)' /\ \A x : Gives(d, x, k)' => x = w
        BY <2>3, <3>4, <4>1 DEF Claims, Makes, Gives
      <4>3. \A x \in Widget : Held(x, k)' => x = w
        <5>1. CASE code # widget[w].code BY <2>1, <2>3, <3>4, <5>1 DEF Held, Coded
        <5>2. CASE code = widget[w].code
          <6>1. Held(w, k) BY <2>1, <3>4, <5>2 DEF Held
          <6> QED BY <2>3, <3>2, <6>1 DEF Uncontested
        <5> QED BY <5>1, <5>2
      <4> QED BY <2>3, <4>2, <4>3 DEF Uncontested
    <3> QED BY <3>3, <3>4
  <2> QED BY <2>4 DEF UncontestedUnlessSaid
<1>3. ASSUME NEW c \in Curator, NEW w \in Widget, CreateWidget(c, w) PROVE UncontestedUnlessSaid'
  <2> DEFINE owner == curator[c].owner
             code == curator[c].code
  <2>1. curator[c] # NotCurating /\ Curating(c, "create") /\ widget[w] = NoWidget /\ UNCHANGED contested
    BY <1>3 DEF CreateWidget, Curating
  <2>2. owner \in WidgetOwner /\ code \in WidgetCode BY <2>1 DEF WidgetInvariant, CuratorStep, Curating
  <2>3. PICK active \in BOOLEAN :
          widget' = [widget EXCEPT ![w] = [owner |-> owner, code |-> code, active |-> active]]
    BY <1>3 DEF CreateWidget
  <2> DEFINE row == [owner |-> owner, code |-> code, active |-> active]
  <2>4. row \in WidgetRow /\ row.owner = owner /\ row.code = code BY <2>2 DEF WidgetRow
  <2>5. widget' = [widget EXCEPT ![w] = row] /\ Curates(c, NotCurating) BY <1>3, <2>3 DEF CreateWidget
  <2> HIDE DEF row
  <2>6. /\ \A d \in Curator, x \in Widget : \A k : (Makes(d, k)' => d # c /\ Makes(d, k))
             /\ (Gives(d, x, k)' => d # c /\ Gives(d, x, k))
        /\ \A x \in Widget \ {w} : \A k : Held(x, k)' => Held(x, k)
        /\ \A k : Held(w, k)' => owner = Platform /\ code = k
    BY <2>1, <2>4, <2>5, CuratorWrites
  <2>7. owner = Platform => Makes(c, code) BY <2>1 DEF Makes
  <2> HIDE DEF owner, code
  <2>8. ASSUME NEW k \in WidgetCode, k \notin contested' PROVE Uncontested(k)'
    <3>1. Uncontested(k) BY <2>1, <2>8 DEF UncontestedUnlessSaid
    <3>2. CASE ~(owner = Platform /\ k = code)
      <4>1. Calm(k) BY <2>6, <3>2 DEF Calm
      <4> QED BY <3>1, <4>1, CalmKeeps
    <3>3. CASE owner = Platform /\ k = code
      <4>1. Makes(c, k) BY <2>7, <3>3
      <4>2. \A d \in Curator, x \in Widget : ~Makes(d, k)' /\ ~Gives(d, x, k)'
        BY <2>6, <3>1, <4>1 DEF Uncontested
      <4>3. \A x \in Widget : Held(x, k)' => x = w BY <2>6, <3>1, <4>1 DEF Uncontested
      <4> QED BY <4>2, <4>3 DEF Uncontested
    <3> QED BY <3>2, <3>3
  <2> QED BY <2>8 DEF UncontestedUnlessSaid
<1>4. ASSUME NEW c \in Curator, NEW w \in Widget, NEW code \in WidgetCode,
             widget[w] # NoWidget, WritesWidget(c, w, code),
             code = widget[w].code \/ (Curating(c, "rename") /\ curator[c].widget = w /\ curator[c].code = code)
      PROVE  UncontestedUnlessSaid'
  <2> DEFINE owner == widget[w].owner
  <2>1. owner \in WidgetOwner BY <1>4 DEF WidgetInvariant, WidgetRow
  <2>2. PICK active \in BOOLEAN :
          widget' = [widget EXCEPT ![w] = [owner |-> owner, code |-> code, active |-> active]]
    BY <1>4 DEF WritesWidget
  <2> DEFINE row == [owner |-> owner, code |-> code, active |-> active]
  <2>3. row \in WidgetRow /\ row.owner = owner /\ row.code = code BY <2>1 DEF WidgetRow
  <2>4. /\ widget' = [widget EXCEPT ![w] = row] /\ Curates(c, NotCurating) /\ UNCHANGED contested
    BY <1>4, <2>2 DEF WritesWidget
  <2> HIDE DEF row
  <2>5. /\ \A d \in Curator, x \in Widget : \A k : (Makes(d, k)' => Makes(d, k)) /\ (Gives(d, x, k)' => Gives(d, x, k))
        /\ \A x \in Widget \ {w} : \A k : Held(x, k)' => Held(x, k)
        /\ \A k : Held(w, k)' => owner = Platform /\ code = k
    BY <1>4, <2>3, <2>4, CuratorWrites
  <2>6. owner = Platform => Held(w, code) \/ Gives(c, w, code) BY <1>4 DEF Held, Gives
  <2> HIDE DEF owner
  <2>7. ASSUME NEW k \in WidgetCode, k \notin contested' PROVE Uncontested(k)'
    <3>1. Uncontested(k) BY <2>4, <2>7 DEF UncontestedUnlessSaid
    <3>2. CASE ~(owner = Platform /\ k = code) \/ Held(w, k)
      <4>1. Calm(k) BY <2>5, <3>2 DEF Calm
      <4> QED BY <3>1, <4>1, CalmKeeps
    <3>3. CASE Gives(c, w, k)
      <4>1. \A d \in Curator, x \in Widget : ~Makes(d, k)' /\ (Gives(d, x, k)' => x = w)
        BY <2>5, <3>1, <3>3 DEF Uncontested
      <4>2. \A x \in Widget : Held(x, k)' => x = w BY <2>5, <3>1, <3>3 DEF Uncontested
      <4> QED BY <4>1, <4>2 DEF Uncontested
    <3> QED BY <2>6, <3>2, <3>3
  <2> QED BY <2>7 DEF UncontestedUnlessSaid
<1>5. ASSUME NEW c \in Curator, UpdateWidget(c) PROVE UncontestedUnlessSaid'
  <2> DEFINE w == curator[c].widget
  <2>1. curator[c] # NotCurating /\ curator[c].op = "update" BY <1>5 DEF UpdateWidget, Curating
  <2>2. w \in Widget BY <2>1 DEF WidgetInvariant, CuratorStep
  <2>3. widget[w] # NoWidget BY <2>1 DEF WidgetInvariant, Grounded
  <2>4. widget[w].code \in WidgetCode BY <2>2, <2>3 DEF WidgetInvariant, WidgetRow
  <2> QED BY <2>2, <2>3, <2>4, <1>4, <1>5 DEF UpdateWidget
<1>6. ASSUME NEW c \in Curator, RenameWidget(c) PROVE UncontestedUnlessSaid'
  <2> DEFINE w == curator[c].widget
  <2>1. curator[c] # NotCurating /\ Curating(c, "rename") BY <1>6 DEF RenameWidget, Curating
  <2>2. w \in Widget /\ curator[c].code \in WidgetCode BY <2>1 DEF WidgetInvariant, CuratorStep, Curating
  <2>3. widget[w] # NoWidget BY <2>1 DEF WidgetInvariant, Grounded, Curating
  <2> QED BY <2>1, <2>2, <2>3, <1>4, <1>6 DEF RenameWidget
<1>7. ASSUME NEW c \in Curator, RefreshRead(c) PROVE UncontestedUnlessSaid'
  <2> DEFINE step == [op |-> "refresh", figure |-> figure, since |-> Len(snapshots)]
  <2>1. step.op \notin {"create", "rename"} OBVIOUS
  <2>2. Curates(c, step) /\ UNCHANGED <<widget, contested>> BY <1>7 DEF RefreshRead
  <2> HIDE DEF step
  <2> QED BY <2>1, <2>2, <1>b
<1>8. ASSUME NEW c \in Curator, NEW about \in Issue \cup Event, FindTenantStewards(c, about)
      PROVE  UncontestedUnlessSaid'
  <2> DEFINE step == [op |-> "alert", about |-> about, to |-> stewards]
  <2>1. step.op \notin {"create", "rename"} OBVIOUS
  <2>2. Curates(c, step) /\ UNCHANGED <<widget, contested>> BY <1>8 DEF FindTenantStewards
  <2> HIDE DEF step
  <2> QED BY <2>1, <2>2, <1>b
<1>9. ASSUME NEW c \in Curator, NEW w \in Widget, UpdateWidgetRead(c, w) PROVE UncontestedUnlessSaid'
  <2> DEFINE step == [op |-> "update", widget |-> w]
  <2>1. step.op \notin {"create", "rename"} OBVIOUS
  <2>2. Curates(c, step) /\ UNCHANGED <<widget, contested>> BY <1>9 DEF UpdateWidgetRead
  <2> HIDE DEF step
  <2> QED BY <2>1, <2>2, <1>b
<1>10. ASSUME NEW c \in Curator,
              RefreshCommit(c) \/ CuratorStops(c) \/ HandleDataQualityAction(c) \/ BroadcastOutboxMessage(c)
       PROVE  UncontestedUnlessSaid'
  <2>1. Curates(c, NotCurating) /\ UNCHANGED <<widget, contested>>
    BY <1>10 DEF RefreshCommit, CuratorStops, HandleDataQualityAction, BroadcastOutboxMessage, Alerts
  <2> QED BY <2>1, <1>b
<1>11. CASE UNCHANGED <<widget, curator, contested>>
  <2>1. \A code \in WidgetCode : Calm(code) BY <1>11 DEF Calm, Held, Makes, Gives, Curating
  <2> QED BY <1>11, <2>1, <1>a
<1> QED
  BY <1>1, <1>2, <1>3, <1>5, <1>6, <1>7, <1>8, <1>9, <1>10, <1>11
  DEF BoardNext, boardVars, FigureGrows, StewardsChange

----------------------------------------------------------------------------
\* Snapshots.

\* No figure that is being written is behind one that was there when it was read.
SnapshotInvariant ==
  /\ figure \in 0 .. MaxFigure /\ stewards \subseteq Steward
  /\ snapshots \in Seq(SnapshotRow) /\ Len(snapshots) <= MaxSnapshots
  /\ SnapshotsInOrder
  /\ \A k \in 1 .. Len(snapshots) : snapshots[k].figure <= figure /\ snapshots[k].since < k
  /\ \A c \in Curator : Curating(c, "refresh") =>
       /\ curator[c].figure <= figure /\ curator[c].since <= Len(snapshots)
       /\ \A k \in 1 .. curator[c].since : snapshots[k].figure <= curator[c].figure

LEMMA SnapshotInvariantStep ==
  ASSUME WidgetInvariant, SnapshotInvariant, BoardNext \/ UNCHANGED boardVars
  PROVE  SnapshotInvariant'
<1> USE PublicationsAssumption
<1>0. snapshots \in Seq(SnapshotRow) /\ Len(snapshots) \in Nat BY DEF SnapshotInvariant
<1>1. ASSUME NEW c \in Curator, RefreshCommit(c) PROVE SnapshotInvariant'
  <2>1. curator[c] # NotCurating /\ curator[c].op = "refresh" /\ Curating(c, "refresh")
    BY <1>1 DEF RefreshCommit, Curating
  <2>2. PICK new \in SnapshotRow : new = [figure |-> curator[c].figure, since |-> curator[c].since]
    <3>1. curator[c].figure \in 0 .. MaxFigure /\ curator[c].since \in 0 .. MaxSnapshots
      BY <2>1 DEF WidgetInvariant, CuratorStep
    <3> QED BY <3>1 DEF SnapshotRow
  <2>3. PICK n \in Nat : n = Len(snapshots) BY <1>0
  <2>4. /\ snapshots' = Append(snapshots, new) /\ Curates(c, NotCurating)
        /\ UNCHANGED <<figure, stewards>> /\ n < MaxSnapshots
    BY <1>1, <2>2, <2>3 DEF RefreshCommit
  <2>5. /\ new.figure \in Nat /\ new.since \in Nat /\ new.figure <= figure /\ new.since <= n
        /\ \A k \in 1 .. new.since : snapshots[k].figure <= new.figure
    BY <2>1, <2>2, <2>3 DEF SnapshotInvariant, SnapshotRow
  <2>6. \A d \in Curator : curator'[d] = IF d = c THEN NotCurating ELSE curator[d]
    BY <2>4 DEF WidgetInvariant, Curates
  <2>7. /\ snapshots' \in Seq(SnapshotRow) /\ Len(snapshots') = n + 1
        /\ \A k \in 1 .. n + 1 : snapshots'[k] = IF k = n + 1 THEN new ELSE snapshots[k]
    BY <1>0, <2>3, <2>4
  <2>8. \A k \in 1 .. n : snapshots'[k] = snapshots[k] BY <2>7
  <2>9. snapshots'[n + 1] = new BY <2>7
  <2>10. ASSUME NEW k \in 1 .. n + 1
         PROVE  /\ snapshots'[k].figure <= figure' /\ snapshots'[k].since < k
                /\ \A j \in 1 .. snapshots'[k].since : snapshots'[j].figure <= snapshots'[k].figure
    <3>1. CASE k = n + 1
      <4>1. snapshots'[k] = new BY <2>9, <3>1
      <4>2. new.since < k BY <2>5, <3>1
      <4>3. \A j \in 1 .. new.since : j \in 1 .. n BY <2>5
      <4>4. \A j \in 1 .. new.since : snapshots'[j].figure <= new.figure BY <2>5, <2>8, <4>3
      <4> QED BY <2>4, <2>5, <4>1, <4>2, <4>4
    <3>2. CASE k # n + 1
      <4>1. k \in 1 .. n BY <3>2
      <4>2. PICK row \in SnapshotRow : row = snapshots[k] BY <1>0, <2>3, <4>1
      <4>3. /\ row.figure <= figure /\ row.since < k /\ row.since \in Nat
            /\ \A j \in 1 .. row.since : snapshots[j].figure <= row.figure
        BY <2>3, <4>1, <4>2 DEF SnapshotInvariant, SnapshotsInOrder, SnapshotRow
      <4>4. snapshots'[k] = row BY <2>8, <4>1, <4>2
      <4>5. \A j \in 1 .. row.since : j \in 1 .. n BY <4>1, <4>3
      <4>6. \A j \in 1 .. row.since : snapshots'[j].figure <= row.figure BY <2>8, <4>3, <4>5
      <4> QED BY <2>4, <4>3, <4>4, <4>6
    <3> QED BY <3>1, <3>2
  <2>11. ASSUME NEW d \in Curator, Curating(d, "refresh")'
         PROVE  /\ curator'[d].figure <= figure' /\ curator'[d].since <= Len(snapshots')
                /\ \A k \in 1 .. curator'[d].since : snapshots'[k].figure <= curator'[d].figure
    <3>1. curator'[d] = curator[d] /\ Curating(d, "refresh") BY <2>6, <2>11 DEF Curating
    <3>2. PICK figured \in Nat, since \in Nat : figured = curator[d].figure /\ since = curator[d].since
      BY <3>1 DEF WidgetInvariant, CuratorStep, Curating
    <3>3. /\ figured <= figure /\ since <= n
          /\ \A k \in 1 .. since : snapshots[k].figure <= figured
      BY <2>3, <3>1, <3>2 DEF SnapshotInvariant
    <3>4. \A k \in 1 .. since : k \in 1 .. n BY <3>3
    <3>5. \A k \in 1 .. since : snapshots'[k].figure <= figured BY <2>8, <3>3, <3>4
    <3>6. since <= Len(snapshots') BY <2>7, <3>3
    <3> QED BY <2>4, <3>1, <3>2, <3>3, <3>5, <3>6
  <2>12. SnapshotsInOrder' BY <2>7, <2>10 DEF SnapshotsInOrder
  <2>13. Len(snapshots') <= MaxSnapshots BY <2>4, <2>7
  <2>14. \A k \in 1 .. Len(snapshots') : snapshots'[k].figure <= figure' /\ snapshots'[k].since < k
    BY <2>7, <2>10
  <2>15. figure' \in 0 .. MaxFigure /\ stewards' \subseteq Steward BY <2>4 DEF SnapshotInvariant
  <2> QED BY <2>7, <2>11, <2>12, <2>13, <2>14, <2>15 DEF SnapshotInvariant
<1>2. ASSUME NEW c \in Curator, RefreshRead(c) PROVE SnapshotInvariant'
  <2> DEFINE step == [op |-> "refresh", figure |-> figure, since |-> Len(snapshots)]
  <2>1. step.figure = figure /\ step.since = Len(snapshots) OBVIOUS
  <2>2. Curates(c, step) /\ UNCHANGED <<figure, snapshots, stewards>> BY <1>2 DEF RefreshRead
  <2> HIDE DEF step
  <2>3. \A d \in Curator : curator'[d] = IF d = c THEN step ELSE curator[d]
    BY <2>2 DEF WidgetInvariant, Curates
  <2>4. figure <= figure /\ Len(snapshots) <= Len(snapshots) BY <1>0 DEF SnapshotInvariant
  <2>5. \A k \in 1 .. Len(snapshots) : snapshots[k].figure <= figure BY DEF SnapshotInvariant
  <2>6. \A d \in Curator : Curating(d, "refresh")' =>
          /\ curator'[d].figure <= figure' /\ curator'[d].since <= Len(snapshots')
          /\ \A k \in 1 .. curator'[d].since : snapshots'[k].figure <= curator'[d].figure
    BY <2>1, <2>2, <2>3, <2>4, <2>5 DEF SnapshotInvariant, Curating
  <2> QED BY <2>2, <2>6 DEF SnapshotInvariant, SnapshotsInOrder
<1>3. ASSUME NEW c \in Curator, NEW step, step # NotCurating => step.op # "refresh", Curates(c, step),
             UNCHANGED <<figure, snapshots>>, stewards' \subseteq Steward
      PROVE  SnapshotInvariant'
  <2>1. \A d \in Curator : curator'[d] = IF d = c THEN step ELSE curator[d]
    BY <1>3 DEF WidgetInvariant, Curates
  <2> QED BY <2>1, <1>3 DEF SnapshotInvariant, SnapshotsInOrder, Curating
<1>4. CASE FigureGrows
  <2>1. figure' = figure + 1 /\ figure' \in 0 .. MaxFigure /\ UNCHANGED <<curator, snapshots, stewards>>
    BY <1>4 DEF FigureGrows, SnapshotInvariant
  <2>2. \A c \in Curator : Curating(c, "refresh") => curator[c].figure \in Int
    BY DEF WidgetInvariant, CuratorStep, Curating
  <2>3. \A k \in 1 .. Len(snapshots) : snapshots[k] \in SnapshotRow BY <1>0
  <2>4. \A k \in 1 .. Len(snapshots) : snapshots[k].figure \in Int BY <2>3 DEF SnapshotRow
  <2>5. \A k \in 1 .. Len(snapshots) : snapshots[k].figure <= figure'
    BY <2>1, <2>4 DEF SnapshotInvariant
  <2>6. \A c \in Curator : Curating(c, "refresh") => curator[c].figure <= figure'
    BY <2>1, <2>2 DEF SnapshotInvariant
  <2> QED BY <2>1, <2>5, <2>6 DEF SnapshotInvariant, SnapshotsInOrder, Curating
<1>5. ASSUME NEW s \in Steward, StewardsChange(s) PROVE SnapshotInvariant'
  BY <1>5 DEF StewardsChange, SnapshotInvariant, SnapshotsInOrder, Curating
<1>6. ASSUME NEW c \in Curator, NEW owner \in WidgetOwner, NEW code \in WidgetCode, UpsertRead(c, owner, code)
      PROVE  SnapshotInvariant'
  <2>1. UNCHANGED <<figure, snapshots, stewards>> BY <1>6 DEF UpsertRead
  <2>2. PICK step : Curates(c, step) /\ step.op # "refresh"
    <3>1. CASE Curates(c, [op |-> "create", owner |-> owner, code |-> code]) BY <3>1
    <3>2. ASSUME NEW w, Curates(c, [op |-> "update", widget |-> w])
          PROVE  \E step : Curates(c, step) /\ step.op # "refresh"
      BY <3>2
    <3> QED BY <3>1, <3>2, <1>6 DEF UpsertRead
  <2>3. stewards' \subseteq Steward BY <2>1 DEF SnapshotInvariant
  <2> QED BY <2>1, <2>2, <2>3, <1>3
<1>7. ASSUME NEW c \in Curator, NEW w \in Widget, NEW code \in WidgetCode,
             RenameRead(c, w, code)
      PROVE  SnapshotInvariant'
  <2>1. UNCHANGED <<figure, snapshots, stewards>> BY <1>7 DEF RenameRead
  <2>2. PICK step : Curates(c, step) /\ (step # NotCurating => step.op # "refresh")
    <3>1. CASE Curates(c, [op |-> "rename", widget |-> w, code |-> code]) BY <3>1
    <3> QED BY <3>1, <1>7 DEF RenameRead
  <2>3. stewards' \subseteq Steward BY <2>1 DEF SnapshotInvariant
  <2> QED BY <2>1, <2>2, <2>3, <1>3
<1>8. ASSUME NEW c \in Curator, NEW about \in Issue \cup Event,
             FindTenantStewards(c, about)
      PROVE  SnapshotInvariant'
  <2>1. UNCHANGED <<figure, snapshots, stewards>>
    BY <1>8 DEF FindTenantStewards
  <2>2. PICK step : Curates(c, step) /\ (step # NotCurating => step.op # "refresh")
    <3>1. CASE Curates(c, [op |-> "alert", about |-> about, to |-> stewards]) BY <3>1
    <3> QED BY <3>1, <1>8 DEF FindTenantStewards
  <2>3. stewards' \subseteq Steward BY <2>1 DEF SnapshotInvariant
  <2> QED BY <2>1, <2>2, <2>3, <1>3
<1>9. CASE UNCHANGED boardVars
  BY <1>9 DEF boardVars, SnapshotInvariant, SnapshotsInOrder, Curating
<1>10. ASSUME NEW c \in Curator,
              UpdateWidget(c) \/ RenameWidget(c) \/ CuratorStops(c)
              \/ HandleDataQualityAction(c) \/ BroadcastOutboxMessage(c)
       PROVE  SnapshotInvariant'
  <2>1. UNCHANGED <<figure, snapshots, stewards>> /\ Curates(c, NotCurating)
    BY <1>10 DEF UpdateWidget, RenameWidget, WritesWidget, CuratorStops,
                 HandleDataQualityAction, BroadcastOutboxMessage, Alerts
  <2>2. stewards' \subseteq Steward BY <2>1 DEF SnapshotInvariant
  <2> QED BY <2>1, <2>2, <1>3
<1>11. ASSUME NEW c \in Curator, NEW w \in Widget, CreateWidget(c, w) \/ UpdateWidgetRead(c, w)
       PROVE  SnapshotInvariant'
  <2>1. UNCHANGED <<figure, snapshots, stewards>> BY <1>11 DEF UpdateWidgetRead, CreateWidget
  <2>2. PICK step : Curates(c, step) /\ (step # NotCurating => step.op # "refresh")
    <3>1. CASE Curates(c, [op |-> "update", widget |-> w]) BY <3>1
    <3>3. CASE Curates(c, NotCurating) BY <3>3
    <3> QED BY <3>1, <3>3, <1>11 DEF UpdateWidgetRead, CreateWidget
  <2>3. stewards' \subseteq Steward BY <2>1 DEF SnapshotInvariant
  <2> QED BY <2>1, <2>2, <2>3, <1>3
<1> QED
  BY <1>1, <1>2, <1>4, <1>5, <1>6, <1>7, <1>8, <1>9, <1>10, <1>11 DEF BoardNext

LEMMA BoardInvariantHolds ==
  PublicationsSpec => [](WidgetInvariant /\ UncontestedUnlessSaid /\ SnapshotInvariant)
<1>1. PublicationsInit => WidgetInvariant /\ UncontestedUnlessSaid /\ SnapshotInvariant
  <2> SUFFICES ASSUME PublicationsInit PROVE WidgetInvariant /\ UncontestedUnlessSaid /\ SnapshotInvariant
    OBVIOUS
  <2> USE DEF PublicationsInit
  <2>1. WidgetInvariant BY DEF WidgetInvariant, CodesApart
  <2>2. UncontestedUnlessSaid BY DEF UncontestedUnlessSaid, Uncontested, Held, Makes, Gives, Curating
  <2>3. snapshots \in Seq(SnapshotRow) /\ Len(snapshots) = 0 OBVIOUS
  <2>4. SnapshotInvariant
    BY <2>3, PublicationsAssumption DEF SnapshotInvariant, SnapshotsInOrder, Curating
  <2> QED BY <2>1, <2>2, <2>4
<1>2. WidgetInvariant /\ UncontestedUnlessSaid /\ SnapshotInvariant /\ [PublicationsNext]_publicationVars
        => (WidgetInvariant /\ UncontestedUnlessSaid /\ SnapshotInvariant)'
  <2> SUFFICES ASSUME WidgetInvariant, UncontestedUnlessSaid, SnapshotInvariant,
                      [PublicationsNext]_publicationVars
               PROVE  WidgetInvariant' /\ UncontestedUnlessSaid' /\ SnapshotInvariant'
    OBVIOUS
  <2>1. BoardNext \/ UNCHANGED boardVars BY DEF PublicationsNext, publicationVars
  <2>2. figure \in 0 .. MaxFigure /\ stewards \subseteq Steward BY DEF SnapshotInvariant
  <2>3. Len(snapshots) \in 0 .. MaxSnapshots BY PublicationsAssumption DEF SnapshotInvariant
  <2> QED BY <2>1, <2>2, <2>3, WidgetInvariantStep, ContestStep, SnapshotInvariantStep
<1> QED BY <1>1, <1>2, PTL DEF PublicationsSpec

\* upsertWidget and updateWidget give no second widget of a tenant a code that
\* one has, and a second one of the platform's only a code that two of them at
\* once went to give, however many handlers overlap and break off.
THEOREM OneWidgetOfACodeHolds == PublicationsSpec => []OneWidgetOfACode
<1>1. WidgetInvariant /\ UncontestedUnlessSaid /\ SnapshotInvariant => OneWidgetOfACode
  <2> SUFFICES ASSUME WidgetInvariant, UncontestedUnlessSaid,
                      NEW w \in Widget, NEW x \in Widget,
                      w # x, widget[w] # NoWidget, widget[x] # NoWidget,
                      widget[w].owner = widget[x].owner, widget[w].code = widget[x].code
               PROVE  widget[w].owner = Platform /\ widget[w].code \in contested
    BY DEF OneWidgetOfACode
  <2>1. widget[w].owner = Platform BY DEF WidgetInvariant, CodesApart
  <2>2. widget[w].code \in WidgetCode BY DEF WidgetInvariant, WidgetRow
  <2>3. Held(w, widget[w].code) /\ Held(x, widget[w].code) BY <2>1 DEF Held
  <2> QED BY <2>1, <2>2, <2>3 DEF UncontestedUnlessSaid, Uncontested
<1> QED BY <1>1, BoardInvariantHolds, PTL

\* refreshAnalyticsSnapshot leaves no snapshot behind one that there was when its
\* figures were read, however refreshes overlap, fail and are repeated.
THEOREM SnapshotsStayInOrder == PublicationsSpec => []SnapshotsInOrder
<1>1. WidgetInvariant /\ UncontestedUnlessSaid /\ SnapshotInvariant => SnapshotsInOrder
  BY DEF SnapshotInvariant
<1> QED BY <1>1, BoardInvariantHolds, PTL

----------------------------------------------------------------------------
\* ScheduleRules: the overtime of a week.

\* The hours that some rows of shifts add up to.
TotalOf(rows, turns) == SumFunction([t \in turns |-> Worked(rows[t])])

LEMMA WorkedIsNat == ASSUME NEW row, row.start \in Int, row.end \in Int, row.pause \in Int PROVE Worked(row) \in Nat
BY DEF Worked, Above0

LEMMA TotalsAdd ==
  ASSUME NEW T, IsFiniteSet(T), NEW rows, \A t \in T : Worked(rows[t]) \in Nat
  PROVE  /\ TotalOf(rows, T) \in Nat
         /\ \A U \in SUBSET T : TotalOf(rows, U) \in Nat /\ TotalOf(rows, U) <= TotalOf(rows, T)
         /\ \A t \in T : TotalOf(rows, T) = Worked(rows[t]) + TotalOf(rows, T \ {t})
<1> DEFINE f == [t \in T |-> Worked(rows[t])]
<1>1. \A t \in T : f[t] \in Nat /\ f[t] = Worked(rows[t])
  OBVIOUS
<1>2. ASSUME NEW U \in SUBSET T PROVE TotalOf(rows, U) = SumFunctionOnSet(f, U)
  <2> DEFINE g == [t \in U |-> Worked(rows[t])]
  <2>1. TotalOf(rows, U) = SumFunctionOnSet(g, U)
    BY DEF TotalOf, SumFunction
  <2>2. IsFiniteSet(U) /\ \A t \in U : g[t] = f[t]
    BY FS_Subset
  <2> HIDE DEF f, g
  <2>3. U \in SUBSET U
    OBVIOUS
  <2>4. SumFunctionOnSet(g, U) = SumFunctionOnSet(f, U)
    BY <2>2, <2>3, SumSame
  <2> QED
    BY <2>1, <2>4
<1> HIDE DEF f
<1>3. \A U \in SUBSET T : SumFunctionOnSet(f, U) \in Int
  BY <1>1, SumIsInt
<1>4. ASSUME NEW V \in SUBSET T, NEW U \in SUBSET V PROVE SumFunctionOnSet(f, U) <= SumFunctionOnSet(f, V)
  <2>1. IsFiniteSet(V) /\ \A t \in V : f[t] \in Nat
    BY <1>1, FS_Subset
  <2> QED
    BY <2>1, SumOfPart
<1>5. \A U \in SUBSET T : 0 <= SumFunctionOnSet(f, U)
  BY <1>4, SumOfNothing
<1>6. \A t \in T : SumFunctionOnSet(f, T) = f[t] + SumFunctionOnSet(f, T \ {t})
  BY <1>1, SumWithout
<1>7. \A U \in SUBSET T : TotalOf(rows, U) \in Nat /\ TotalOf(rows, U) <= TotalOf(rows, T)
  BY <1>2, <1>3, <1>4, <1>5
<1>8. ASSUME NEW t \in T PROVE TotalOf(rows, T) = Worked(rows[t]) + TotalOf(rows, T \ {t})
  <2>1. TotalOf(rows, T) = SumFunctionOnSet(f, T) /\ TotalOf(rows, T \ {t}) = SumFunctionOnSet(f, T \ {t})
    BY <1>2
  <2> QED
    BY <1>1, <1>6, <2>1
<1> QED
  BY <1>7, <1>8

\* Some shift of every part of the week that is worked out by the same weekly
\* rules, the one worked out last, is given all that the part exceeds them by.
Weekly(rules) == rules.mode \in {"WEEKLY", "DAILY_AND_WEEKLY", "CUSTOM"}

LastCovers ==
  \A turns \in SUBSET LiveTurns, rules \in PolicyRules :
    /\ turns # {} /\ Weekly(rules)
    /\ \A t \in turns : turn[t].rules = rules /\ turn[t].eligible
    => \E t \in turns : HoursOf(turns) - rules.perWeek <= turn[t].overtime

TurnTypes ==
  /\ schedulePolicies \in Seq(SchedulePolicyRow)
  /\ shiftTemplate \in [ShiftTemplate -> [row : ShiftTemplateRow, duration : Nat, crosses : BOOLEAN] \cup {Unplanned}]
  /\ turn \in [Turn -> TurnRow \cup {Unplanned}]
  /\ \A t \in Turn : turn[t] # Unplanned => turn[t].policy \in DOMAIN schedulePolicies

LEMMA RowsWork ==
  ASSUME NEW row \in TurnRow
  PROVE  /\ row.start \in Nat /\ row.end \in Nat /\ row.pause \in Nat /\ Worked(row) \in Nat
         /\ row.overtime \in Nat /\ row.rules \in PolicyRules /\ row.rules.perWeek \in Nat
<1>1. row.start \in Nat /\ row.end \in Nat /\ row.pause \in Nat
  BY ScheduleRulesAssumption DEF TurnRow, WeekHour
<1>2. row.overtime \in Nat /\ row.rules \in PolicyRules
  BY DEF TurnRow
<1> QED
  BY <1>1, <1>2, WorkedIsNat DEF PolicyRules

\* What the overtime of a shift is worked out as.
LEMMA OvertimeOfOne ==
  ASSUME TurnTypes, NEW t \in Turn, NEW rules \in PolicyRules, NEW row, Worked(row) \in Nat
  PROVE  /\ CalculateOvertime(t, row, rules) \in Nat
         /\ Weekly(rules) => TotalOf(turn, LiveTurns \ {t}) + Worked(row) - rules.perWeek
                               <= CalculateOvertime(t, row, rules)
<1> DEFINE Others == LiveTurns \ {t}
           daily == Above0(Worked(row) - rules.perDay)
           weekly == Above0(HoursOf(OthersOfWeek(t, row)) + Worked(row) - rules.perWeek)
<1>1. IsFiniteSet(Others) /\ \A u \in Others : turn[u] \in TurnRow
  BY FS_Subset, ScheduleRulesAssumption DEF LiveTurns, TurnTypes
<1>2. TotalOf(turn, Others) \in Nat
  BY <1>1, RowsWork, TotalsAdd
<1>3. HoursOf(OthersOfWeek(t, row)) = TotalOf(turn, Others)
  BY DEF HoursOf, OthersOfWeek, TotalOf
<1>4. rules.perDay \in Nat /\ rules.perWeek \in Nat /\ rules.mode \in OvertimeMode
  BY DEF PolicyRules
<1> HIDE DEF Others
<1>5. /\ daily \in Nat /\ weekly \in Nat
      /\ TotalOf(turn, Others) + Worked(row) - rules.perWeek <= weekly
  BY <1>2, <1>3, <1>4 DEF Above0
<1> HIDE DEF daily, weekly
<1>6. Max({daily, weekly}) \in Nat /\ weekly <= Max({daily, weekly})
  <2>1. \E x \in {daily, weekly} : \A y \in {daily, weekly} : x >= y
    BY <1>5
  <2>2. Max({daily, weekly}) \in {daily, weekly} /\ \A y \in {daily, weekly} : Max({daily, weekly}) >= y
    BY <2>1 DEF Max
  <2> QED
    BY <1>5, <2>2
<1>7. CalculateOvertime(t, row, rules) =
        CASE rules.mode = "DISABLED" -> 0
          [] rules.mode = "DAILY" -> daily
          [] rules.mode = "WEEKLY" -> weekly
          [] OTHER -> Max({daily, weekly})
  BY DEF CalculateOvertime, daily, weekly
<1>8. /\ rules.mode = "DISABLED" => CalculateOvertime(t, row, rules) = 0
      /\ rules.mode = "DAILY" => CalculateOvertime(t, row, rules) = daily
      /\ rules.mode = "WEEKLY" => CalculateOvertime(t, row, rules) = weekly
      /\ rules.mode \in {"DAILY_AND_WEEKLY", "CUSTOM"} => CalculateOvertime(t, row, rules) = Max({daily, weekly})
  BY <1>7
<1> DEFINE most == Max({daily, weekly})
           given == CalculateOvertime(t, row, rules)
           excess == TotalOf(turn, Others) + Worked(row) - rules.perWeek
<1>9. excess \in Int
  BY <1>2, <1>4
<1>10. /\ daily \in Nat /\ weekly \in Nat /\ most \in Nat /\ weekly <= most
       /\ excess <= weekly
  BY <1>5, <1>6
<1>11. given \in {0, daily, weekly, most} /\ (Weekly(rules) => given \in {weekly, most})
  BY <1>4, <1>8 DEF OvertimeMode, Weekly
<1> HIDE DEF most, given, excess
<1>12. given \in Nat /\ (Weekly(rules) => excess <= given)
  BY <1>9, <1>10, <1>11
<1> QED
  BY <1>12 DEF given, excess, Others

\* A row written for a shift: typed, as asked, and covered if its rules are weekly.
TurnFits(t, row, p, rules, live) ==
  /\ row \in TurnRow /\ row.rules = rules /\ row.policy = p /\ row.live = live
  /\ row.eligible /\ Weekly(rules) =>
       TotalOf(turn, LiveTurns \ {t}) + Worked(row) - rules.perWeek <= row.overtime

LEMMA RowOfOne ==
  ASSUME TurnTypes, NEW t \in Turn, NEW s \in ShiftTemplate \cup {Unplanned}, NEW p \in Nat \ {0},
         s # Unplanned => shiftTemplate[s] # Unplanned,
         NEW rules \in PolicyRules, NEW start \in WeekHour, NEW end \in WeekHour, NEW pause \in Nat,
         NEW sent \in BreakInput \cup {Unplanned}, NEW live \in BOOLEAN
  PROVE  TurnFits(t, Planned(t, s, p, rules, start, end, sent, pause, live), p, rules, live)
<1> DEFINE break == CASE sent # Unplanned -> sent
                      [] sent = Unplanned /\ s # Unplanned -> shiftTemplate[s].row.pause
                      [] sent = Unplanned /\ s = Unplanned -> pause
           fits == s = Unplanned \/ shiftTemplate[s].row.eligible
           row0 == [shift |-> s, policy |-> p, start |-> start, end |-> end, pause |-> break, live |-> live,
                    eligible |-> fits, rules |-> rules, overtime |-> 0]
           row == Planned(t, s, p, rules, start, end, sent, pause, live)
           given == IF row0.eligible THEN CalculateOvertime(t, row0, rules) ELSE 0
<1>1. break \in Nat /\ fits \in BOOLEAN
  <2>3. sent # Unplanned => sent \in Nat
    BY ScheduleRulesAssumption
  <2>1. CASE s = Unplanned
    BY <2>1, <2>3
  <2>2. CASE s # Unplanned
    <3>1. shiftTemplate[s] \in [row : ShiftTemplateRow, duration : Nat, crosses : BOOLEAN]
      BY <2>2 DEF TurnTypes
    <3>2. shiftTemplate[s].row \in ShiftTemplateRow
      BY <3>1
    <3> QED
      BY <2>2, <2>3, <3>2 DEF ShiftTemplateRow
  <2> QED
    BY <2>1, <2>2
<1> HIDE DEF break, fits
<1>2. row0 \in TurnRow
  BY <1>1 DEF TurnRow
<1>3. row = [row0 EXCEPT !.overtime = given]
  BY DEF Planned, break, fits
<1>4. given \in Nat /\ (fits /\ Weekly(rules) => TotalOf(turn, LiveTurns \ {t}) + Worked(row0) - rules.perWeek <= given)
  <2>1. Worked(row0) \in Nat /\ row0.eligible = fits
    BY <1>2, RowsWork
  <2> HIDE DEF row0
  <2> QED
    BY <2>1, OvertimeOfOne
<1> HIDE DEF given
<1>5. /\ row \in TurnRow /\ row.rules = rules /\ row.policy = p /\ row.live = live /\ row.eligible = fits
      /\ row.overtime = given /\ row.start = row0.start /\ row.end = row0.end /\ row.pause = row0.pause
  BY <1>2, <1>3, <1>4 DEF TurnRow
<1>6. Worked(row) = Worked(row0)
  BY <1>5 DEF Worked
<1> HIDE DEF row, row0
<1> QED
  BY <1>4, <1>5, <1>6 DEF row, TurnFits

\* One shift comes, goes or is worked out again.
LEMMA CoverKept ==
  ASSUME TurnTypes, TurnTypes', LastCovers, NEW t \in Turn,
         \A u \in Turn \ {t} : turn'[u] = turn[u],
         turn'[t] # Unplanned /\ turn'[t].live /\ turn'[t].eligible /\ Weekly(turn'[t].rules) =>
           \/ turn'[t] = turn[t]
           \/ TotalOf(turn, LiveTurns \ {t}) + Worked(turn'[t]) - turn'[t].rules.perWeek <= turn'[t].overtime
  PROVE  LastCovers'
<1> SUFFICES ASSUME NEW turns \in SUBSET LiveTurns', NEW rules \in PolicyRules,
                    turns # {}, Weekly(rules),
                    \A u \in turns : turn'[u].rules = rules /\ turn'[u].eligible
             PROVE  \E u \in turns : TotalOf(turn', turns) - rules.perWeek <= turn'[u].overtime
  BY DEF LastCovers, HoursOf, TotalOf
<1>1. CASE t \in turns /\ turn'[t] # turn[t]
  <2>1. TotalOf(turn, LiveTurns \ {t}) + Worked(turn'[t]) - rules.perWeek <= turn'[t].overtime
    BY <1>1 DEF LiveTurns
  <2>2. turns \in SUBSET Turn /\ \A u \in turns : turn'[u] \in TurnRow
    BY DEF LiveTurns, TurnTypes
  <2>3. IsFiniteSet(turns) /\ \A u \in turns : Worked(turn'[u]) \in Nat
    BY <2>2, FS_Subset, RowsWork, ScheduleRulesAssumption
  <2>4. TotalOf(turn', turns) = Worked(turn'[t]) + TotalOf(turn', turns \ {t})
    BY <1>1, <2>3, TotalsAdd
  <2>5. TotalOf(turn', turns \ {t}) = TotalOf(turn, turns \ {t})
    <3>1. \A u \in turns \ {t} : turn'[u] = turn[u]
      BY <2>2
    <3>2. [u \in turns \ {t} |-> Worked(turn'[u])] = [u \in turns \ {t} |-> Worked(turn[u])]
      BY <3>1
    <3> QED
      BY <3>2 DEF TotalOf
  <2>6. turns \ {t} \in SUBSET (LiveTurns \ {t})
    BY <2>2 DEF LiveTurns
  <2>7. IsFiniteSet(LiveTurns \ {t}) /\ \A u \in LiveTurns \ {t} : Worked(turn[u]) \in Nat
    BY FS_Subset, RowsWork, ScheduleRulesAssumption DEF LiveTurns, TurnTypes
  <2>8. /\ TotalOf(turn, LiveTurns \ {t}) \in Nat /\ TotalOf(turn, turns \ {t}) \in Nat
        /\ TotalOf(turn, turns \ {t}) <= TotalOf(turn, LiveTurns \ {t})
    BY <2>6, <2>7, TotalsAdd
  <2>9. turn'[t].overtime \in Nat /\ rules.perWeek \in Nat /\ Worked(turn'[t]) \in Nat
    BY <1>1, <2>2, RowsWork
  <2> QED
    BY <1>1, <2>1, <2>4, <2>5, <2>8, <2>9
<1>2. CASE ~(t \in turns /\ turn'[t] # turn[t])
  <2>1. \A u \in turns : turn'[u] = turn[u]
    BY <1>2 DEF LiveTurns
  <2>2. turns \in SUBSET LiveTurns
    BY <2>1 DEF LiveTurns
  <2>3. PICK u \in turns : HoursOf(turns) - rules.perWeek <= turn[u].overtime
    BY <2>1, <2>2 DEF LastCovers
  <2>4. TotalOf(turn', turns) = HoursOf(turns)
    <3>1. [v \in turns |-> Worked(turn'[v])] = [v \in turns |-> Worked(turn[v])]
      BY <2>1
    <3> QED
      BY <3>1 DEF TotalOf, HoursOf
  <2> QED
    BY <2>1, <2>3, <2>4
<1> QED
  BY <1>1, <1>2

\* Policies are only added, and changed to policies.
LEMMA ArchivedTyped ==
  ASSUME TurnTypes, NEW status
  PROVE  /\ OthersArchived(status) \in Seq(SchedulePolicyRow)
         /\ DOMAIN OthersArchived(status) = DOMAIN schedulePolicies
<1>1. \A row \in SchedulePolicyRow : [row EXCEPT !.status = "ARCHIVED"] \in SchedulePolicyRow
  BY DEF SchedulePolicyRow
<1>2. schedulePolicies \in Seq(SchedulePolicyRow)
  BY DEF TurnTypes
<1>3. CASE status # "ACTIVE"
  BY <1>2, <1>3 DEF OthersArchived
<1>4. CASE status = "ACTIVE"
  <2>1. OthersArchived(status) = [p \in 1..Len(schedulePolicies) |->
          IF p \in ActiveSchedulePolicies THEN [schedulePolicies[p] EXCEPT !.status = "ARCHIVED"]
          ELSE schedulePolicies[p]]
    BY <1>2, <1>4 DEF OthersArchived
  <2>2. \A p \in 1..Len(schedulePolicies) : OthersArchived(status)[p] \in SchedulePolicyRow
    BY <1>1, <1>2, <2>1
  <2>3. Len(schedulePolicies) \in Nat /\ DOMAIN schedulePolicies = 1..Len(schedulePolicies)
    BY <1>2
  <2>4. OthersArchived(status) \in [1..Len(schedulePolicies) -> SchedulePolicyRow]
    BY <2>1, <2>2
  <2> QED
    BY <2>3, <2>4
<1> QED
  BY <1>3, <1>4

LEMMA EnsuredTyped ==
  ASSUME TurnTypes
  PROVE  /\ Ensured \in Seq(SchedulePolicyRow) /\ DOMAIN schedulePolicies \subseteq DOMAIN Ensured
<1>1. schedulePolicies \in Seq(SchedulePolicyRow)
  BY DEF TurnTypes
<1>2. DefaultPolicy \in SchedulePolicyRow
  BY DEF DefaultPolicy, SchedulePolicyRow, PolicyRules, OvertimeMode
<1> QED
  BY <1>1, <1>2 DEF Ensured

TurnsInv == TurnTypes /\ (TurnsStayCancelled => LastCovers)

LEMMA PolicyStep ==
  ASSUME TurnTypes, SchedulePolicyNext
  PROVE  TurnTypes' /\ UNCHANGED <<shiftTemplate, turn>>
<1>1. schedulePolicies \in Seq(SchedulePolicyRow)
  BY DEF TurnTypes
<1>2. ASSUME NEW rules \in ScheduleInput, NEW status \in {"DRAFT", "ACTIVE", "ARCHIVED"},
             CreateSchedulePolicy(rules, status)
      PROVE  TurnTypes' /\ UNCHANGED <<shiftTemplate, turn>>
  <2> DEFINE row == [status |-> status, rules |-> rules, default |-> FALSE]
  <2>1. row \in SchedulePolicyRow
    BY ScheduleRulesAssumption DEF SchedulePolicyRow
  <2>2. /\ OthersArchived(status) \in Seq(SchedulePolicyRow)
        /\ DOMAIN OthersArchived(status) = DOMAIN schedulePolicies
    BY ArchivedTyped
  <2>3. schedulePolicies' = Append(OthersArchived(status), row) /\ UNCHANGED <<shiftTemplate, turn>>
    BY <1>2 DEF CreateSchedulePolicy
  <2> HIDE DEF row
  <2>4. schedulePolicies' \in Seq(SchedulePolicyRow) /\ DOMAIN schedulePolicies \subseteq DOMAIN schedulePolicies'
    BY <2>1, <2>2, <2>3
  <2> QED
    BY <2>3, <2>4 DEF TurnTypes
<1>3. ASSUME NEW rules \in ScheduleInput, NEW status \in {"DRAFT", "ACTIVE", "ARCHIVED"},
             NEW p \in DOMAIN schedulePolicies, UpdateSchedulePolicy(p, rules, status)
      PROVE  TurnTypes' /\ UNCHANGED <<shiftTemplate, turn>>
  <2> DEFINE old == OthersArchived(status)
             row == [old[p] EXCEPT !.rules = rules, !.status = status]
  <2>1. old \in Seq(SchedulePolicyRow) /\ DOMAIN old = DOMAIN schedulePolicies
    BY ArchivedTyped
  <2> HIDE DEF old
  <2>2. row \in SchedulePolicyRow
    <3>1. old[p] \in SchedulePolicyRow
      BY <2>1
    <3>2. rules \in PolicyRules
      BY ScheduleRulesAssumption
    <3> QED
      BY <3>1, <3>2 DEF SchedulePolicyRow
  <2>3. schedulePolicies' = [old EXCEPT ![p] = row] /\ UNCHANGED <<shiftTemplate, turn>>
    BY <1>3, <2>1 DEF UpdateSchedulePolicy, old
  <2> HIDE DEF row
  <2>4. schedulePolicies' \in Seq(SchedulePolicyRow) /\ DOMAIN schedulePolicies = DOMAIN schedulePolicies'
    BY <2>1, <2>2, <2>3
  <2> QED
    BY <2>3, <2>4 DEF TurnTypes
<1>4. CASE EnsureActiveSchedulePolicy
  BY <1>4, EnsuredTyped DEF EnsureActiveSchedulePolicy, TurnTypes
<1> QED
  BY <1>2, <1>3, <1>4 DEF SchedulePolicyNext

\* The policy that a handler goes by is there afterwards.
LEMMA GoneByTyped ==
  ASSUME TurnTypes, NEW named \in {0} \cup DOMAIN schedulePolicies, NEW p, GoesBy(named, p)
  PROVE  /\ schedulePolicies' \in Seq(SchedulePolicyRow)
         /\ DOMAIN schedulePolicies \subseteq DOMAIN schedulePolicies'
         /\ p \in DOMAIN schedulePolicies' /\ p \in Nat \ {0}
         /\ schedulePolicies'[p].rules \in PolicyRules
<1>1. schedulePolicies \in Seq(SchedulePolicyRow)
  BY DEF TurnTypes
<1>2. /\ schedulePolicies' \in Seq(SchedulePolicyRow)
      /\ DOMAIN schedulePolicies \subseteq DOMAIN schedulePolicies'
      /\ p \in DOMAIN schedulePolicies'
  BY <1>1, EnsuredTyped DEF GoesBy
<1>3. schedulePolicies'[p] \in SchedulePolicyRow /\ p \in Nat \ {0}
  BY <1>2
<1> QED
  BY <1>2, <1>3 DEF SchedulePolicyRow

LEMMA TurnInvStart == ScheduleRulesInit => TurnsInv
BY DEF ScheduleRulesInit, TurnsInv, TurnTypes, LastCovers, LiveTurns

\* A row that is written for a shift.
LEMMA RowWritten ==
  ASSUME TurnsInv, NEW t \in Turn, NEW row \in TurnRow, turn' = [turn EXCEPT ![t] = row],
         UNCHANGED shiftTemplate, schedulePolicies' \in Seq(SchedulePolicyRow),
         DOMAIN schedulePolicies \subseteq DOMAIN schedulePolicies', row.policy \in DOMAIN schedulePolicies',
         TurnsStayCancelled /\ row.live /\ row.eligible /\ Weekly(row.rules) =>
           \/ row = turn[t]
           \/ TotalOf(turn, LiveTurns \ {t}) + Worked(row) - row.rules.perWeek <= row.overtime
  PROVE  TurnsInv'
<1>1. turn'[t] = row /\ \A u \in Turn \ {t} : turn'[u] = turn[u]
  BY DEF TurnsInv, TurnTypes
<1>2. TurnTypes'
  BY <1>1 DEF TurnsInv, TurnTypes
<1>3. ASSUME TurnsStayCancelled PROVE LastCovers'
  BY <1>1, <1>2, <1>3, CoverKept DEF TurnsInv
<1> QED
  BY <1>2, <1>3 DEF TurnsInv

LEMMA PlanKeeps ==
  ASSUME TurnsInv, NEW t \in Turn, NEW s \in ShiftTemplate \cup {Unplanned},
         NEW named \in {0} \cup DOMAIN schedulePolicies, NEW start \in WeekHour, NEW end \in WeekHour,
         NEW sent \in BreakInput \cup {Unplanned}, NEW planner, PlanTurn(t, s, named, start, end, sent, planner)
  PROVE  TurnsInv'
<1>1. PICK p \in 1..(Len(schedulePolicies) + 1) :
        /\ GoesBy(named, p)
        /\ turn' = [turn EXCEPT ![t] = Planned(t, s, p, schedulePolicies'[p].rules, start, end, sent, 0, TRUE)]
  BY DEF PlanTurn
<1>2. /\ schedulePolicies' \in Seq(SchedulePolicyRow)
      /\ DOMAIN schedulePolicies \subseteq DOMAIN schedulePolicies'
      /\ p \in DOMAIN schedulePolicies' /\ p \in Nat \ {0} /\ schedulePolicies'[p].rules \in PolicyRules
  BY <1>1, GoneByTyped DEF TurnsInv
<1> DEFINE rules == schedulePolicies'[p].rules
           row == Planned(t, s, p, rules, start, end, sent, 0, TRUE)
<1>3. TurnFits(t, row, p, rules, TRUE)
  <2>1. TurnTypes /\ (s # Unplanned => shiftTemplate[s] # Unplanned) /\ rules \in PolicyRules
    BY <1>2 DEF PlanTurn, TurnsInv
  <2>2. p \in Nat \ {0} /\ 0 \in Nat /\ TRUE \in BOOLEAN
    BY <1>2
  <2> HIDE DEF rules
  <2> QED
    BY <2>1, <2>2, RowOfOne
<1>4. UNCHANGED shiftTemplate
  BY DEF PlanTurn
<1>5. turn' = [turn EXCEPT ![t] = row]
  BY <1>1
<1> HIDE DEF row, rules
<1> QED
  BY <1>2, <1>3, <1>4, <1>5, RowWritten DEF TurnFits, rules

LEMMA UpdateKeeps ==
  ASSUME TurnsInv, NEW t \in Turn, NEW s \in ShiftTemplate \cup {Unplanned},
         NEW named \in {0} \cup DOMAIN schedulePolicies, NEW start \in WeekHour, NEW end \in WeekHour,
         NEW sent \in BreakInput \cup {Unplanned}, UpdateTurn(t, s, named, start, end, sent)
  PROVE  TurnsInv'
<1> DEFINE p == IF named # 0 THEN named ELSE turn[t].policy
           rules == schedulePolicies[p].rules
           row == Planned(t, s, p, rules, start, end, sent, turn[t].pause, turn[t].live)
<1>1. /\ turn[t] \in TurnRow /\ turn[t].policy \in DOMAIN schedulePolicies
      /\ schedulePolicies \in Seq(SchedulePolicyRow)
  BY DEF UpdateTurn, TurnsInv, TurnTypes
<1>2. p \in DOMAIN schedulePolicies
  BY <1>1
<1> HIDE DEF p
<1>3. p \in Nat \ {0} /\ schedulePolicies[p] \in SchedulePolicyRow
  BY <1>1, <1>2
<1>4. rules \in PolicyRules /\ turn[t].pause \in Nat /\ turn[t].live \in BOOLEAN
  BY <1>1, <1>3 DEF SchedulePolicyRow, TurnRow
<1>5. s # Unplanned => shiftTemplate[s] # Unplanned
  BY DEF UpdateTurn
<1>6. turn' = [turn EXCEPT ![t] = row] /\ UNCHANGED <<schedulePolicies, shiftTemplate>>
  BY DEF UpdateTurn, p
<1> HIDE DEF rules
<1>7. TurnFits(t, row, p, rules, turn[t].live)
  <2>1. TurnTypes
    BY DEF TurnsInv
  <2>2. \A pause \in Nat, live \in BOOLEAN :
          TurnFits(t, Planned(t, s, p, rules, start, end, sent, pause, live), p, rules, live)
    <3>1. p \in Nat \ {0} /\ rules \in PolicyRules
      BY <1>3, <1>4
    <3> HIDE DEF row
    <3>2. \A q \in Nat \ {0}, r \in PolicyRules, pause \in Nat, live \in BOOLEAN :
            TurnFits(t, Planned(t, s, q, r, start, end, sent, pause, live), q, r, live)
      BY <1>5, <2>1, RowOfOne
    <3> QED
      BY <3>1, <3>2
  <2> QED
    BY <1>4, <2>2
<1> HIDE DEF row
<1> QED
  BY <1>1, <1>2, <1>6, <1>7, RowWritten DEF TurnFits

LEMMA StatusKeeps ==
  ASSUME TurnsInv, NEW t \in Turn, NEW live \in BOOLEAN, UpdateTurnStatus(t, live)
  PROVE  TurnsInv'
<1> DEFINE row == [turn[t] EXCEPT !.live = live]
<1>1. /\ turn[t] \in TurnRow /\ turn[t].policy \in DOMAIN schedulePolicies
      /\ schedulePolicies \in Seq(SchedulePolicyRow)
  BY DEF UpdateTurnStatus, TurnsInv, TurnTypes
<1>2. row \in TurnRow /\ row.policy = turn[t].policy /\ row.live = live
  BY <1>1 DEF TurnRow
<1>3. turn[t].live = live => row = turn[t]
  BY <1>1 DEF TurnRow
<1>4. TurnsStayCancelled /\ live => turn[t].live = TRUE
  BY <1>1 DEF UpdateTurnStatus, TurnRow
<1>5. turn' = [turn EXCEPT ![t] = row] /\ UNCHANGED <<schedulePolicies, shiftTemplate>>
  BY <1>1 DEF UpdateTurnStatus, TurnsInv, TurnTypes
<1> HIDE DEF row
<1> QED
  BY <1>1, <1>2, <1>3, <1>4, <1>5, RowWritten

LEMMA ShiftKeeps ==
  ASSUME TurnsInv, NEW s \in ShiftTemplate, NEW row \in ShiftInput, PutShift(s, row)
  PROVE  TurnsInv'
<1> DEFINE put == [row |-> row, duration |-> Duration(row), crosses |-> Crosses(row)]
<1>1. row \in ShiftTemplateRow
  BY ScheduleRulesAssumption
<1>2. row.start \in Nat /\ row.end \in Nat /\ ClockLength \in Nat
  BY <1>1, ScheduleRulesAssumption DEF ShiftTemplateRow
<1>3. Duration(row) \in Nat /\ Crosses(row) \in BOOLEAN
  BY <1>2 DEF Duration, Crosses, PutShift
<1>4. put \in [row : ShiftTemplateRow, duration : Nat, crosses : BOOLEAN]
  BY <1>1, <1>3
<1>5. shiftTemplate' = [shiftTemplate EXCEPT ![s] = put] /\ UNCHANGED <<schedulePolicies, turn>>
  BY DEF PutShift
<1> HIDE DEF put
<1>6. TurnTypes'
  BY <1>4, <1>5 DEF TurnsInv, TurnTypes
<1>7. LastCovers => LastCovers'
  BY <1>5 DEF LastCovers, LiveTurns, HoursOf
<1> QED
  BY <1>6, <1>7 DEF TurnsInv

LEMMA TurnInvStep == TurnsInv /\ [ScheduleRulesNext]_scheduleRuleVars => TurnsInv'
<1> SUFFICES ASSUME TurnsInv, [ScheduleRulesNext]_scheduleRuleVars PROVE TurnsInv'
  OBVIOUS
<1>1. ASSUME UNCHANGED turn, TurnTypes' PROVE TurnsInv'
  <2>1. LastCovers => LastCovers'
    BY <1>1 DEF LastCovers, LiveTurns, HoursOf
  <2> QED
    BY <1>1, <2>1 DEF TurnsInv
<1>2. CASE SchedulePolicyNext
  BY <1>1, <1>2, PolicyStep DEF TurnsInv
<1>3. CASE TurnNext
  BY <1>3, ShiftKeeps, PlanKeeps, UpdateKeeps, StatusKeeps DEF TurnNext
<1>4. CASE OvertimeNext
  <2>1. ASSUME NEW o \in OvertimeAsk, NEW named \in {0} \cup DOMAIN schedulePolicies, RequestOvertime(o, named)
        PROVE  TurnTypes' /\ UNCHANGED turn
    <3>1. UNCHANGED <<shiftTemplate, turn>> /\ \E p : GoesBy(named, p)
      BY <2>1 DEF RequestOvertime
    <3>2. /\ schedulePolicies' \in Seq(SchedulePolicyRow)
          /\ DOMAIN schedulePolicies \subseteq DOMAIN schedulePolicies'
      BY <3>1, GoneByTyped DEF TurnsInv
    <3> QED
      BY <3>1, <3>2 DEF TurnsInv, TurnTypes
  <2>2. ASSUME NEW o \in OvertimeAsk, NEW status \in OvertimeStatus, DecideOvertime(o, status)
        PROVE  TurnTypes' /\ UNCHANGED turn
    BY <2>2 DEF DecideOvertime, TurnsInv, TurnTypes
  <2> QED
    BY <1>1, <1>4, <2>1, <2>2 DEF OvertimeNext
<1>5. CASE UNCHANGED scheduleRuleVars
  BY <1>1, <1>5 DEF scheduleRuleVars, TurnsInv, TurnTypes
<1> QED
  BY <1>2, <1>3, <1>4, <1>5 DEF ScheduleRulesNext

\* calculateOvertimeMinutes: if no cancelled shift is revived, the overtime of a
\* week that was worked out by the same weekly rules is at least what the week
\* exceeds them by, for any number of shifts, of any hours.
THEOREM WeekOvertimeAlwaysCovered ==
  ScheduleRulesSpec => [](TurnsStayCancelled => WeekOvertimeCovered)
<1>1. TurnsInv => (TurnsStayCancelled => WeekOvertimeCovered)
  <2> SUFFICES ASSUME TurnTypes, LastCovers,
                      NEW rules \in {turn[t].rules : t \in LiveTurns}, Weekly(rules),
                      \A t \in LiveTurns : turn[t].rules = rules /\ turn[t].eligible
               PROVE  HoursOf(LiveTurns) - rules.perWeek <= SumFunction([t \in LiveTurns |-> turn[t].overtime])
    BY DEF TurnsInv, WeekOvertimeCovered, Weekly
  <2> DEFINE f == [t \in LiveTurns |-> turn[t].overtime]
  <2>1. \A t \in LiveTurns : turn[t] \in TurnRow
    BY DEF LiveTurns, TurnTypes
  <2>2. LiveTurns # {} /\ rules \in PolicyRules
    BY <2>1, RowsWork
  <2>3. PICK t \in LiveTurns : HoursOf(LiveTurns) - rules.perWeek <= turn[t].overtime
    BY <2>2 DEF LastCovers
  <2>4. IsFiniteSet(LiveTurns) /\ \A u \in LiveTurns : f[u] \in Nat /\ Worked(turn[u]) \in Nat
    BY <2>1, RowsWork, FS_Subset, ScheduleRulesAssumption DEF LiveTurns
  <2>5. HoursOf(LiveTurns) \in Nat /\ rules.perWeek \in Nat
    BY <2>4, <2>2, TotalsAdd DEF HoursOf, TotalOf, PolicyRules
  <2>6. SumFunction(f) = SumFunctionOnSet(f, LiveTurns) /\ f[t] = turn[t].overtime
    BY DEF SumFunction
  <2> HIDE DEF f
  <2>7. SumFunctionOnSet(f, LiveTurns) = f[t] + SumFunctionOnSet(f, LiveTurns \ {t})
    BY <2>4, SumWithout
  <2>8. SumFunctionOnSet(f, LiveTurns \ {t}) \in Int
    BY <2>4, SumIsInt
  <2>9. SumFunctionOnSet(f, {}) <= SumFunctionOnSet(f, LiveTurns \ {t})
    <3>1. IsFiniteSet(LiveTurns \ {t}) /\ (\A u \in LiveTurns \ {t} : f[u] \in Nat)
      BY <2>4, FS_Subset
    <3> QED
      BY <3>1, SumOfPart
  <2> QED
    BY <2>3, <2>4, <2>5, <2>6, <2>7, <2>8, <2>9, SumOfNothing DEF f
<1> QED
  BY <1>1, TurnInvStart, TurnInvStep, PTL DEF ScheduleRulesSpec

----------------------------------------------------------------------------
\* AttendanceControls: problems are listed, windows are paid.

LEMMA HoursFit ==
  /\ Hour \subseteq Int /\ \A h \in Hour : 0 <= h /\ h <= LastHour
  /\ \A n \in Int : 0 <= n /\ n <= LastHour => n \in Hour
  /\ 0 \in Hour /\ 1 \in Hour /\ NoTime \in Int /\ NoTime = -1 /\ LastHour \in Nat
  /\ ShiftStart \in Hour /\ ShiftEnd \in Hour
BY ControlsAssumption DEF Hour, NoTime

LEMMA MetricsFit ==
  ASSUME NEW policy, NEW linked \in BOOLEAN, NEW in \in Hour \cup {NoTime}, NEW out \in Hour \cup {NoTime},
         NEW pause \in Hour
  PROVE  LET m == Metrics(policy, linked, in, out, pause) IN m.late \in Hour /\ m.early \in Hour /\ m.over \in Hour
<1> DEFINE actual == IF in # NoTime /\ out # NoTime THEN AtLeast0(out - in) ELSE 0
           threshold == IF "dailyOvertime" \in policy.setting THEN DailyHours
                        ELSE IF linked THEN ShiftEnd - ShiftStart ELSE actual
           m == Metrics(policy, linked, in, out, pause)
<1>1. m.late = (IF linked /\ in # NoTime THEN AtLeast0(AtLeast0(in - ShiftStart) - Grace(policy)) ELSE 0)
      /\ m.early = (IF linked /\ out # NoTime THEN AtLeast0(AtLeast0(ShiftEnd - out) - Grace(policy)) ELSE 0)
      /\ m.over = AtLeast0(AtLeast0(actual - pause) - threshold)
  BY DEF Metrics
<1>2. actual \in Hour /\ threshold \in Nat
  BY HoursFit, ControlsAssumption DEF AtLeast0
<1>3. Grace(policy) \in {0, 1}
  BY DEF Grace
<1> HIDE DEF actual, threshold, m
<1>4. m.over \in Hour
  BY <1>1, <1>2, HoursFit DEF AtLeast0
<1>5. m.late \in Hour
  BY <1>1, <1>3, HoursFit DEF AtLeast0
<1>6. m.early \in Hour
  BY <1>1, <1>3, HoursFit DEF AtLeast0
<1> QED BY <1>4, <1>5, <1>6 DEF m

----------------------------------------------------------------------------
(* Exceptions *)

Exceptions(f) == DOMAIN f \subseteq ExceptionKey /\ \A k \in DOMAIN f : f[k] \in ExceptionRow

\* upsertException: whatever row there was, its minutes are now these.
LEMMA UpsertFits ==
  ASSUME NEW f, Exceptions(f), NEW k \in ExceptionKey, NEW minutes \in Hour
  PROVE  /\ Exceptions(Upserted(f, k, minutes))
         /\ DOMAIN Upserted(f, k, minutes) = {k} \cup DOMAIN f
         /\ Upserted(f, k, minutes)[k].minutes = minutes
         /\ \A j \in DOMAIN f \ {k} : Upserted(f, k, minutes)[j] = f[j]
<1> DEFINE g == Upserted(f, k, minutes)
<1>1. g = [j \in {k} \cup DOMAIN f |->
             IF j # k THEN f[j]
             ELSE IF k \in DOMAIN f THEN [f[k] EXCEPT !.minutes = minutes]
             ELSE [status |-> "OPEN", minutes |-> minutes]]
  BY DEF Upserted
<1>2. k \in DOMAIN f => f[k] \in ExceptionRow
  BY DEF Exceptions
<1>3. g[k] \in ExceptionRow /\ g[k].minutes = minutes
  BY <1>1, <1>2 DEF ExceptionRow
<1>4. DOMAIN g = {k} \cup DOMAIN f /\ \A j \in DOMAIN f \ {k} : g[j] = f[j]
  BY <1>1
<1> HIDE DEF g
<1>6. Exceptions(g)
  BY <1>3, <1>4 DEF Exceptions
<1> QED
  BY <1>3, <1>4, <1>6 DEF g

KeysOf(r, row, kinds) == {ExceptionOf(r, row, kind) : kind \in kinds}

WrittenFor(g, f, r, row, kinds) ==
  /\ Exceptions(g) /\ DOMAIN g = KeysOf(r, row, kinds) \cup DOMAIN f
  /\ \A kind \in kinds : g[ExceptionOf(r, row, kind)].minutes = Minutes(row, kind)
  /\ \A j \in DOMAIN f \ KeysOf(r, row, kinds) : g[j] = f[j]

LEMMA UpsertAllFits ==
  ASSUME NEW f, Exceptions(f), NEW r \in DayRecord, NEW row \in TimeRow, NEW kinds \in SUBSET ExceptionKind,
         \A kind \in kinds : Minutes(row, kind) \in Hour
  PROVE  WrittenFor(UpsertedAll(f, r, row, kinds), f, r, row, kinds)
<1> DEFINE keys == KeysOf(r, row, kinds)
           g == UpsertedAll(f, r, row, kinds)
<1>1. g = [k \in keys \cup DOMAIN f |-> IF k \in keys THEN Upserted(f, k, Minutes(row, k.kind))[k] ELSE f[k]]
  BY DEF UpsertedAll, KeysOf
<1>2. \A kind \in kinds : ExceptionOf(r, row, kind) \in ExceptionKey /\ ExceptionOf(r, row, kind).kind = kind
  BY DEF ExceptionOf, ExceptionKey, TimeRow
<1>3. ASSUME NEW k \in keys
      PROVE  k \in ExceptionKey /\ g[k] \in ExceptionRow /\ g[k].minutes = Minutes(row, k.kind)
  <2>1. k \in ExceptionKey /\ k.kind \in kinds
    BY <1>2 DEF KeysOf
  <2>2. g[k] = Upserted(f, k, Minutes(row, k.kind))[k]
    BY <1>1
  <2>3. PICK minutes \in Hour : minutes = Minutes(row, k.kind)
    BY <2>1
  <2>4. k \in ExceptionKey
    BY <2>1
  <2> DEFINE u == Upserted(f, k, minutes)
  <2>5. Exceptions(u) /\ DOMAIN u = {k} \cup DOMAIN f /\ u[k].minutes = minutes
    BY <2>4, UpsertFits
  <2> HIDE DEF u
  <2>6. u[k] \in ExceptionRow /\ u[k].minutes = minutes
    BY <2>5 DEF Exceptions
  <2> QED
    BY <2>1, <2>2, <2>3, <2>6 DEF u
<1>4. \A k \in DOMAIN f \ keys : g[k] = f[k]
  BY <1>1
<1>5. DOMAIN g = keys \cup DOMAIN f
  BY <1>1
<1> HIDE DEF g
<1>7. Exceptions(g)
  BY <1>3, <1>4, <1>5 DEF Exceptions
<1>8. ASSUME NEW kind \in kinds PROVE g[ExceptionOf(r, row, kind)].minutes = Minutes(row, kind)
  BY <1>2, <1>3 DEF KeysOf
<1> QED
  BY <1>4, <1>5, <1>7, <1>8 DEF g, WrittenFor

----------------------------------------------------------------------------
(* Policies *)

\* Once the bound is reached the standard policy is among them, and no other is made.
RoomForStandard == Len(policies) = MaxPolicies + 1 => \E p \in DOMAIN policies : policies[p].standard

PoliciesFit == policies \in Seq(PolicyRow) /\ Len(policies) <= MaxPolicies + 1 /\ RoomForStandard

LEMMA PolicySettled ==
  ASSUME PoliciesFit
  PROVE  /\ PolicyInForce \subseteq 1..(MaxPolicies + 1)
         /\ PolicyInForce # {} => EnsureActivePolicy \in Seq(PolicyRow) /\ Len(EnsureActivePolicy) <= MaxPolicies + 1
                                  /\ (policies' = EnsureActivePolicy => RoomForStandard')
<1>1. Len(policies) \in Nat /\ DOMAIN policies = 1..Len(policies) /\ MaxPolicies \in Nat
      /\ Len(policies) <= MaxPolicies + 1
  BY ControlsAssumption DEF PoliciesFit
<1>2. CASE ActivePolicies # {}
  <2>1. ActivePolicies \subseteq 1..Len(policies) /\ IsFiniteSet(1..Len(policies))
    BY <1>1, FS_Interval DEF ActivePolicies
  <2>2. \E m \in ActivePolicies : \A n \in ActivePolicies : m >= n
    <3> DEFINE above == {Len(policies) - n : n \in ActivePolicies}
    <3>1. above \subseteq Nat /\ above # {}
      BY <1>1, <1>2, <2>1
    <3>2. PICK a \in above : \A b \in above : a <= b
      BY <3>1, LeastNat
    <3>3. PICK m \in ActivePolicies : a = Len(policies) - m
      BY <3>2
    <3>4. \A n \in ActivePolicies : Len(policies) - m <= Len(policies) - n
      BY <3>2, <3>3
    <3> QED
      BY <1>1, <2>1, <3>3, <3>4
  <2>3. Max(ActivePolicies) \in ActivePolicies
    BY <2>2 DEF Max
  <2>4. EnsureActivePolicy = policies
    BY <1>2 DEF EnsureActivePolicy
  <2>5. PolicyInForce = {Max(ActivePolicies)}
    BY <1>2 DEF PolicyInForce
  <2>8. PICK n \in Nat : n = Len(policies)
    BY <1>1
  <2>9. PICK m : m = Max(ActivePolicies)
    OBVIOUS
  <2>6. PolicyInForce \subseteq 1..(MaxPolicies + 1)
    <3>1. m \in 1..n /\ n <= MaxPolicies + 1 /\ MaxPolicies \in Nat
      BY <1>1, <2>1, <2>3, <2>8, <2>9
    <3>2. m \in 1..(MaxPolicies + 1)
      BY <3>1
    <3> QED
      BY <2>5, <2>9, <3>2
  <2>7. policies' = EnsureActivePolicy => RoomForStandard'
    BY <2>4 DEF PoliciesFit, RoomForStandard
  <2> QED
    BY <2>4, <2>6, <2>7 DEF PoliciesFit
<1>3. CASE ActivePolicies = {}
  <2>1. CASE \E p \in DOMAIN policies : policies[p].standard
    BY <1>3, <2>1 DEF PolicyInForce
  <2>2. CASE ~\E p \in DOMAIN policies : policies[p].standard
    <3>6. PolicyInForce = {Len(policies) + 1}
      BY <1>3, <2>2 DEF PolicyInForce
    <3>7. Len(policies) # MaxPolicies + 1
      BY <2>2 DEF PoliciesFit, RoomForStandard
    <3>8. PICK n \in Nat : n = Len(policies)
      BY <1>1
    <3>9. n <= MaxPolicies + 1 /\ n # MaxPolicies + 1 /\ MaxPolicies \in Nat
      BY <1>1, <3>7, <3>8
    <3>10. n <= MaxPolicies
      BY <3>9
    <3>1. PolicyInForce = {Len(policies) + 1} /\ Len(policies) <= MaxPolicies
      BY <3>6, <3>8, <3>10
    <3>2. StandardPolicy \in PolicyRow /\ StandardPolicy.standard
      BY DEF StandardPolicy, PolicyRow, PolicySetting
    <3>3. EnsureActivePolicy = Append(policies, StandardPolicy)
      BY <1>3 DEF EnsureActivePolicy
    <3> HIDE DEF StandardPolicy
    <3>4. EnsureActivePolicy \in Seq(PolicyRow) /\ Len(EnsureActivePolicy) = Len(policies) + 1
          /\ EnsureActivePolicy[Len(policies) + 1] = StandardPolicy
      BY <1>1, <3>2, <3>3 DEF PoliciesFit
    <3>5. policies' = EnsureActivePolicy => RoomForStandard'
      BY <1>1, <3>2, <3>4 DEF RoomForStandard
    <3> QED
      BY <1>1, <3>1, <3>4, <3>5
  <2> QED
    BY <2>1, <2>2
<1> QED
  BY <1>2, <1>3

ControlsInv == PoliciesFit /\ ControlsTypeOK /\ ProblemsListed

\* The rows and the exceptions after a record is written, and what its exceptions say.
DayFits == day \in [DayRecord -> TimeRow \cup {NotMade}] /\ Exceptions(exception)

Listed(f, r, row) ==
  \A kind \in Problems(row) :
    ExceptionOf(r, row, kind) \in DOMAIN f /\ f[ExceptionOf(r, row, kind)].minutes = Minutes(row, kind)

LEMMA ProblemsFit ==
  ASSUME NEW row \in TimeRow
  PROVE  /\ Problems(row) \subseteq {"LATE_ARRIVAL", "EARLY_DEPARTURE", "OVERTIME", "UNSCHEDULED_WORK"}
         /\ \A kind \in Problems(row) : Minutes(row, kind) \in Hour
         /\ Minutes(row, "OUTSIDE_GEOFENCE") = 0 /\ Minutes(row, "UNAPPROVED_LOCATION") = 0
BY HoursFit DEF Problems, Minutes, TimeRow, AtLeast0

\* A record is written whose exceptions are listed, or that is not marked so;
\* exceptions of other records, and those of its that are not problems, may change.
LEMMA RecordWritten ==
  ASSUME DayFits, ProblemsListed, NEW r \in DayRecord, NEW row \in TimeRow,
         day' = [day EXCEPT ![r] = row], Exceptions(exception)', row.synced => Listed(exception', r, row),
         \A k \in DOMAIN exception : k.about # r => k \in DOMAIN exception' /\ exception'[k] = exception[k]
  PROVE  DayFits' /\ ProblemsListed'
<1>1. DayFits'
  BY DEF DayFits
<1>2. ASSUME NEW q \in DayRecord, day'[q] # NotMade, day'[q].synced, NEW kind \in Problems(day'[q])
      PROVE  LET k == ExceptionOf(q, day'[q], kind)
             IN k \in DOMAIN exception' /\ exception'[k].minutes = Minutes(day'[q], kind)
  <2>1. CASE q = r
    BY <1>2, <2>1 DEF DayFits, Listed
  <2>2. CASE q # r
    <3>1. day'[q] = day[q]
      BY <2>2 DEF DayFits
    <3> DEFINE k == ExceptionOf(q, day[q], kind)
    <3>2. k \in DOMAIN exception /\ exception[k].minutes = Minutes(day[q], kind)
      BY <1>2, <3>1 DEF ProblemsListed
    <3>3. k.about = q
      BY DEF ExceptionOf
    <3> HIDE DEF k
    <3>4. k \in DOMAIN exception' /\ exception'[k] = exception[k]
      BY <2>2, <3>2, <3>3
    <3> QED
      BY <3>1, <3>2, <3>4 DEF k
  <2> QED
    BY <2>1, <2>2
<1>3. ProblemsListed'
  BY <1>2 DEF ProblemsListed
<1> QED
  BY <1>1, <1>3

\* syncRecordExceptions lists what is wrong and leaves other records alone.
LEMMA SyncLists ==
  ASSUME NEW f, Exceptions(f), NEW r \in DayRecord, NEW row \in TimeRow
  PROVE  /\ Exceptions(SyncRecordExceptions(f, r, row)) /\ Listed(SyncRecordExceptions(f, r, row), r, row)
         /\ \A k \in DOMAIN f : k.about # r => k \in DOMAIN SyncRecordExceptions(f, r, row)
                                              /\ SyncRecordExceptions(f, r, row)[k] = f[k]
<1> DEFINE kinds == Problems(row)
           g == UpsertedAll(f, r, row, kinds)
<1>1. SyncRecordExceptions(f, r, row) = g
  BY DEF SyncRecordExceptions
<1>2. kinds \in SUBSET ExceptionKind /\ \A kind \in kinds : Minutes(row, kind) \in Hour
  BY ProblemsFit DEF ExceptionKind
<1>3. \A k \in KeysOf(r, row, kinds) : k.about = r
  BY DEF KeysOf, ExceptionOf
<1> HIDE DEF kinds
<1>7. WrittenFor(g, f, r, row, kinds)
  BY <1>2, UpsertAllFits
<1> HIDE DEF g
<1>4. /\ Exceptions(g) /\ DOMAIN g = KeysOf(r, row, kinds) \cup DOMAIN f
      /\ \A kind \in kinds : g[ExceptionOf(r, row, kind)].minutes = Minutes(row, kind)
      /\ \A j \in DOMAIN f \ KeysOf(r, row, kinds) : g[j] = f[j]
  BY <1>7 DEF WrittenFor
<1>5. \A kind \in kinds : ExceptionOf(r, row, kind) \in KeysOf(r, row, kinds)
  BY DEF KeysOf
<1>6. Listed(g, r, row)
  BY <1>4, <1>5 DEF Listed, kinds
<1> QED
  BY <1>1, <1>3, <1>4, <1>6

\* So do the exceptions of the clock's controls, none of which is a problem.
LEMMA ControlsListed ==
  ASSUME NEW f, Exceptions(f), NEW r \in DayRecord, NEW row \in TimeRow,
         NEW kinds \in SUBSET {"OUTSIDE_GEOFENCE", "UNAPPROVED_LOCATION"}
  PROVE  /\ Exceptions(UpsertedAll(f, r, row, kinds))
         /\ Listed(f, r, row) => Listed(UpsertedAll(f, r, row, kinds), r, row)
         /\ \A k \in DOMAIN f : k.about # r => k \in DOMAIN UpsertedAll(f, r, row, kinds)
                                              /\ UpsertedAll(f, r, row, kinds)[k] = f[k]
<1> DEFINE g == UpsertedAll(f, r, row, kinds)
<1>1. kinds \in SUBSET ExceptionKind /\ \A kind \in kinds : Minutes(row, kind) \in Hour
  BY ProblemsFit, HoursFit DEF ExceptionKind
<1>2. \A k \in KeysOf(r, row, kinds) : k.about = r /\ k.kind \in kinds
  BY DEF KeysOf, ExceptionOf
<1>3. /\ Exceptions(g) /\ DOMAIN g = KeysOf(r, row, kinds) \cup DOMAIN f
      /\ \A j \in DOMAIN f \ KeysOf(r, row, kinds) : g[j] = f[j]
  BY <1>1, UpsertAllFits DEF WrittenFor
<1> HIDE DEF g
<1>4. \A kind \in Problems(row) : ExceptionOf(r, row, kind) \notin KeysOf(r, row, kinds)
  <2>1. \A kind : ExceptionOf(r, row, kind).kind = kind
    BY DEF ExceptionOf
  <2>2. \A kind \in Problems(row) : kind \notin kinds
    BY ProblemsFit
  <2> QED
    BY <1>2, <2>1, <2>2
<1>5. Listed(f, r, row) => Listed(g, r, row)
  BY <1>3, <1>4 DEF Listed
<1> QED
  BY <1>2, <1>3, <1>5 DEF g

----------------------------------------------------------------------------
(* Steps *)

RulesFit ==
  /\ fence \in [Fence -> FenceRow \cup {NotMade}] /\ device \in [Device -> DeviceRow \cup {NotMade}]
  /\ badge \in [Badge -> BadgeRow \cup {NotMade}] /\ holiday \in [Holiday -> HolidayRow \cup {NotMade}]
  /\ premiumRule \in [PremiumRule -> RuleRow \cup {NotMade}]

LEMMA ControlsInvParts == ControlsInv <=> PoliciesFit /\ RulesFit /\ DayFits /\ ProblemsListed
BY DEF ControlsInv, PoliciesFit, RulesFit, DayFits, ControlsTypeOK, Exceptions

LEMMA ControlsInvPartsThen == (ControlsInv <=> PoliciesFit /\ RulesFit /\ DayFits /\ ProblemsListed)'
BY DEF ControlsInv, PoliciesFit, RulesFit, DayFits, ControlsTypeOK, Exceptions

LEMMA AdminStep ==
  ASSUME ControlsInv, AdminNext
  PROVE  PoliciesFit' /\ RulesFit' /\ UNCHANGED <<day, exception>>
<1> USE ControlsInvParts, ControlsAssumption
<1>1. Len(policies) \in Nat /\ DOMAIN policies = 1..Len(policies) /\ MaxPolicies \in Nat
      /\ Len(policies) <= MaxPolicies + 1 /\ \A p \in DOMAIN policies : policies[p] \in PolicyRow
  BY DEF PoliciesFit
<1>2. ASSUME NEW setting \in PolicyInput, NEW status \in {"DRAFT", "ACTIVE", "ARCHIVED"}, CreatePolicy(setting, status)
      PROVE  PoliciesFit' /\ RulesFit' /\ UNCHANGED <<day, exception>>
  <2> DEFINE row == [status |-> status, setting |-> setting, standard |-> FALSE]
  <2>1. row \in PolicyRow
    BY DEF PolicyRow
  <2>2. policies' = Append(policies, row) /\ Len(policies) < MaxPolicies
    BY <1>2 DEF CreatePolicy
  <2> HIDE DEF row
  <2>3. policies' \in Seq(PolicyRow) /\ Len(policies') = Len(policies) + 1
    BY <2>1, <2>2 DEF PoliciesFit
  <2>6. PICK n \in Nat : n = Len(policies)
    BY <1>1
  <2>7. Len(policies') = n + 1 /\ n < MaxPolicies /\ MaxPolicies \in Nat
    BY <2>2, <2>3, <2>6
  <2>4. Len(policies') # MaxPolicies + 1 /\ Len(policies') <= MaxPolicies + 1
    BY <2>7
  <2>5. PoliciesFit'
    BY <2>3, <2>4 DEF PoliciesFit, RoomForStandard
  <2> QED
    BY <1>2, <2>5 DEF CreatePolicy, RulesFit
<1>3. ASSUME NEW p \in DOMAIN policies, policies' \in [DOMAIN policies -> PolicyRow],
             \A q \in DOMAIN policies : policies'[q].standard = policies[q].standard
      PROVE  PoliciesFit'
  <2>1. policies' \in Seq(PolicyRow) /\ Len(policies') = Len(policies) /\ DOMAIN policies' = DOMAIN policies
    <3>1. \E n \in Nat : policies' \in [1..n -> PolicyRow] /\ n = Len(policies)
      BY <1>1, <1>3
    <3> QED
      BY <1>1, <3>1
  <2>2. RoomForStandard'
    BY <1>3, <2>1 DEF PoliciesFit, RoomForStandard
  <2> QED
    BY <1>1, <2>1, <2>2 DEF PoliciesFit
<1>4. ASSUME NEW setting \in PolicyInput, NEW status \in {"DRAFT", "ACTIVE", "ARCHIVED"},
             NEW p \in DOMAIN policies, UpdatePolicy(p, setting, status)
      PROVE  PoliciesFit' /\ RulesFit' /\ UNCHANGED <<day, exception>>
  <2> DEFINE row == [policies[p] EXCEPT !.setting = setting, !.status = status]
  <2>1. setting \in SUBSET PolicySetting /\ policies[p] \in PolicyRow
    BY <1>1
  <2>3. row \in PolicyRow /\ row.standard = policies[p].standard
    BY <2>1 DEF PolicyRow
  <2>4. policies' = [policies EXCEPT ![p] = row]
    BY <1>4 DEF UpdatePolicy
  <2> HIDE DEF row
  <2>2. policies' \in [DOMAIN policies -> PolicyRow]
        /\ \A q \in DOMAIN policies : policies'[q].standard = policies[q].standard
    BY <1>1, <2>3, <2>4
  <2> QED
    BY <1>3, <1>4, <2>2 DEF UpdatePolicy, RulesFit
<1>5. ASSUME NEW p \in DOMAIN policies, ActivatePolicy(p)
      PROVE  PoliciesFit' /\ RulesFit' /\ UNCHANGED <<day, exception>>
  <2>1. policies' \in [DOMAIN policies -> PolicyRow]
        /\ \A q \in DOMAIN policies : policies'[q].standard = policies[q].standard
    BY <1>1, <1>5 DEF ActivatePolicy, PolicyRow
  <2> QED
    BY <1>3, <1>5, <2>1 DEF ActivatePolicy, RulesFit
<1>6. PoliciesFit /\ UNCHANGED policies => PoliciesFit'
  BY DEF PoliciesFit, RoomForStandard
<1>7. ASSUME NEW b \in Badge, NEW e \in Puncher, NEW status \in BadgeStatus, PutKioskCredential(b, e, status)
      PROVE  PoliciesFit' /\ RulesFit' /\ UNCHANGED <<day, exception>>
  <2>1. [status |-> status, holder |-> e, expired |-> FALSE] \in BadgeRow
    BY DEF BadgeRow
  <2> QED
    BY <1>6, <1>7, <2>1 DEF PutKioskCredential, RulesFit
<1>8. ASSUME NEW b \in Badge, CredentialExpires(b)
      PROVE  PoliciesFit' /\ RulesFit' /\ UNCHANGED <<day, exception>>
  <2>1. badge[b] \in BadgeRow
    BY <1>8 DEF CredentialExpires, RulesFit
  <2>2. [badge[b] EXCEPT !.expired = TRUE] \in BadgeRow
    BY <2>1 DEF BadgeRow
  <2> QED
    BY <1>6, <1>8, <2>2 DEF CredentialExpires, RulesFit
<1>9. ASSUME NEW f \in Fence, NEW row \in FenceInput, PutGeofence(f, row)
      PROVE  PoliciesFit' /\ RulesFit' /\ UNCHANGED <<day, exception>>
  BY <1>6, <1>9 DEF PutGeofence, RulesFit
<1>10. ASSUME NEW d \in Device, NEW row \in DeviceInput, PutClockDevice(d, row)
       PROVE  PoliciesFit' /\ RulesFit' /\ UNCHANGED <<day, exception>>
  BY <1>6, <1>10 DEF PutClockDevice, RulesFit
<1>11. ASSUME NEW h \in Holiday, NEW row \in HolidayInput, PutHoliday(h, row)
       PROVE  PoliciesFit' /\ RulesFit' /\ UNCHANGED <<day, exception>>
  BY <1>6, <1>11 DEF PutHoliday, RulesFit
<1>12. ASSUME NEW p \in PremiumRule, NEW row \in RuleInput, PutPremiumRule(p, row)
       PROVE  PoliciesFit' /\ RulesFit' /\ UNCHANGED <<day, exception>>
  BY <1>6, <1>12 DEF PutPremiumRule, RulesFit
<1> QED
  BY <1>2, <1>4, <1>5, <1>7, <1>8, <1>9, <1>10, <1>11, <1>12 DEF AdminNext

\* What a clock-in or a clock-out leaves.
LEMMA TimedFits ==
  ASSUME NEW row \in TimeRow, NEW policy, NEW in \in Hour \cup {NoTime}, NEW out \in Hour \cup {NoTime}
  PROVE  Timed(row, policy, in, out) \in TimeRow /\ Timed(row, policy, in, out).synced = (out # NoTime)
<1> DEFINE m == Metrics(policy, row.linked, in, out, row.pause)
<1>1. m.late \in Hour /\ m.early \in Hour /\ m.over \in Hour
  BY MetricsFit DEF TimeRow
<1>2. Timed(row, policy, in, out) =
        [row EXCEPT !.in = in, !.out = out, !.late = m.late, !.early = m.early, !.over = m.over, !.synced = (out # NoTime)]
  BY DEF Timed
<1> HIDE DEF m
<1> QED
  BY <1>1, <1>2 DEF TimeRow

LEMMA PunchStep ==
  ASSUME ControlsInv, NEW e \in Puncher, NEW r \in DayRecord, NEW source, NEW d, NEW at, NEW linked \in BOOLEAN,
         NEW t \in Hour, NEW clockingIn \in BOOLEAN, RecordPunch(e, r, source, d, at, linked, clockingIn, t)
  PROVE  ControlsInv'
<1> USE ControlsInvParts, ControlsInvPartsThen
<1>1. PICK p \in PolicyInForce :
        LET policy == EnsureActivePolicy[p]
            fences == GeofenceCandidates(d, linked)
            kept == IF day[r] = NotMade THEN NewDay(e, linked, p) ELSE day[r]
            row == IF clockingIn THEN Timed(kept, policy, t, NoTime) ELSE Timed(kept, policy, kept.in, t)
            listed == IF clockingIn THEN exception ELSE SyncRecordExceptions(exception, r, row)
        IN /\ \E outside \in IF fences = {} \/ at = NoSpot THEN {FALSE}
                             ELSE {Outside(f, at) : f \in Nearest(fences, at)} :
                exception' = UpsertedAll(listed, r, row, ControlProblems(policy, d, at, linked, outside))
           /\ day' = [day EXCEPT ![r] = row]
  BY Zenon DEF RecordPunch
<1> DEFINE policy == EnsureActivePolicy[p]
           kept == IF day[r] = NotMade THEN NewDay(e, linked, p) ELSE day[r]
           row == IF clockingIn THEN Timed(kept, policy, t, NoTime) ELSE Timed(kept, policy, kept.in, t)
           listed == IF clockingIn THEN exception ELSE SyncRecordExceptions(exception, r, row)
<1>2. PICK outside : exception' = UpsertedAll(listed, r, row, ControlProblems(policy, d, at, linked, outside))
  BY <1>1
<1>3. day' = [day EXCEPT ![r] = row]
  BY <1>1
<1>4. /\ policies' = EnsureActivePolicy /\ UNCHANGED <<fence, device, badge, holiday, premiumRule>>
  BY DEF RecordPunch
<1>5. PoliciesFit' /\ p \in 1..(MaxPolicies + 1)
  BY <1>4, PolicySettled DEF PoliciesFit
<1>6. kept \in TimeRow
  BY <1>5, HoursFit DEF NewDay, TimeRow, DayFits
<1>7. kept.in \in Hour \cup {NoTime} /\ t \in Hour \cup {NoTime}
  BY <1>6 DEF TimeRow
<1> HIDE DEF kept, policy
<1>8. row \in TimeRow /\ (clockingIn => ~row.synced)
  BY <1>6, <1>7, TimedFits
<1> HIDE DEF row
<1>9. /\ Exceptions(listed) /\ (row.synced => Listed(listed, r, row))
      /\ \A k \in DOMAIN exception : k.about # r => k \in DOMAIN listed /\ listed[k] = exception[k]
  <2>1. CASE clockingIn
    BY <1>8, <2>1 DEF DayFits
  <2>2. CASE ~clockingIn
    <3>1. listed = SyncRecordExceptions(exception, r, row) /\ Exceptions(exception)
      BY <2>2 DEF DayFits
    <3> QED
      BY <1>8, <3>1, SyncLists
  <2> QED
    BY <2>1, <2>2
<1> HIDE DEF listed
<1>10. PICK kinds \in SUBSET {"OUTSIDE_GEOFENCE", "UNAPPROVED_LOCATION"} :
         exception' = UpsertedAll(listed, r, row, kinds)
  BY <1>2 DEF ControlProblems
<1>11. /\ Exceptions(UpsertedAll(listed, r, row, kinds))
       /\ Listed(listed, r, row) => Listed(UpsertedAll(listed, r, row, kinds), r, row)
       /\ \A k \in DOMAIN listed : k.about # r => k \in DOMAIN UpsertedAll(listed, r, row, kinds)
                                            /\ UpsertedAll(listed, r, row, kinds)[k] = listed[k]
  BY <1>8, <1>9, ControlsListed
<1>12. Exceptions(exception)' /\ (row.synced => Listed(exception', r, row))
       /\ \A k \in DOMAIN exception : k.about # r => k \in DOMAIN exception' /\ exception'[k] = exception[k]
  BY <1>9, <1>10, <1>11 DEF Exceptions
<1>13. DayFits' /\ ProblemsListed'
  BY <1>3, <1>8, <1>12, RecordWritten
<1>14. RulesFit'
  BY <1>4 DEF RulesFit
<1> QED
  BY <1>5, <1>13, <1>14

\* What a manual record or a correction leaves.
LEMMA AdjustedStep ==
  ASSUME ControlsInv, NEW e \in Puncher, NEW r \in DayRecord, NEW p \in 1..(MaxPolicies + 1), NEW policy,
         NEW linked \in BOOLEAN, NEW in \in Hour \cup {NoTime}, NEW out \in Hour \cup {NoTime}, NEW pause \in 0..1,
         Adjusted(e, r, p, policy, linked, in, out, pause)
  PROVE  DayFits' /\ ProblemsListed' /\ RulesFit'
<1> USE ControlsInvParts, ControlsInvPartsThen
<1> DEFINE m == Metrics(policy, linked, in, out, pause)
           row == [employee |-> e, linked |-> linked, in |-> in, out |-> out, pause |-> pause,
                   late |-> m.late, early |-> m.early, over |-> m.over, policy |-> p, synced |-> TRUE]
<1>1. day' = [day EXCEPT ![r] = row] /\ exception' = SyncRecordExceptions(exception, r, row)
      /\ UNCHANGED <<fence, device, badge, holiday, premiumRule>>
  BY DEF Adjusted
<1>2. pause \in Hour
  BY HoursFit
<1>3. m.late \in Hour /\ m.early \in Hour /\ m.over \in Hour
  BY <1>2, MetricsFit
<1> HIDE DEF m
<1>4. row \in TimeRow
  BY <1>2, <1>3 DEF TimeRow
<1> HIDE DEF row
<1>5. /\ Exceptions(SyncRecordExceptions(exception, r, row)) /\ Listed(SyncRecordExceptions(exception, r, row), r, row)
      /\ \A k \in DOMAIN exception : k.about # r => k \in DOMAIN SyncRecordExceptions(exception, r, row)
                                           /\ SyncRecordExceptions(exception, r, row)[k] = exception[k]
  BY <1>4, SyncLists DEF DayFits
<1>6. Exceptions(exception)' /\ Listed(exception', r, row)
      /\ \A k \in DOMAIN exception : k.about # r => k \in DOMAIN exception' /\ exception'[k] = exception[k]
  BY <1>1, <1>5 DEF Exceptions
<1>7. DayFits' /\ ProblemsListed'
  BY <1>1, <1>4, <1>6, RecordWritten
<1> QED
  BY <1>1, <1>7 DEF RulesFit

LEMMA RecordStep == ASSUME ControlsInv, RecordNext PROVE ControlsInv'
<1> USE ControlsInvParts, ControlsInvPartsThen
<1>1. PoliciesFit /\ UNCHANGED policies => PoliciesFit'
  BY DEF PoliciesFit, RoomForStandard
<1>2. RulesFit /\ UNCHANGED ruleVars => RulesFit'
  BY DEF RulesFit, ruleVars
<1>3. ASSUME NEW e \in Puncher, NEW r \in DayRecord, NEW linked \in BOOLEAN, NEW in \in Hour \cup {NoTime},
             NEW out \in Hour \cup {NoTime}, NEW pause \in 0..1, ManualRecord(e, r, linked, in, out, pause)
      PROVE  ControlsInv'
  <2>1. PICK p \in PolicyInForce : Adjusted(e, r, p, EnsureActivePolicy[p], linked, in, out, pause)
    BY <1>3 DEF ManualRecord
  <2>2. policies' = EnsureActivePolicy
    BY <1>3 DEF ManualRecord
  <2>3. p \in 1..(MaxPolicies + 1) /\ PoliciesFit'
    BY <2>2, PolicySettled DEF PoliciesFit
  <2> QED
    BY <2>1, <2>3, AdjustedStep
<1>4. ASSUME NEW e \in Puncher, NEW r \in DayRecord, NEW linked \in BOOLEAN, NEW in \in Hour \cup {NoTime},
             NEW out \in Hour \cup {NoTime}, NEW pause \in 0..1, NEW p \in DOMAIN policies,
             ApplyCorrection(e, r, p, linked, in, out, pause)
      PROVE  ControlsInv'
  <2>1. Adjusted(e, r, p, policies[p], linked, in, out, pause) /\ UNCHANGED policies
    BY <1>4 DEF ApplyCorrection
  <2>2. Len(policies) \in Nat /\ DOMAIN policies = 1..Len(policies) /\ Len(policies) <= MaxPolicies + 1
    BY DEF PoliciesFit
  <2>3. p \in 1..(MaxPolicies + 1)
    BY <2>2, ControlsAssumption
  <2> QED
    BY <1>1, <2>1, <2>3, AdjustedStep
<1>5. ASSUME NEW r \in DayRecord, Relink(r) PROVE ControlsInv'
  <2> DEFINE m == Metrics(policies[day[r].policy], TRUE, day[r].in, day[r].out, day[r].pause)
             row == [day[r] EXCEPT !.linked = TRUE, !.late = m.late, !.early = m.early, !.over = m.over, !.synced = FALSE]
  <2>1. day' = [day EXCEPT ![r] = row] /\ UNCHANGED <<ruleVars, exception>> /\ day[r] # NotMade
    BY <1>5 DEF Relink
  <2>2. day[r] \in TimeRow
    BY <2>1 DEF DayFits
  <2>3. m.late \in Hour /\ m.early \in Hour /\ m.over \in Hour
    BY <2>2, MetricsFit DEF TimeRow
  <2> HIDE DEF m
  <2>4. row \in TimeRow /\ ~row.synced
    BY <2>2, <2>3 DEF TimeRow
  <2> HIDE DEF row
  <2>5. DayFits' /\ ProblemsListed'
    BY <2>1, <2>4, RecordWritten DEF DayFits, Exceptions
  <2> QED
    BY <1>1, <1>2, <2>1, <2>5 DEF ruleVars
<1>6. ASSUME NEW e \in Puncher, MissedClockIn(e) PROVE ControlsInv'
  <2> DEFINE k == [about |-> NotMade, employee |-> e, linked |-> TRUE, kind |-> "MISSED_CLOCK_IN"]
             f == Upserted(exception, k, 0)
  <2>1. exception' = f /\ UNCHANGED <<ruleVars, day>>
    BY <1>6 DEF MissedClockIn
  <2>2. k \in ExceptionKey /\ k.kind = "MISSED_CLOCK_IN"
    BY DEF ExceptionKey, ExceptionKind
  <2> HIDE DEF k
  <2>3. Exceptions(exception) /\ 0 \in Hour
    BY HoursFit DEF DayFits
  <2>4. Exceptions(f) /\ DOMAIN f = {k} \cup DOMAIN exception /\ \A j \in DOMAIN exception \ {k} : f[j] = exception[j]
    BY <2>2, <2>3, UpsertFits
  <2> HIDE DEF f
  <2>5. DayFits'
    BY <2>1, <2>4 DEF DayFits, Exceptions
  <2>6. ASSUME NEW r \in DayRecord, day[r] # NotMade, NEW kind \in Problems(day[r]) PROVE ExceptionOf(r, day[r], kind) # k
    <3>1. day[r] \in TimeRow
      BY <2>6 DEF DayFits
    <3>2. kind # "MISSED_CLOCK_IN" /\ ExceptionOf(r, day[r], kind).kind = kind
      BY <2>6, <3>1, ProblemsFit DEF ExceptionOf
    <3> QED
      BY <2>2, <3>2
  <2>7. ProblemsListed'
    BY <2>1, <2>4, <2>6 DEF ProblemsListed
  <2> QED
    BY <1>1, <1>2, <2>1, <2>5, <2>7 DEF ruleVars
<1>7. ASSUME NEW k \in DOMAIN exception, NEW status \in DecisionStatus, DecideException(k, status) PROVE ControlsInv'
  <2>1. exception' = [exception EXCEPT ![k].status = status] /\ UNCHANGED <<ruleVars, day>>
    BY <1>7 DEF DecideException
  <2>2. exception[k] \in ExceptionRow
    BY DEF DayFits, Exceptions
  <2>3. exception'[k] \in ExceptionRow /\ exception'[k].minutes = exception[k].minutes
    BY <2>1, <2>2 DEF ExceptionRow
  <2>4. DOMAIN exception' = DOMAIN exception /\ \A j \in DOMAIN exception \ {k} : exception'[j] = exception[j]
    BY <2>1
  <2>5. DayFits'
    BY <2>1, <2>3, <2>4 DEF DayFits, Exceptions
  <2>6. \A j \in DOMAIN exception : exception'[j].minutes = exception[j].minutes
    BY <2>3, <2>4
  <2>7. ProblemsListed'
    BY <2>1, <2>4, <2>6 DEF ProblemsListed
  <2> QED
    BY <1>1, <1>2, <2>1, <2>5, <2>7 DEF ruleVars
<1> QED
  BY <1>3, <1>4, <1>5, <1>6, <1>7 DEF RecordNext

LEMMA ControlsInvHolds == ControlsSpec => []ControlsInv
<1>1. ControlsInit => ControlsInv
  <2> SUFFICES ASSUME ControlsInit PROVE ControlsInv
    OBVIOUS
  <2>1. policies = <<>> /\ exception = <<>> /\ \A r \in DayRecord : day[r] = NotMade
    BY DEF ControlsInit
  <2>2. PoliciesFit
    BY <2>1, ControlsAssumption DEF PoliciesFit, RoomForStandard
  <2>3. DayFits /\ ProblemsListed
    BY <2>1 DEF ControlsInit, DayFits, Exceptions, ProblemsListed
  <2>4. RulesFit
    BY DEF ControlsInit, RulesFit
  <2> QED
    BY <2>2, <2>3, <2>4, ControlsInvParts
<1>2. ControlsInv /\ [ControlsNext]_controlVars => ControlsInv'
  <2> SUFFICES ASSUME ControlsInv, [ControlsNext]_controlVars PROVE ControlsInv'
    OBVIOUS
  <2>1. CASE AdminNext
    <3>1. PoliciesFit' /\ RulesFit' /\ UNCHANGED <<day, exception>>
      BY <2>1, AdminStep
    <3>2. DayFits' /\ ProblemsListed'
      BY <3>1, ControlsInvParts DEF DayFits, Exceptions, ProblemsListed
    <3> QED
      BY <3>1, <3>2, ControlsInvPartsThen
  <2>2. CASE PunchNext
    <3>1. PICK r \in DayRecord, d \in Device \cup {NoDevice, Unregistered}, at \in Spot \cup {NoSpot},
               linked \in BOOLEAN, t \in Hour :
            \/ \E e \in Puncher : Punches(e, r, "WEB", d, at, linked, t)
            \/ \E b \in Badge : KioskPunch(b, r, d, at, linked, t)
      BY <2>2 DEF PunchNext
    <3>2. PICK e \in Puncher, source \in {"WEB", "KIOSK"} : Punches(e, r, source, d, at, linked, t)
      <4>1. CASE \E e \in Puncher : Punches(e, r, "WEB", d, at, linked, t)
        BY <4>1
      <4>2. CASE \E b \in Badge : KioskPunch(b, r, d, at, linked, t)
        <5>1. PICK b \in Badge : badge[b] # NotMade /\ Punches(badge[b].holder, r, "KIOSK", d, at, linked, t)
          BY <4>2 DEF KioskPunch
        <5>2. badge[b].holder \in Puncher
          BY <5>1, ControlsInvParts DEF RulesFit, BadgeRow
        <5> QED
          BY <5>1, <5>2
      <4> QED
        BY <3>1, <4>1, <4>2
    <3>3. PICK clockingIn \in BOOLEAN : RecordPunch(e, r, source, d, at, linked, clockingIn, t)
      BY <3>2 DEF Punches
    <3> QED
      BY <3>3, PunchStep
  <2>3. CASE RecordNext
    BY <2>3, RecordStep
  <2>4. CASE UNCHANGED controlVars
    BY <2>4 DEF controlVars, ruleVars, ControlsInv, PoliciesFit, RoomForStandard, ControlsTypeOK, ProblemsListed
  <2> QED
    BY <2>1, <2>2, <2>3, <2>4 DEF ControlsNext
<1> QED
  BY <1>1, <1>2, PTL DEF ControlsSpec

\* syncRecordExceptions and upsertException: however punches, manual records,
\* corrections, reconciliations and decisions follow each other, what is wrong
\* with a record written last by one that lists is listed with its minutes.
THEOREM ProblemsAlwaysListed == ControlsSpec => []ProblemsListed
<1>1. ControlsInv => ProblemsListed
  BY DEF ControlsInv
<1> QED
  BY <1>1, ControlsInvHolds, PTL

----------------------------------------------------------------------------
(* Windows *)

\* The hours that a window that starts on a day shares with the work.
Share(in, out, from, to, d) ==
  LET start == d + from
      end == IF to > from THEN d + to ELSE d + DayLength + to
  IN AtLeast0(Min({out, end}) - Max({in, start}))

LEMMA OverlapAddsShares ==
  ASSUME NEW in, NEW out, NEW from, NEW to, IsFiniteSet(DaysAround(in, out))
  PROVE  WindowOverlap(in, out, from, to) =
           SumFunctionOnSet([d \in DaysAround(in, out) |-> Share(in, out, from, to, d)], DaysAround(in, out))
<1> DEFINE D == DaysAround(in, out)
           f == [d \in D |-> Share(in, out, from, to, d)]
           h == CHOOSE k : k = [s \in SUBSET D |-> IF s = {} THEN 0 ELSE
                                  Share(in, out, from, to, CHOOSE x \in s : TRUE) + k[s \ {CHOOSE x \in s : TRUE}]]
<1>1. WindowOverlap(in, out, from, to) = h[D]
  BY Zenon DEF WindowOverlap, Share, MapThenSumSet, MapThenFoldSet
<1>2. PICK g : Adds(g, f, D)
  BY AddsExists
<1> DEFINE Shares(k) == k = [s \in SUBSET D |-> IF s = {} THEN 0 ELSE
                               Share(in, out, from, to, CHOOSE x \in s : TRUE) + k[s \ {CHOOSE x \in s : TRUE}]]
<1>3. ASSUME NEW k PROVE Adds(k, f, D) <=> Shares(k)
  <2>1. \A s \in SUBSET D : s # {} => f[Taken(s)] = Share(in, out, from, to, CHOOSE x \in s : TRUE)
    BY TakenFrom DEF Taken
  <2> HIDE DEF f
  <2> QED
    BY <2>1 DEF Adds, Taken
<1>4. Adds(h, f, D)
  <2>1. h = CHOOSE k : Shares(k)
    BY Zenon
  <2> HIDE DEF f, D, Shares, h
  <2>2. Shares(g)
    BY <1>2, <1>3
  <2>3. Shares(h)
    BY <2>1, <2>2, Zenon
  <2> QED
    BY <1>3, <2>3
<1> HIDE DEF h, f
<1>5. SumFunctionOnSet(f, D) = h[D]
  BY <1>4, SumAdds
<1> QED
  BY <1>1, <1>5 DEF f

\* The hours worked in the window that starts on a day, and how many they are.
WorkedIn(in, out, from, to, d) ==
  {t \in in..(out - 1) : d + from <= t /\ t < (IF to > from THEN d + to ELSE d + DayLength + to)}

LEMMA ShareIsCount ==
  ASSUME NEW in \in Int, NEW out \in Int, NEW from \in Int, NEW to \in Int, NEW d \in Int
  PROVE  /\ IsFiniteSet(WorkedIn(in, out, from, to, d))
         /\ Cardinality(WorkedIn(in, out, from, to, d)) = Share(in, out, from, to, d)
<1>1. PICK start \in Int, end \in Int :
        start = d + from /\ end = (IF to > from THEN d + to ELSE d + DayLength + to)
  BY ControlsAssumption
<1>2. PICK a \in Int, b \in Int :
        a = (IF in >= start THEN in ELSE start) /\ b = (IF out <= end THEN out ELSE end)
  OBVIOUS
<1>3. WorkedIn(in, out, from, to, d) = a..(b - 1)
  BY <1>1, <1>2 DEF WorkedIn
<1>4. Share(in, out, from, to, d) = AtLeast0(b - a)
  <2>1. Share(in, out, from, to, d) = AtLeast0(Min({out, end}) - Max({in, start}))
    BY <1>1 DEF Share
  <2>2. Min({out, end}) = b /\ Max({in, start}) = a
    BY <1>2, LesserOfTwo, GreaterOfTwo
  <2> QED
    BY <2>1, <2>2
<1>5. IsFiniteSet(a..(b - 1)) /\ Cardinality(a..(b - 1)) = IF a > b - 1 THEN 0 ELSE (b - 1) - a + 1
  BY FS_Interval
<1> QED
  BY <1>3, <1>4, <1>5 DEF AtLeast0

\* timeWindowOverlapMinutes looks at every day from the one before the start to
\* that of the end.
LEMMA DaysAroundFit ==
  ASSUME NEW in \in Int, NEW out \in Int
  PROVE  /\ IsFiniteSet(DaysAround(in, out))
         /\ \A d \in DaysAround(in, out) : \E i \in Int : d = i * DayLength
         /\ \A i \in Int : in \div DayLength - 1 <= i /\ i <= out \div DayLength => i * DayLength \in DaysAround(in, out)
<1>1. DayLength \in Nat \ {0}
  BY ControlsAssumption
<1>2. PICK a \in Int, b \in Int : a = in \div DayLength /\ b = out \div DayLength
  BY <1>1, DivMod
<1>4. StartOfDay(in) = a * DayLength /\ StartOfDay(out) = b * DayLength
  BY <1>2 DEF StartOfDay
<1>5. (b * DayLength - a * DayLength) \div DayLength = b - a
  BY <1>1, DivOfMultiples
<1>6. DaysFromStart(in, out) = {a * DayLength + k * DayLength : k \in 0..(b - a + 2)}
  BY <1>4, <1>5 DEF DaysFromStart
<1>7. DaysAround(in, out) = DaysFromStart(in, out) \cup {a * DayLength - DayLength}
  BY <1>4 DEF DaysAround
<1>8. IsFiniteSet(DaysAround(in, out))
  <2>1. IsFiniteSet(0..(b - a + 2))
    BY FS_Interval
  <2>2. IsFiniteSet(DaysFromStart(in, out))
    <3> DEFINE D == {a * DayLength + k * DayLength : k \in 0..(b - a + 2)}
               f == [k \in 0..(b - a + 2) |-> a * DayLength + k * DayLength]
    <3>1. f \in Surjection(0..(b - a + 2), D)
      BY DEF Surjection
    <3> HIDE DEF D
    <3>2. IsFiniteSet(D)
      BY <2>1, <3>1, FS_Surjection
    <3> QED
      BY <1>6, <3>2 DEF D
  <2> QED
    BY <1>7, <2>2, FS_AddElement
<1>9. \A d \in DaysAround(in, out) : \E i \in Int : d = i * DayLength
  <2>1. ASSUME NEW k \in 0..(b - a + 2) PROVE a * DayLength + k * DayLength = (a + k) * DayLength
    BY <1>1
  <2>2. a * DayLength - DayLength = (a - 1) * DayLength
    BY <1>1
  <2> QED
    BY <1>6, <1>7, <2>1, <2>2
<1>10. ASSUME NEW i \in Int, a - 1 <= i, i <= b PROVE i * DayLength \in DaysAround(in, out)
  <2>1. CASE i = a - 1
    <3>1. (a - 1) * DayLength = a * DayLength - DayLength
      BY <1>1
    <3> QED
      BY <1>7, <2>1, <3>1
  <2>2. CASE i # a - 1
    <3>1. i - a \in 0..(b - a + 2)
      BY <1>10, <2>2
    <3>2. i * DayLength = a * DayLength + (i - a) * DayLength
      BY <1>1
    <3> QED
      BY <1>6, <1>7, <3>1, <3>2
  <2> QED
    BY <2>1, <2>2
<1> QED
  BY <1>2, <1>8, <1>9, <1>10

\* The windows that start on different days share no hour, and an hour is in one
\* of them just if it is in the window of its day.
LEMMA WindowsOfDays ==
  ASSUME NEW in \in Int, NEW out \in Int, NEW rule,
         rule.from \in 0..(DayLength - 1), rule.to \in 0..(DayLength - 1)
  PROVE  /\ \A d, e \in DaysAround(in, out) :
              d # e => WorkedIn(in, out, rule.from, rule.to, d) \cap WorkedIn(in, out, rule.from, rule.to, e) = {}
         /\ UNION {WorkedIn(in, out, rule.from, rule.to, d) : d \in DaysAround(in, out)}
              = {t \in in..(out - 1) : InWindow(rule, t)}
<1>1. DayLength \in Nat \ {0}
  BY ControlsAssumption
<1>2. PICK from \in Int, to \in Int : /\ from = rule.from /\ to = rule.to
                                      /\ 0 <= from /\ from < DayLength /\ 0 <= to /\ to < DayLength
  BY <1>1
<1>3. ASSUME NEW i \in Int, NEW j \in Int, i < j, NEW t \in WorkedIn(in, out, from, to, i * DayLength)
      PROVE  t \notin WorkedIn(in, out, from, to, j * DayLength)
  <2>1. PICK x \in Int, y \in Int : x = i * DayLength /\ y = j * DayLength
    BY <1>1
  <2>2. x + DayLength <= y
    BY <1>1, <1>3, <2>1, MultiplesApart
  <2>3. t \in Int /\ t < (IF to > from THEN x + to ELSE x + DayLength + to)
    BY <2>1 DEF WorkedIn
  <2>4. t < y + from
    BY <1>1, <1>2, <2>2, <2>3
  <2> QED
    BY <2>1, <2>3, <2>4, <1>2 DEF WorkedIn
<1>4. ASSUME NEW d \in DaysAround(in, out), NEW e \in DaysAround(in, out), d # e
      PROVE  WorkedIn(in, out, from, to, d) \cap WorkedIn(in, out, from, to, e) = {}
  <2>1. PICK i \in Int, j \in Int : d = i * DayLength /\ e = j * DayLength
    BY DaysAroundFit
  <2>2. i < j \/ j < i
    BY <1>4, <2>1
  <2> QED
    BY <1>3, <2>1, <2>2
<1>5. ASSUME NEW d \in DaysAround(in, out), NEW t \in WorkedIn(in, out, from, to, d) PROVE InWindow(rule, t)
  <2>1. PICK i \in Int : d = i * DayLength
    BY DaysAroundFit
  <2>2. PICK x \in Int : x = i * DayLength
    BY <1>1
  <2>3. t \in Int /\ x + from <= t /\ t < (IF to > from THEN x + to ELSE x + DayLength + to)
    BY <2>1, <2>2 DEF WorkedIn
  <2>4. CASE t - x < DayLength
    <3>1. PICK r \in Int : r = t - x /\ 0 <= r /\ r < DayLength /\ t = i * DayLength + r
      BY <1>2, <2>2, <2>3, <2>4
    <3>2. t % DayLength = r
      BY <1>1, <3>1, DivUnique
    <3>3. IF to > from THEN from <= r /\ r < to ELSE from <= r
      BY <1>2, <2>3, <3>1
    <3> QED
      BY <1>2, <3>2, <3>3 DEF InWindow
  <2>5. CASE ~(t - x < DayLength)
    <3>1. PICK r \in Int : r = t - x - DayLength
      BY <1>1, <2>3
    <3>2. 0 <= r /\ r < to /\ r < DayLength /\ ~(to > from)
      BY <1>1, <1>2, <2>3, <2>5, <3>1
    <3>3. PICK j \in Int : j = i + 1
      OBVIOUS
    <3>5. t = j * DayLength + r
      <4>1. j * DayLength = x + DayLength
        BY <1>1, <2>2, <3>3
      <4> QED
        BY <1>1, <2>3, <3>1, <4>1
    <3>4. t % DayLength = r
      BY <1>1, <3>2, <3>5, DivUnique
    <3> QED
      BY <1>2, <3>2, <3>4 DEF InWindow
  <2> QED
    BY <2>4, <2>5
<1>6. ASSUME NEW t \in in..(out - 1), InWindow(rule, t)
      PROVE  \E d \in DaysAround(in, out) : t \in WorkedIn(in, out, from, to, d)
  <2>1. PICK q \in Int, r \in Int : q = t \div DayLength /\ r = t % DayLength /\ 0 <= r /\ r < DayLength /\ t = q * DayLength + r
    BY <1>1, DivMod
  <2>2. PICK a \in Int, b \in Int : a = in \div DayLength /\ b = out \div DayLength
    BY <1>1, DivMod
  <2>9. t \in Int /\ in <= t /\ t <= out
    OBVIOUS
  <2>3. a <= q /\ q <= b
    BY <1>1, <2>1, <2>2, <2>9, DivMonotone
  <2>4. PICK x \in Int : x = q * DayLength
    BY <1>1
  <2>5. (q - 1) * DayLength = x - DayLength
    BY <1>1, <2>4
  <2>6. IF to > from THEN from <= r /\ r < to ELSE from <= r \/ r < to
    BY <1>2, <1>6, <2>1 DEF InWindow
  <2>7. CASE from <= r
    <3>1. q * DayLength \in DaysAround(in, out)
      BY <2>2, <2>3, DaysAroundFit
    <3>2. x + from <= t /\ t < (IF to > from THEN x + to ELSE x + DayLength + to)
      BY <1>1, <1>2, <2>1, <2>4, <2>6, <2>7
    <3> QED
      BY <2>4, <3>1, <3>2 DEF WorkedIn
  <2>8. CASE ~(from <= r)
    <3>1. (q - 1) * DayLength \in DaysAround(in, out)
      BY <2>2, <2>3, DaysAroundFit
    <3>2. ~(to > from) /\ (x - DayLength) + from <= t /\ t < (x - DayLength) + DayLength + to
      BY <1>1, <1>2, <2>1, <2>4, <2>6, <2>8
    <3> QED
      BY <2>5, <3>1, <3>2 DEF WorkedIn
  <2> QED
    BY <2>7, <2>8
<1>7. \A d \in DaysAround(in, out) : WorkedIn(in, out, from, to, d) \subseteq in..(out - 1)
  BY DEF WorkedIn
<1> QED
  BY <1>2, <1>4, <1>5, <1>6, <1>7

LEMMA WindowOverlapCounts ==
  ASSUME NEW in \in Int, NEW out \in Int, NEW rule,
         rule.from \in 0..(DayLength - 1), rule.to \in 0..(DayLength - 1)
  PROVE  WindowOverlap(in, out, rule.from, rule.to) = Cardinality({t \in in..(out - 1) : InWindow(rule, t)})
<1>1. rule.from \in Int /\ rule.to \in Int
  OBVIOUS
<1> DEFINE D == DaysAround(in, out)
           part == [d \in D |-> WorkedIn(in, out, rule.from, rule.to, d)]
           f == [d \in D |-> Share(in, out, rule.from, rule.to, d)]
<1>2. IsFiniteSet(D) /\ \A d \in D : d \in Int
  BY DaysAroundFit, ControlsAssumption
<1>3. \A d \in D : IsFiniteSet(part[d]) /\ Cardinality(part[d]) = Share(in, out, rule.from, rule.to, d)
  BY <1>1, <1>2, ShareIsCount
<1>4. \A d, e \in D : d # e => part[d] \cap part[e] = {}
  BY WindowsOfDays
<1>5. UNION {part[d] : d \in D} = {t \in in..(out - 1) : InWindow(rule, t)}
  <2>1. UNION {part[d] : d \in D} = UNION {WorkedIn(in, out, rule.from, rule.to, d) : d \in D}
    BY Zenon
  <2> QED
    BY <2>1, WindowsOfDays
<1>6. \A d \in D : IsFiniteSet(part[d]) /\ f[d] = Cardinality(part[d])
  BY <1>3
<1>7. WindowOverlap(in, out, rule.from, rule.to) = SumFunctionOnSet(f, D)
  BY <1>2, OverlapAddsShares
<1> HIDE DEF part, f, D
<1>8. SizesAddUp(part, f, D)
  BY <1>2, <1>4, <1>6, SizesAdd
<1> QED
  BY <1>5, <1>7, <1>8 DEF SizesAddUp

\* premiumRuleMinutes and timeWindowOverlapMinutes: a premium with a window pays
\* the hours worked inside it, over any number of midnights, for days of any
\* length.
THEOREM PremiumAlwaysPaysWindow == ControlsSpec => []PremiumPaysWindow
<1>1. ControlsInv => PremiumPaysWindow
  <2> SUFFICES ASSUME ControlsInv, NEW r \in DayRecord, NEW p \in PremiumRule,
                      day[r] # NotMade, day[r].in # NoTime, day[r].out # NoTime, premiumRule[p] # NotMade,
                      premiumRule[p].from # NoTime, premiumRule[p].to # NoTime
               PROVE  PremiumMinutes(premiumRule[p], day[r]) =
                        Min({Payable(day[r]), Cardinality({t \in day[r].in..(day[r].out - 1) : InWindow(premiumRule[p], t)})})
    BY DEF PremiumPaysWindow
  <2>1. day[r] \in TimeRow /\ premiumRule[p] \in RuleRow
    BY DEF ControlsInv, ControlsTypeOK
  <2>2. day[r].in \in Int /\ day[r].out \in Int
    BY <2>1, HoursFit DEF TimeRow
  <2>3. premiumRule[p].from \in 0..(DayLength - 1) /\ premiumRule[p].to \in 0..(DayLength - 1)
    BY <2>1 DEF RuleRow
  <2>4. WindowOverlap(day[r].in, day[r].out, premiumRule[p].from, premiumRule[p].to) =
          Cardinality({t \in day[r].in..(day[r].out - 1) : InWindow(premiumRule[p], t)})
    BY <2>2, <2>3, WindowOverlapCounts
  <2> QED
    BY <2>4 DEF PremiumMinutes
<1> QED
  BY <1>1, ControlsInvHolds, PTL
=============================================================================
