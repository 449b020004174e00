------------------------------- MODULE MCRecords -------------------------------
(***************************************************************************)
(* The records and rules that the processes of MCPeople and MCWorkTime go   *)
(* by: people and their accounts, roles, the organization, employment terms, *)
(* notifications, and the rules of leave, schedules and attendance.  Nothing *)
(* here reads what another module writes, so one focus of MCInit moves at a  *)
(* time and the states of the small instances add up.                        *)
(***************************************************************************)
EXTENDS PersonRecords, ExtendedProfile, Accounts, Access, EmploymentRecords,
        Notifications, Organization, AttendanceControls, LeaveRules, ScheduleRules,
        Tenants, HiringPipeline, Publications

CONSTANTS ua1, ua2, ua3, em1, em2, hm1, hm2, ep1, ep2, od1, fe1, un1, lv1, lv2, co1, tn1, sl1, pf1, dv1, se1, tu1

VARIABLE focus

officeVars == <<tenantVars, pipelineVars, publicationVars>>
peopleVars == <<personVars, profileVars, accountVars, accessVars, employmentRecordVars, notificationVars>>
ruleBookVars == <<structureVars, controlVars, leaveRuleVars, scheduleRuleVars>>
mcVars == <<focus, peopleVars, ruleBookVars, officeVars>>

----------------------------------------------------------------------------
\* Accounts: ua1 and ua3 share an address, ua3 is one of another tenant.
MCEmailOf(u) == IF u = ua2 THEN em2 ELSE em1
MCHumanOf(e) == IF e = ep1 THEN hm1 ELSE hm2

\* Roles: what one is given, or what the catalog is synchronised to.
MCTemplate(r) == Permission
Granting == focus = "grants" /\ AccessNext /\ UNCHANGED sync
Syncing == focus = "syncs" /\ AccessNext /\ UNCHANGED grant

\* Employment: terms and their changes, or relationships and designations.
ClerkStops == \E k \in RecordClerk : UpdateStops(k)
Contracting ==
  /\ focus = "terms"
  /\ TermNext \/ ClerkStops
  /\ \A t \in TermId : term'[t] # NoTerm => term'[t].status \in {"DRAFT", "ACTIVE", "SUPERSEDED"}
  /\ \A c \in ChangeId : change'[c] # NoChange =>
       change'[c].status \in {"DRAFT", "PENDING_APPROVAL", "APPROVED", "EFFECTIVE"}
TypesUsed == {"MANAGER", "DOTTED_LINE"}
Relating ==
  /\ focus = "relations"
  /\ RelationNext \/ ClerkStops
  /\ \A r \in RelationId : relation'[r] # NoRelation =>
       relation'[r].type \in TypesUsed /\ relation'[r].status \in {"ACTIVE", "ENDED"}
  /\ \A d \in DesignationId : designation'[d] # NoDesignation =>
       designation'[d].role = "MANAGER"
  /\ \A k \in RecordClerk : update'[k] # NoUpdate => update'[k].type \in TypesUsed

\* Notifications: the settings stand once a notice exists, and with nothing under
\* way dv1 is the one that begins; a single user is written to at se1, and of one
\* delivery its answer comes first; messages in the application may have it at both places.
Noticed == \E n \in Message : notice[n] # NoMessage
Notifying ==
  /\ focus = "notices" /\ NotificationsNext
  /\ Noticed => UNCHANGED <<template, preference>>
  /\ \A n \in Message : notice'[n] # NoMessage => notice'[n].channel \in {"EMAIL", "IN_APP"}
  /\ courier' # courier => (\A c \in Code : template[c] = "none") /\ (\A u \in Reader : preference[u] = {})
  /\ (\A d \in Courier : courier[d] = Waiting) => \A d \in Courier \ {dv1} : courier'[d] = Waiting
  /\ \A u \in Reader : preference'[u] \in {{}, {"EMAIL"}}
  /\ \A n \in Message : notice'[n] # NoMessage /\ notice'[n].channel = "EMAIL" =>
       \A s \in Seat \ {se1} : recipient'[n][s].user = NoReader
  /\ \A d \in Courier : courier[d] # Waiting /\ courier'[d] # Waiting =>
       \A s \in courier[d].candidates \ {se1} :
         se1 \in courier[d].candidates /\ courier[d].result[se1] = "unknown" => courier'[d].result[s] = "unknown"
  /\ \A n \in Message : recipient'[n][se1].user = NoReader => \A s \in Seat : recipient'[n][s].user = NoReader

\* Organization: the tree alone, its nodes in use, or skills.
Growing ==
  /\ focus = "tree" /\ UnitNext
  /\ \A n \in Node \ {od1} : node'[n] # Absent => node'[n].is # "inactive"
Using ==
  /\ focus = "uses"
  /\ UnitNext \/ PostNext \/ StintNext
  /\ \A n \in Node \ {od1} : node'[n] = Absent
  /\ node'[od1] # Absent => node'[od1].parent = Absent /\ node'[od1].is # "inactive"
  /\ \A c \in Center : center'[c] # Absent => center'[c].is # "inactive"
Skilling == focus = "skills" /\ (SkillNext \/ PostNext)

----------------------------------------------------------------------------
\* Attendance: the checks of a punch, the problems of a record, or premiums.
MCPolicyInput == {{}, {"requireKnownDevice", "requireGeofence"}, {"blockOutside", "noWeb", "lenient"}}
MCFenceInput == {[status |-> "ACTIVE", centre |-> 0, radius |-> 0, scope |-> "any"],
                 [status |-> "INACTIVE", centre |-> 1, radius |-> 1, scope |-> "shift"]}
MCDeviceInput == {[status |-> "ACTIVE", kiosk |-> TRUE, fence |-> fe1, holder |-> NotMade],
                  [status |-> "INACTIVE", kiosk |-> FALSE, fence |-> NotMade, holder |-> NotMade]}
MCRuleInput == [status : {"ACTIVE"}, from : 0..2, to : {NoTime, 0, 1, 2}, days : {{}, {0}}]
MCHolidayInput == [status : {"ACTIVE"}, paid : {TRUE}, day : {0}]

Recorded == \E r \in DayRecord : day[r] # NotMade
UsualHours(r) == day'[r].in \in {1, 2} /\ day'[r].out \in {NoTime, 2, 4}
Checking ==
  /\ focus = "checks"
  /\ (~Recorded /\ AdminNext) \/ PunchNext
  /\ UNCHANGED <<holiday, premiumRule>>
  /\ Recorded => UNCHANGED <<policies, fence, device, badge>>
  /\ \A b \in Badge : badge'[b] # NotMade => badge'[b].status # "INACTIVE"
  /\ \A r \in DayRecord : day'[r] # NotMade => UsualHours(r)
Listing ==
  /\ focus = "problems" /\ RecordNext
  /\ \A r \in DayRecord : day'[r] # NotMade => UsualHours(r) /\ day'[r].pause = 0
  /\ \A k \in DOMAIN exception' : exception'[k].status \in {"OPEN", "WAIVED"}
Paying ==
  /\ focus = "premiums" /\ ~Recorded
  /\ AdminNext \/ RecordNext
  /\ UNCHANGED <<fence, device, badge>>
  /\ policies' # policies => Recorded'
  /\ \A k \in DOMAIN exception' : exception'[k].status = "OPEN" /\ k.kind # "MISSED_CLOCK_IN"
  /\ \A r \in DayRecord : day'[r] # NotMade => ~day'[r].linked

----------------------------------------------------------------------------
\* Leave: the calendars, a request under one set of rules, or its coverage.
MCUnitOf == [c \in Colleague |-> un1]
MCLeavePolicyInput ==
  [kind : LeaveKind, status : {"ACTIVE"}, from : {NoDay, 0, 1}, to : {NoDay},
   least : {1}, most : {NoAmount}, approval : {FALSE}, workflow : {FALSE}]
  \cup [kind : LeaveKind, status : {"ACTIVE"}, from : {NoDay}, to : {0},
        least : {2}, most : {3}, approval : {TRUE}, workflow : {TRUE}]
MCCalendarInput ==
  {[status |-> "ACTIVE", default |-> m, workWeekdays |-> {0}, hours |-> 1, unit |-> u,
    special |-> [d \in LeaveDay |-> NotSet]] : m \in BOOLEAN, u \in {un1, AnyUnit}}
MCDayInput == {[type |-> "HOLIDAY", hours |-> NoAmount], [type |-> "SPECIAL_WORKDAY", hours |-> 2]}
MCBlackoutInput ==
  [status : {"ACTIVE"}, from : {0, 1}, to : {1, 2}, severity : {"BLOCK"}, kind : {AnyKind},
   calendar : {0}, unit : {AnyUnit}]
MCRouteInput ==
  [status : {"ACTIVE"}, priority : {1, 2}, kind : {AnyKind}, unit : {AnyUnit}, least : {0},
   most : {1}, workflow : BOOLEAN]
MCCoverageInput == [status : {"ACTIVE"}, unit : {un1}, weekdays : {{}, {1}}, minimum : {1, 2}, required : {2}]
MCAmount == {NoAmount}

AskedFor == \E a \in AskedLeave : leaveAsked[a] # NotSet
Blackouts == {b \in Blackout : blackout'[b] # NotSet}
Routes == {r \in Route : route'[r] # NotSet}
Dating == focus = "calendars" /\ CalendarNext
Asking ==
  /\ focus = "asking"
  /\ \/ /\ ~AskedFor /\ LeaveRulesNext /\ UNCHANGED coverageRule
        /\ \A c \in DOMAIN calendars' : \A d \in LeaveDay : calendars'[c].special[d] = NotSet
        /\ Len(calendars') < 2
        /\ \A c \in DOMAIN calendars' : calendars'[c].unit = AnyUnit
        /\ Len(leavePolicies') + Cardinality(Blackouts) + Cardinality(Routes) < 3
        /\ leaveAsked'[lv2] = NotSet
        /\ leaveAsked'[lv1] # NotSet => leaveAsked'[lv1].employee = co1 /\ leaveAsked'[lv1].from < 2
     \/ AskedFor /\ \E status \in {"APPROVED", "CANCELLED"} : SettleLeave(lv1, status)
Covering ==
  /\ focus = "coverage"
  /\ RuleNext \/ AskNext
  /\ UNCHANGED <<leavePolicies, calendars, blackout, route, today>>
  /\ AskedFor => UNCHANGED <<leaveType, coverageRule>>
  /\ leaveAsked'[lv2] # NotSet => leaveAsked'[lv1] # NotSet /\ leaveAsked'[lv2].employee = co1
  /\ \A k \in LeaveKind : leaveType'[k] # NotSet => ~leaveType'[k].documented
  /\ \A a \in AskedLeave : leaveAsked'[a] # NotSet => leaveAsked'[a].status \in {"PENDING_APPROVAL", "APPROVED"}

----------------------------------------------------------------------------
\* Schedules: the rules with overtime asked for, or the overtime of turns, of
\* which tu1 may be moved, before or after the other is planned.
MCScheduleInput ==
  {[mode |-> "WEEKLY", perDay |-> 1, perWeek |-> 1, asks |-> FALSE, byManager |-> FALSE, byHr |-> TRUE],
   [mode |-> "DAILY", perDay |-> 1, perWeek |-> 3, asks |-> TRUE, byManager |-> TRUE, byHr |-> FALSE]}
MCShiftInput == {[start |-> 1, end |-> 1, pause |-> 1, eligible |-> TRUE],
                 [start |-> 0, end |-> 1, pause |-> 0, eligible |-> FALSE]}
Ruling == focus = "rules" /\ (SchedulePolicyNext \/ OvertimeNext)
Turning ==
  /\ focus = "overtime"
  /\ TurnNext \/ SchedulePolicyNext
  /\ schedulePolicies' # schedulePolicies =>
       /\ Len(schedulePolicies') = 1
       /\ schedulePolicies'[1].status = "ACTIVE" /\ ~schedulePolicies'[1].default
  /\ (\E t \in Turn : turn[t] # Unplanned) => UNCHANGED shiftTemplate
  /\ \A t \in Turn \ {tu1} : turn[t] # Unplanned /\ turn'[t] # turn[t] => ~turn'[t].live

----------------------------------------------------------------------------
\* Tenants: two are provisioned, or one counts its employees.
MCPrefixOf(s) == pf1
MCFormat(p, k) == <<p, k>>
MCEmployeeNumber == Prefix \X (1 .. MaxSequence)
Provisioning ==
  /\ focus = "provisioning"
  /\ TenantsNext /\ UNCHANGED <<numbering, numbers>>
  /\ \A t \in TenantId : Provisioned(t)' =>
       /\ tenant'[t].status \in {"TRIAL", "SUSPENDED"} /\ subscription'[t] = "TRIAL"
       /\ t # tn1 => /\ tenant'[t].status = "TRIAL" /\ admin'[t] = "ACTIVE"
                     /\ ~\E f \in Feature : <<t, f>> \in switched'
  /\ switched' # switched => provisioner = [h \in Provisioner |-> NoProvision]
  /\ switched # {} => tenant' = tenant
Numbering ==
  /\ focus = "numbering"
  /\ TenantsNext /\ UNCHANGED <<platformFeature, tenantFeature, mail>>
  /\ \A t \in TenantId \ {tn1} : ~Provisioned(t)'
  /\ Provisioned(tn1)' => tenant'[tn1].slug = sl1 /\ tenant'[tn1].status = "TRIAL" /\ admin'[tn1] = "ACTIVE"

\* Applications: one, moved to stages of some types, by overlapping handlers.
MovesThrough == {"HIRED", "CUSTOM"}
Piping ==
  /\ focus = "pipeline" /\ PipelineNext
  /\ \A c \in Applicant : applicant'[c] \in {"NONE", "ACTIVE", "HIRED"} /\ talent'[c] \in {"NONE", "ACTIVE"}
  /\ \A a \in Application : Applied(a)' => application'[a].status \in MovesThrough \cup {"APPLIED", "INTERVIEW"}
  /\ \A i \in Meeting : meeting'[i] # NoMeeting =>
       meeting'[i].place \in {NoStage, 3} /\ Cardinality({m \in Mover : Busy(m)'}) < 2
  /\ (\E a \in Application : Applied(a)') => talent' = [c \in Applicant |-> "NONE"]
  /\ \A m \in Mover : mover'[m] # NoMove =>
       /\ mover'[m].op \in {"find", "measure", "create"} => mover'[m].type \in MovesThrough
       /\ mover'[m].op = "move" => stage'[mover'[m].application[2]][mover'[m].place] \in MovesThrough

\* Guides, widgets and what else the dashboard does, each with the rest at rest.
Guiding ==
  /\ focus = "guides" /\ GuideNext /\ UNCHANGED <<boardVars, lead>>
  /\ \A a \in Article : article'[a] # NoArticle =>
       /\ article'[a].public /\ article'[a].status \in {"PUBLISHED", "ARCHIVED"}
       /\ article'[a].read + article'[a].commented < 2
Charting ==
  /\ BoardNext /\ UNCHANGED <<guideVars, lead>>
  /\ \/ focus = "widgets" /\ UNCHANGED <<figure, stewards, snapshots, alerts>>
     \/ focus = "board" /\ UNCHANGED widget
  /\ \A c \in Curator : curator'[c] # NotCurating =>
       (focus = "widgets") <=> curator'[c].op \in {"create", "update", "rename"}
Leading == focus = "leads" /\ LeadNext /\ UNCHANGED <<guideVars, boardVars>>

----------------------------------------------------------------------------
MCInit ==
  /\ focus \in {"person", "profile", "accounts", "grants", "syncs", "terms", "relations",
                "notices", "tree", "uses", "skills", "checks", "problems", "premiums",
                "calendars", "asking", "coverage", "rules", "overtime",
                "provisioning", "numbering", "pipeline",
                "guides", "widgets", "board", "leads"}
  /\ PersonRecordsInit /\ ProfileInit /\ AccountsInit /\ AccessInit
  /\ EmploymentRecordsInit /\ NotificationsInit /\ OrganizationInit
  /\ ControlsInit /\ LeaveRulesInit /\ ScheduleRulesInit /\ TenantsInit /\ PipelineInit
  /\ PublicationsInit
  /\ focus \notin {"grants", "syncs"} => catalog = Permission
  /\ focus # "accounts" => user = [u \in UserAccount |-> NoAccount]
  /\ focus # "coverage" => roster = {}
  /\ \A t \in TenantId : numbering[t].prefix = pf1
  /\ focus # "provisioning" => platformFeature = {}

PeopleNext ==
  \/ /\ focus = "person" /\ PersonRecordsNext
     /\ UNCHANGED <<profileVars, accountVars, accessVars, employmentRecordVars, notificationVars>>
  \/ /\ focus = "profile" /\ ProfileNext
     /\ UNCHANGED <<personVars, accountVars, accessVars, employmentRecordVars, notificationVars>>
  \/ /\ focus = "accounts" /\ AccountsNext
     /\ UNCHANGED <<personVars, profileVars, accessVars, employmentRecordVars, notificationVars>>
  \/ /\ Granting \/ Syncing
     /\ UNCHANGED <<personVars, profileVars, accountVars, employmentRecordVars, notificationVars>>
  \/ /\ Contracting \/ Relating
     /\ UNCHANGED <<personVars, profileVars, accountVars, accessVars, notificationVars>>
  \/ /\ Notifying
     /\ UNCHANGED <<personVars, profileVars, accountVars, accessVars, employmentRecordVars>>

RuleBookNext ==
  \/ (Growing \/ Using \/ Skilling) /\ UNCHANGED <<controlVars, leaveRuleVars, scheduleRuleVars>>
  \/ (Checking \/ Listing \/ Paying) /\ UNCHANGED <<structureVars, leaveRuleVars, scheduleRuleVars>>
  \/ (Dating \/ Asking \/ Covering) /\ UNCHANGED <<structureVars, controlVars, scheduleRuleVars>>
  \/ (Ruling \/ Turning) /\ UNCHANGED <<structureVars, controlVars, leaveRuleVars>>

OfficeNext ==
  \/ (Provisioning \/ Numbering) /\ UNCHANGED <<pipelineVars, publicationVars>>
  \/ Piping /\ UNCHANGED <<tenantVars, publicationVars>>
  \/ (Guiding \/ Charting \/ Leading) /\ UNCHANGED <<tenantVars, pipelineVars>>

MCNext ==
  /\ UNCHANGED focus
  /\ \/ PeopleNext /\ UNCHANGED <<ruleBookVars, officeVars>>
     \/ RuleBookNext /\ UNCHANGED <<peopleVars, officeVars>>
     \/ OfficeNext /\ UNCHANGED <<peopleVars, ruleBookVars>>

MCSpec == MCInit /\ [][MCNext]_mcVars
=============================================================================
