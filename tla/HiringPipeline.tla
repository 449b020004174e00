----------------------------- MODULE HiringPipeline -----------------------------
(***************************************************************************)
(* The pipeline of applications: stages, applications on their way through    *)
(* them, interviews and feedback, and the public talent profiles              *)
(* (recruitment/recruitment.service.ts).                                     *)
(*                                                                         *)
(* Recruitment has the requisitions, vacancies here, and the offers; of an     *)
(* application it keeps only whether it was hired.  A move is written down     *)
(* statement by statement, since none of it is in a transaction; it may break  *)
(* off anywhere.  Handlers whose other statements read what nothing changes   *)
(* are one action.                                                          *)
(***************************************************************************)
EXTENDS Integers, FiniteSets

CONSTANTS Vacancy, Applicant, Meeting,
          Mover,          \* moveApplication and scheduleInterview handlers
          LastPlace,      \* bound of stage sequences, in tens
          NoApplication, NoMeeting, NoStage, NoMove, Unsaid

ASSUME PipelineAssumption ==
  /\ LastPlace \in Nat \ (0 .. 9)
  /\ NoStage \notin 1 .. LastPlace
  /\ NoStage \notin {"APPLIED", "SCREENING", "INTERVIEW", "OFFER", "HIRED", "REJECTED",
                     "WITHDRAWN", "CUSTOM"}

VARIABLES stage,       \* type of the RecruitmentPipelineStage at a place of a vacancy
          application, \* RecruitmentApplication rows, one per applicant and vacancy
          applicant,   \* status of RecruitmentCandidate rows
          meeting,     \* RecruitmentInterview rows
          talent,      \* status of RecruitmentTalentProfile rows
          crossed,     \* history: types that two moves at once went to create
          mover

pipelineVars == <<stage, application, applicant, meeting, talent, crossed, mover>>

\* RecruitmentStageType; all but the last are also statuses of applications.
ApplicationStatus ==
  {"APPLIED", "SCREENING", "INTERVIEW", "OFFER", "HIRED", "REJECTED", "WITHDRAWN"}
StageType == ApplicationStatus \cup {"CUSTOM"}
\* DEFAULT_PIPELINE_STAGES, and 90 for other types; sequences in tens.
PlaceOf ==
  [t \in StageType |->
     CASE t = "APPLIED" -> 1 [] t = "SCREENING" -> 2 [] t = "INTERVIEW" -> 3 [] t = "OFFER" -> 4
       [] t = "HIRED" -> 5 [] t = "REJECTED" -> 6 [] t = "WITHDRAWN" -> 7 [] t = "CUSTOM" -> 9]
ApplicantStatus == {"ACTIVE", "DO_NOT_CONTACT", "HIRED", "ARCHIVED"}
ProfileStatus == {"ACTIVE", "HIDDEN", "ARCHIVED"}

Place == 1 .. LastPlace
Application == Applicant \X Vacancy
\* hired and rejected: whether hiredAt and rejectedAt are set; byHand: history,
\* whether the last status came from a request or an interview.
ApplicationRow ==
  [place : Place, status : ApplicationStatus, hired : BOOLEAN, rejected : BOOLEAN, byHand : BOOLEAN]
ASSUME NoApplicationIsNoRow == NoApplication \notin ApplicationRow
MeetingRow == [application : Application, place : Place \cup {NoStage}, feedback : BOOLEAN]
MoveStep ==
  [op : {"find", "measure"}, application : Application, type : StageType, read : ApplicationStatus]
  \cup [op : {"create"}, application : Application, type : StageType, read : ApplicationStatus, place : Place]
  \cup [op : {"move"}, application : Application, read : ApplicationStatus, place : Place]
  \cup [op : {"meet", "hire"}, application : Application]

PipelineTypeOK ==
  /\ stage \in [Vacancy -> [Place -> StageType \cup {NoStage}]]
  /\ application \in [Application -> ApplicationRow \cup {NoApplication}]
  /\ applicant \in [Applicant -> ApplicantStatus \cup {"NONE"}]
  /\ meeting \in [Meeting -> MeetingRow \cup {NoMeeting}]
  /\ talent \in [Applicant -> ProfileStatus \cup {"NONE"}]
  /\ crossed \in [Vacancy -> SUBSET StageType]
  /\ mover \in [Mover -> MoveStep \cup {NoMove}]

PipelineInit ==
  /\ stage = [v \in Vacancy |-> [p \in Place |-> NoStage]]
  /\ application = [a \in Application |-> NoApplication]
  /\ applicant = [c \in Applicant |-> "NONE"]
  /\ meeting = [i \in Meeting |-> NoMeeting]
  /\ talent = [c \in Applicant |-> "NONE"]
  /\ crossed = [v \in Vacancy |-> {}]
  /\ mover = [m \in Mover |-> NoMove]

Applied(a) == application[a] # NoApplication
Placed(v, t) == {p \in Place : stage[v][p] = t}
First(P) == {p \in P : \A q \in P : p <= q}
Busy(m) == mover[m] # NoMove
\* Vacancies with their stages; applicationStatusForStage of the first is APPLIED.
Opened(v) == Placed(v, "APPLIED") # {}

----------------------------------------------------------------------------
\* Vacancies, applicants and profiles.

\* createRequisition makes the default stages with it.
OpenVacancy(v) ==
  /\ ~Opened(v)
  /\ stage' = [stage EXCEPT ![v] = [p \in Place |->
       IF \E t \in ApplicationStatus : PlaceOf[t] = p
       THEN CHOOSE t \in ApplicationStatus : PlaceOf[t] = p ELSE NoStage]]
  /\ UNCHANGED <<application, applicant, meeting, talent, crossed, mover>>

\* One candidate per address, by a unique index.
CreateCandidate(c, status) ==
  /\ applicant[c] = "NONE"
  /\ applicant' = [applicant EXCEPT ![c] = status]
  /\ UNCHANGED <<stage, application, meeting, talent, crossed, mover>>

ChangeCandidate(c, status) ==
  /\ applicant[c] # "NONE"
  /\ applicant' = [applicant EXCEPT ![c] = status]
  /\ UNCHANGED <<stage, application, meeting, talent, crossed, mover>>

\* submitPublicTalentProfile: one per address, and the last one stands.
SubmitPublicTalentProfile(c, status) ==
  /\ talent' = [talent EXCEPT ![c] = status]
  /\ UNCHANGED <<stage, application, applicant, meeting, crossed, mover>>

\* In the first stage that the vacancy has, whatever type it is of.
Enters(a) ==
  /\ Opened(a[2]) /\ ~Applied(a)
  /\ \E p \in First({q \in Place : stage[a[2]][q] # NoStage}) :
       LET type == stage[a[2]][p] IN
       application' = [application EXCEPT ![a] =
         [place |-> p, status |-> IF type \in ApplicationStatus THEN type ELSE "APPLIED",
          hired |-> FALSE, rejected |-> FALSE, byHand |-> FALSE]]

CreateApplication(a) ==
  /\ applicant[a[1]] # "NONE" /\ Enters(a)
  /\ UNCHANGED <<stage, applicant, meeting, talent, crossed, mover>>

\* applyToPublicJob writes the candidate, and the application if there is none.
ApplyToPublicJob(a) ==
  /\ Opened(a[2])
  /\ applicant' = [applicant EXCEPT ![a[1]] = IF @ = "NONE" THEN "ACTIVE" ELSE @]
  /\ IF Applied(a) THEN UNCHANGED application
     ELSE \E p \in First(Placed(a[2], "APPLIED")) :
            application' = [application EXCEPT ![a] =
              [place |-> p, status |-> "APPLIED", hired |-> FALSE, rejected |-> FALSE, byHand |-> FALSE]]
  /\ UNCHANGED <<stage, meeting, talent, crossed, mover>>

----------------------------------------------------------------------------
\* Moves.

Moves(m, step) == mover' = [mover EXCEPT ![m] = step]
Doing(m, op) == Busy(m) /\ mover[m].op = op
Of(m) == mover[m].application

\* resolveApplicationStage: by id, or by type.
MoveToStage(m, a, p) ==
  /\ ~Busy(m) /\ Applied(a) /\ stage[a[2]][p] # NoStage
  /\ Moves(m, [op |-> "move", application |-> a, read |-> application[a].status, place |-> p])
  /\ UNCHANGED <<stage, application, applicant, meeting, talent, crossed>>

MoveToType(m, a, type) ==
  /\ ~Busy(m) /\ Applied(a)
  /\ Moves(m, [op |-> "find", application |-> a, type |-> type, read |-> application[a].status])
  /\ UNCHANGED <<stage, application, applicant, meeting, talent, crossed>>

\* Has found no stage of the type and goes to create one.
Making(m, v, type) ==
  (Doing(m, "measure") \/ Doing(m, "create")) /\ Of(m)[2] = v /\ mover[m].type = type

\* ensurePipelineStage: the first stage of that type; or one that is created at
\* the place of its type, or behind the last one if that is taken.
FindStage(m) ==
  /\ Doing(m, "find")
  /\ LET v == Of(m)[2]
         type == mover[m].type IN
     \/ /\ Placed(v, type) = {}
        /\ Moves(m, [mover[m] EXCEPT !.op = "measure"])
        /\ crossed' = [crossed EXCEPT ![v] =
             IF \E n \in Mover : Making(n, v, type) THEN @ \cup {type} ELSE @]
     \/ /\ \E p \in First(Placed(v, type)) :
             Moves(m, [op |-> "move", application |-> Of(m), read |-> mover[m].read, place |-> p])
        /\ UNCHANGED crossed
  /\ UNCHANGED <<stage, application, applicant, meeting, talent>>

MeasureStages(m) ==
  /\ Doing(m, "measure")
  /\ \E p \in Place :
       /\ IF stage[Of(m)[2]][PlaceOf[mover[m].type]] = NoStage THEN p = PlaceOf[mover[m].type]
          ELSE /\ stage[Of(m)[2]][p] = NoStage /\ stage[Of(m)[2]][p - 1] # NoStage
               /\ \A q \in Place : q > p => stage[Of(m)[2]][q] = NoStage
       /\ Moves(m, [op |-> "create", application |-> Of(m), type |-> mover[m].type,
                    read |-> mover[m].read, place |-> p])
  /\ UNCHANGED <<stage, application, applicant, meeting, talent, crossed>>

\* A stage that came to that place meanwhile fails the handler: unique index.
CreateStage(m) ==
  /\ Doing(m, "create")
  /\ LET v == Of(m)[2]
         p == mover[m].place IN
     IF stage[v][p] # NoStage THEN Moves(m, NoMove) /\ UNCHANGED stage
     ELSE /\ stage' = [stage EXCEPT ![v][p] = mover[m].type]
          /\ Moves(m, [op |-> "move", application |-> Of(m), read |-> mover[m].read, place |-> p])
  /\ UNCHANGED <<application, applicant, meeting, talent, crossed>>

\* The status is what the request says, or what the stage stands for, or what
\* the application had when it was read.
WriteMove(m, says) ==
  /\ Doing(m, "move")
  /\ LET a == Of(m)
         type == stage[a[2]][mover[m].place]
         status == IF says # Unsaid THEN says
                   ELSE IF type \in ApplicationStatus THEN type ELSE mover[m].read IN
     /\ application' = [application EXCEPT ![a] =
          [place |-> mover[m].place, status |-> status,
           hired |-> application[a].hired \/ status = "HIRED",
           rejected |-> application[a].rejected \/ status = "REJECTED",
           byHand |-> says # Unsaid]]
     /\ Moves(m, IF status = "HIRED" THEN [op |-> "hire", application |-> a] ELSE NoMove)
  /\ UNCHANGED <<stage, applicant, meeting, talent, crossed>>

HireApplicant(m) ==
  /\ Doing(m, "hire")
  /\ applicant' = [applicant EXCEPT ![Of(m)[1]] = "HIRED"]
  /\ Moves(m, NoMove)
  /\ UNCHANGED <<stage, application, meeting, talent, crossed>>

\* acceptOffer: two statements side by side, each of which may fail; Recruitment
\* says when.
AcceptedApplication(a) ==
  /\ Applied(a)
  /\ \E p \in First(Placed(a[2], "HIRED")) :
       application' = [application EXCEPT ![a] =
         [@ EXCEPT !.place = p, !.status = "HIRED", !.hired = TRUE, !.byHand = FALSE]]
  /\ UNCHANGED <<stage, applicant, meeting, talent, crossed, mover>>

----------------------------------------------------------------------------
\* Interviews.

\* Whatever the status of the application, which is changed in a statement of
\* its own.
ScheduleInterview(m, i, a, p) ==
  /\ ~Busy(m) /\ Applied(a) /\ meeting[i] = NoMeeting
  /\ p # NoStage => stage[a[2]][p] # NoStage
  /\ meeting' = [meeting EXCEPT ![i] = [application |-> a, place |-> p, feedback |-> FALSE]]
  /\ Moves(m, [op |-> "meet", application |-> a])
  /\ UNCHANGED <<stage, application, applicant, talent, crossed>>

MarkInterview(m) ==
  /\ Doing(m, "meet")
  /\ application' = [application EXCEPT ![Of(m)].status = "INTERVIEW", ![Of(m)].byHand = TRUE]
  /\ Moves(m, NoMove)
  /\ UNCHANGED <<stage, applicant, meeting, talent, crossed>>

SubmitInterviewFeedback(i) ==
  /\ meeting[i] # NoMeeting
  /\ meeting' = [meeting EXCEPT ![i].feedback = TRUE]
  /\ UNCHANGED <<stage, application, applicant, talent, crossed, mover>>

MoverStops(m) ==
  /\ Busy(m) /\ Moves(m, NoMove)
  /\ UNCHANGED <<stage, application, applicant, meeting, talent, crossed>>

----------------------------------------------------------------------------
MoverStep(m) ==
  \/ FindStage(m) \/ MeasureStages(m) \/ CreateStage(m) \/ HireApplicant(m)
  \/ MarkInterview(m) \/ MoverStops(m)
  \/ \E says \in ApplicationStatus \cup {Unsaid} : WriteMove(m, says)

PipelineNext ==
  \/ \E v \in Vacancy : OpenVacancy(v)
  \/ \E c \in Applicant :
       \/ \E status \in ApplicantStatus : CreateCandidate(c, status) \/ ChangeCandidate(c, status)
       \/ \E status \in ProfileStatus : SubmitPublicTalentProfile(c, status)
  \/ \E a \in Application : CreateApplication(a) \/ ApplyToPublicJob(a) \/ AcceptedApplication(a)
  \/ \E i \in Meeting : SubmitInterviewFeedback(i)
  \/ \E m \in Mover :
       \/ MoverStep(m)
       \/ \E a \in Application :
            \/ \E p \in Place : MoveToStage(m, a, p)
            \/ \E type \in StageType : MoveToType(m, a, type)
            \/ \E i \in Meeting, p \in Place \cup {NoStage} : ScheduleInterview(m, i, a, p)

PipelineSpec == PipelineInit /\ [][PipelineNext]_pipelineVars

----------------------------------------------------------------------------
\* Properties.

\* Nothing in moveApplication is in a transaction, and yet, however moves
\* overlap and break off: an application is in a stage of its own vacancy, it
\* has the status that its stage stands for unless a request or an interview
\* has set another, and HIRED and REJECTED are dated.
StageTellsStatus ==
  \A a \in Application : Applied(a) =>
    LET type == stage[a[2]][application[a].place] IN
    /\ type # NoStage
    /\ type \in ApplicationStatus /\ ~application[a].byHand => application[a].status = type
    /\ application[a].status = "HIRED" => application[a].hired
    /\ application[a].status = "REJECTED" => application[a].rejected

\* A move by type finds the stage of that type: a vacancy has a second one only
\* of a type that two moves at once went to create, either having found none.
\* (No index is on the type, and the one on the places lets the second have the
\* place behind the first.)
OneStageOfAType ==
  \A v \in Vacancy, p, q \in Place :
    p # q /\ stage[v][p] = stage[v][q] => stage[v][p] \in crossed[v] \cup {NoStage}
=============================================================================
