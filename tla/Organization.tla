----------------------------- MODULE Organization -----------------------------
(***************************************************************************)
(* The structure that positions and assignments refer to: organization      *)
(* nodes and cost centers (organization/organization.service.ts), grades,   *)
(* levels and skills (positions/positions.service.ts) and the references of *)
(* positions and of assignments to them (assignments.service.ts).           *)
(*                                                                         *)
(* Each handler is one action: what handlers that overlap do to each other  *)
(* is not modelled, and would orphan children or close a cycle of parents.  *)
(* A grade and a level are asked for alike, so a Rung stands for either.    *)
(* Status, head count and reporting lines of positions and the days of      *)
(* assignments are Staffing's; an assignment only is open, will end or has  *)
(* ended.                                                                   *)
(***************************************************************************)
EXTENDS FiniteSets

CONSTANTS Node, Center, Rung, Post, Stint, Skill,
          Learner, \* persons, who have skills too
          Absent   \* no reference, no row

VARIABLES node,   \* OrganizationNode rows
          center, \* CostCenter rows
          rung,   \* PositionGrade and PositionLevel rows
          post,   \* Position rows; unchecked: reopened, and not updated since
          stint,  \* EmployeeAssignment rows
          skill,  \* Skill rows
          skilled \* whose PositionSkill and PersonSkill rows name a skill

structureVars == <<node, center, rung, post, stint, skill, skilled>>

UnitStatus == {"active", "inactive", "deleted"}
NodeRow == [is : UnitStatus, parent : Node \cup {Absent}]
CenterRow == [is : UnitStatus, node : Node \cup {Absent}]
References == [node : Node \cup {Absent}, center : Center \cup {Absent}, rung : Rung \cup {Absent}]
PostRow == [refs : References, deleted : BOOLEAN, unchecked : BOOLEAN]
StintRow == [refs : References, post : Post \cup {Absent}, end : {"open", "ending", "ended"}]

ASSUME OrganizationAssumption ==
  /\ Absent \notin Node \cup Center \cup Rung \cup Post \cup {"kept", "deleted"}
  /\ Absent \notin NodeRow \cup CenterRow \cup PostRow \cup StintRow

OrganizationTypeOK ==
  /\ node \in [Node -> NodeRow \cup {Absent}]
  /\ center \in [Center -> CenterRow \cup {Absent}]
  /\ rung \in [Rung -> {"kept", "deleted", Absent}]
  /\ post \in [Post -> PostRow \cup {Absent}]
  /\ stint \in [Stint -> StintRow \cup {Absent}]
  /\ skill \subseteq Skill
  /\ skilled \in [Skill -> SUBSET (Post \cup Learner)]

OrganizationInit ==
  /\ node = [n \in Node |-> Absent] /\ center = [c \in Center |-> Absent]
  /\ rung = [r \in Rung |-> Absent] /\ post = [p \in Post |-> Absent]
  /\ stint = [s \in Stint |-> Absent] /\ skill = {}
  /\ skilled = [k \in Skill |-> {}]

LiveNode == {n \in Node : node[n] # Absent /\ node[n].is # "deleted"}
LiveCenter == {c \in Center : center[c] # Absent /\ center[c].is # "deleted"}
LiveRung == {r \in Rung : rung[r] = "kept"}
LivePost == {p \in Post : post[p] # Absent /\ ~post[p].deleted}
OpenStint == {s \in Stint : stint[s] # Absent /\ stint[s].end = "open"}
\* openAssignmentWhere: without an end, or with one to come.
RunningStint == {s \in Stint : stint[s] # Absent /\ stint[s].end # "ended"}

----------------------------------------------------------------------------
\* Organization nodes and cost centers.

\* Mutant: only the node itself is not taken for its parent.
NotItself(n, p) == n # p

\* assertParentChangeIsSafe: the walk from p over the nodes above it does not
\* come to n.  Above is what the walk may pass: it has p and, with a node, its
\* parent.
SafeParent(n, p) ==
  \E Above \in SUBSET LiveNode :
    /\ p \in Above /\ n \notin Above
    /\ \A a \in Above : node[a].parent \in LiveNode => node[a].parent \in Above

CreateNode(n, p, st) ==
  /\ node[n] = Absent /\ p \in LiveNode \cup {Absent}
  /\ node' = [node EXCEPT ![n] = [is |-> st, parent |-> p]]
  /\ UNCHANGED <<center, rung, post, stint, skill, skilled>>

UpdateNode(n, st) ==
  /\ n \in LiveNode
  /\ node' = [node EXCEPT ![n].is = st]
  /\ UNCHANGED <<center, rung, post, stint, skill, skilled>>

MoveNode(n, p, st) ==
  /\ n \in LiveNode
  /\ p # Absent => p \in LiveNode /\ SafeParent(n, p)
  /\ node' = [node EXCEPT ![n] = [is |-> st, parent |-> p]]
  /\ UNCHANGED <<center, rung, post, stint, skill, skilled>>

Childless(n) == \A m \in LiveNode : node[m].parent # n

\* An assignment that is to end one day does not keep its node.
UnusedNode(n) ==
  /\ \A p \in LivePost : post[p].refs.node # n
  /\ \A s \in OpenStint : stint[s].refs.node # n
  /\ \A c \in LiveCenter : center[c].node # n

DeleteNode(n) ==
  /\ n \in LiveNode /\ Childless(n) /\ UnusedNode(n)
  /\ node' = [node EXCEPT ![n].is = "deleted"]
  /\ UNCHANGED <<center, rung, post, stint, skill, skilled>>

\* createCostCenter and updateCostCenter; the positions of the center are not
\* asked whether they are of its new node.
PutCenter(c, n, st) ==
  /\ center[c] = Absent \/ c \in LiveCenter
  /\ n \in LiveNode \cup {Absent}
  /\ center' = [center EXCEPT ![c] = [is |-> st, node |-> n]]
  /\ UNCHANGED <<node, rung, post, stint, skill, skilled>>

UnusedCenter(c) ==
  /\ \A p \in LivePost : post[p].refs.center # c
  /\ \A s \in OpenStint : stint[s].refs.center # c

DeleteCenter(c) ==
  /\ c \in LiveCenter /\ UnusedCenter(c)
  /\ center' = [center EXCEPT ![c].is = "deleted"]
  /\ UNCHANGED <<node, rung, post, stint, skill, skilled>>

----------------------------------------------------------------------------
\* Grades and levels, skills.

PutRung(r) ==
  /\ rung[r] # "deleted"
  /\ rung' = [rung EXCEPT ![r] = "kept"]
  /\ UNCHANGED <<node, center, post, stint, skill, skilled>>

UnusedRung(r) ==
  /\ \A p \in LivePost : post[p].refs.rung # r
  /\ \A s \in RunningStint : stint[s].refs.rung # r

DeleteRung(r) ==
  /\ r \in LiveRung /\ UnusedRung(r)
  /\ rung' = [rung EXCEPT ![r] = "deleted"]
  /\ UNCHANGED <<node, center, post, stint, skill, skilled>>

\* createSkill, and a requirement that names the skill, make it when it is not there.
PutSkill(k) ==
  /\ skill' = skill \cup {k}
  /\ UNCHANGED <<node, center, rung, post, stint, skilled>>

RequireSkill(h, k) ==
  /\ h \in LivePost \cup Learner
  /\ skill' = skill \cup {k} /\ skilled' = [skilled EXCEPT ![k] = @ \cup {h}]
  /\ UNCHANGED <<node, center, rung, post, stint>>

DropSkill(h, k) ==
  /\ h \in skilled[k] /\ h \in LivePost \cup Learner
  /\ skilled' = [skilled EXCEPT ![k] = @ \ {h}]
  /\ UNCHANGED <<node, center, rung, post, stint, skill>>

\* A position that is archived counts too.
DeleteSkill(k) ==
  /\ k \in skill /\ skilled[k] = {}
  /\ skill' = skill \ {k}
  /\ UNCHANGED <<node, center, rung, post, stint, skilled>>

----------------------------------------------------------------------------
\* Positions and assignments.

\* validateOrganizationNode, validateCostCenter, validateGrade, validateLevel.
Valid(refs) ==
  /\ refs.node # Absent => refs.node \in LiveNode /\ node[refs.node].is = "active"
  /\ refs.center # Absent => refs.center \in LiveCenter /\ center[refs.center].is = "active"
  /\ refs.rung # Absent => refs.rung \in LiveRung

\* resolvePositionReferences: the node is that of the cost center when none is given.
NodeOfCenter(c) == IF c \in LiveCenter THEN center[c].node ELSE Absent
PostRefs(refs) == [refs EXCEPT !.node = IF @ = Absent THEN NodeOfCenter(refs.center) ELSE @]
Agrees(refs) == NodeOfCenter(refs.center) \in {Absent, refs.node}

PutPost(p, refs) ==
  /\ post[p] = Absent \/ p \in LivePost
  /\ Valid(PostRefs(refs)) /\ Agrees(PostRefs(refs))
  /\ post' = [post EXCEPT
       ![p] = [refs |-> PostRefs(refs), deleted |-> FALSE, unchecked |-> FALSE]]
  /\ UNCHANGED <<node, center, rung, stint, skill, skilled>>

\* assertPositionCanClose.
Unheld(p) == \A s \in RunningStint : stint[s].post # p

ArchivePost(p) ==
  /\ p \in LivePost /\ Unheld(p)
  /\ post' = [post EXCEPT ![p].deleted = TRUE]
  /\ UNCHANGED <<node, center, rung, stint, skill, skilled>>

\* The references come back as they were: nothing asks whether they still hold.
ReopenPost(p) ==
  /\ post[p] # Absent
  /\ post' = [post EXCEPT ![p].deleted = FALSE, ![p].unchecked = TRUE]
  /\ UNCHANGED <<node, center, rung, stint, skill, skilled>>

\* resolveAssignmentFields: what is not given is the position's, or what it was.
Given(refs, others) ==
  [f \in {"node", "center", "rung"} |-> IF refs[f] # Absent THEN refs[f] ELSE others[f]]
NoRefs == [node |-> Absent, center |-> Absent, rung |-> Absent]
RefsOfPost(p) == IF p = Absent THEN NoRefs ELSE post[p].refs

CreateStint(s, p, refs, end) ==
  /\ stint[s] = Absent
  /\ p \in LivePost \cup {Absent} /\ Valid(Given(refs, RefsOfPost(p)))
  /\ stint' = [stint EXCEPT
       ![s] = [refs |-> Given(refs, RefsOfPost(p)), post |-> p, end |-> end]]
  /\ UNCHANGED <<node, center, rung, post, skill, skilled>>

\* All of it is asked again, whatever the request changes.
UpdateStint(s, p, refs, end) ==
  LET others == IF p = Absent THEN stint[s].refs ELSE post[p].refs
      q == IF p = Absent THEN stint[s].post ELSE p
  IN /\ stint[s] # Absent
     /\ q \in LivePost \cup {Absent} /\ Valid(Given(refs, others))
     /\ stint' = [stint EXCEPT ![s] = [refs |-> Given(refs, others), post |-> q, end |-> end]]
     /\ UNCHANGED <<node, center, rung, post, skill, skilled>>

\* endAssignment, a later primary assignment, and the day itself.
EndStint(s, end) ==
  /\ s \in RunningStint /\ end \in {"ending", "ended"}
  /\ stint' = [stint EXCEPT ![s].end = end]
  /\ UNCHANGED <<node, center, rung, post, skill, skilled>>

\* One that has not begun.
DeleteStint(s) ==
  /\ stint[s] # Absent
  /\ stint' = [stint EXCEPT ![s] = Absent]
  /\ UNCHANGED <<node, center, rung, post, skill, skilled>>

UnitNext ==
  \/ \E n \in Node :
       \/ \E st \in {"active", "inactive"} :
            \/ UpdateNode(n, st)
            \/ \E p \in Node \cup {Absent} : CreateNode(n, p, st) \/ MoveNode(n, p, st)
       \/ DeleteNode(n)
  \/ \E c \in Center :
       \/ \E n \in Node \cup {Absent}, st \in {"active", "inactive"} : PutCenter(c, n, st)
       \/ DeleteCenter(c)

SkillNext ==
  \E k \in Skill : \/ PutSkill(k) \/ DeleteSkill(k)
                   \/ \E h \in Post \cup Learner : RequireSkill(h, k) \/ DropSkill(h, k)

PostNext ==
  \/ \E r \in Rung : PutRung(r) \/ DeleteRung(r)
  \/ \E p \in Post : (\E refs \in References : PutPost(p, refs)) \/ ArchivePost(p) \/ ReopenPost(p)

StintNext ==
  \E s \in Stint :
    \/ \E p \in Post \cup {Absent}, refs \in References, end \in {"open", "ending", "ended"} :
         CreateStint(s, p, refs, end) \/ UpdateStint(s, p, refs, end)
    \/ \E end \in {"ending", "ended"} : EndStint(s, end)
    \/ DeleteStint(s)

OrganizationNext == UnitNext \/ SkillNext \/ PostNext \/ StintNext

OrganizationSpec == OrganizationInit /\ [][OrganizationNext]_structureVars

----------------------------------------------------------------------------
\* Properties.

\* "Cannot move a node under one of its descendants.": the nodes are a forest,
\* so that the walk over the parents of a node ends.  Of any nodes there is one
\* whose parent is not among them.
Forest ==
  \A S \in (SUBSET LiveNode) \ {{}} : \E n \in S : node[n].parent \notin S

\* What is deleted is not in use.
NodesKept ==
  /\ \A n \in LiveNode : node[n].parent \in LiveNode \cup {Absent}
  /\ \A c \in LiveCenter : center[c].node \in LiveNode \cup {Absent}

RefsKept(refs) ==
  /\ refs.node \in LiveNode \cup {Absent}
  /\ refs.center \in LiveCenter \cup {Absent}

PostsKept ==
  \A p \in LivePost : ~post[p].unchecked =>
    RefsKept(post[p].refs) /\ post[p].refs.rung \in LiveRung \cup {Absent}

StintsKept ==
  /\ \A s \in OpenStint : RefsKept(stint[s].refs)
  /\ \A s \in RunningStint :
       stint[s].refs.rung \in LiveRung \cup {Absent} /\ stint[s].post \in LivePost \cup {Absent}

SkillsKept == \A k \in Skill : skilled[k] # {} => k \in skill

\* Five deletions, each with its own list of what to ask for, keep a structure
\* that a dozen other handlers refer to: parents, cost centers, positions that
\* were not reopened behind it, assignments that run and skills that are
\* required refer to what is there, and the nodes are a forest.
StructureHolds == Forest /\ NodesKept /\ PostsKept /\ StintsKept /\ SkillsKept
=============================================================================
