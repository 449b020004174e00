------------------------------ MODULE Publications ------------------------------
(***************************************************************************)
(* What is published beside the records: HR guides with their readers'       *)
(* reactions (hr-guides), dashboard widgets, analytics snapshots and alerts   *)
(* to stewards (dashboard, history), and requests for a demo (demo-requests). *)
(*                                                                         *)
(* Every handler reads and then commits one transaction: an article and a    *)
(* reaction, a widget of a code, the figures of a snapshot, the stewards that *)
(* there are.  What came meanwhile is not looked at again, save by an index.  *)
(***************************************************************************)
EXTENDS Integers, FiniteSets, Sequences

CONSTANTS Article, Guest,
          Visitor, Editor,  \* handlers of the public pages, and of the platform's
          MaxRows,          \* bound of reactions ever written, and of the counters
          Owner, Platform,  \* tenants; the owner of a widget without one
          Widget, WidgetCode,
          Curator,          \* handlers of the dashboard
          Steward, Issue, Event, \* who is alerted, to a data issue or an outbox message
          Lead,             \* demo requests
          MaxFigure, MaxSnapshots, \* bounds of the figure and of the snapshots
          NoArticle, NotVisiting, NotEditing, NoWidget, NotCurating, NoLead

ASSUME PublicationsAssumption ==
  /\ Platform \notin Owner
  /\ MaxRows \in Nat /\ MaxFigure \in Nat /\ MaxSnapshots \in Nat

VARIABLES article, reactions,
          reacted,  \* reactions ever written, the last id
          visitor, editor, widget, curator,
          contested, \* history: codes that two handlers at once went to give a widget of the platform
          figure,   \* what a snapshot is computed of; it grows, to tell old from new
          snapshots, stewards, alerts, lead

guideVars == <<article, reactions, reacted, visitor, editor>>
boardVars == <<widget, curator, contested, figure, snapshots, stewards, alerts>>
publicationVars == <<guideVars, boardVars, lead>>

ArticleStatus == {"DRAFT", "REVIEW", "PUBLISHED", "ARCHIVED"}
ReactionType == {"LIKE", "HELPFUL", "INSIGHTFUL"}
LeadStatus == {"NEW", "CONTACTED", "QUALIFIED", "CONVERTED", "ARCHIVED"}
\* public: visibility PUBLIC; the rest count.
ArticleRow ==
  [status : ArticleStatus, public : BOOLEAN, deleted : BOOLEAN,
   likes : Int, helpful : Int, commented : Int, read : Int]
ReactionRow == [id : 1 .. MaxRows, article : Article, guest : Guest, type : ReactionType]
VisitorStep ==
  [op : {"read", "comment"}, article : Article]
  \cup [op : {"react"}, article : Article, guest : Guest, type : ReactionType]
  \cup [op : {"withdraw"}, row : ReactionRow]
WidgetOwner == Owner \cup {Platform}
WidgetRow == [owner : WidgetOwner, code : WidgetCode, active : BOOLEAN]
CuratorStep ==
  [op : {"create"}, owner : WidgetOwner, code : WidgetCode]
  \cup [op : {"update"}, widget : Widget]
  \cup [op : {"rename"}, widget : Widget, code : WidgetCode]
  \cup [op : {"refresh"}, figure : 0 .. MaxFigure, since : 0 .. MaxSnapshots]
  \cup [op : {"alert"}, about : Issue \cup Event, to : SUBSET Steward]
\* since: history, how many snapshots there were when the figure was read.
SnapshotRow == [figure : 0 .. MaxFigure, since : 0 .. MaxSnapshots]
LeadRow == [status : LeadStatus, contacted : BOOLEAN, converted : BOOLEAN]

ASSUME NoArticleIsNoRow == NoArticle \notin ArticleRow
ASSUME NoStepIsNoStep ==
  NotVisiting \notin VisitorStep /\ NotCurating \notin CuratorStep /\ NoWidget \notin WidgetRow

PublicationsTypeOK ==
  /\ article \in [Article -> ArticleRow \cup {NoArticle}]
  /\ reactions \subseteq ReactionRow /\ reacted \in 0 .. MaxRows
  /\ visitor \in [Visitor -> VisitorStep \cup {NotVisiting}]
  /\ editor \in [Editor -> Article \cup {NotEditing}]
  /\ widget \in [Widget -> WidgetRow \cup {NoWidget}]
  /\ curator \in [Curator -> CuratorStep \cup {NotCurating}]
  /\ figure \in 0 .. MaxFigure /\ snapshots \in Seq(SnapshotRow)
  /\ contested \subseteq WidgetCode
  /\ stewards \subseteq Steward
  /\ alerts \subseteq [about : Issue \cup Event, to : SUBSET Steward]
  /\ lead \in [Lead -> LeadRow \cup {NoLead}]

PublicationsInit ==
  /\ article = [a \in Article |-> NoArticle]
  /\ reactions = {} /\ reacted = 0
  /\ visitor = [k \in Visitor |-> NotVisiting] /\ editor = [e \in Editor |-> NotEditing]
  /\ widget = [w \in Widget |-> NoWidget] /\ curator = [c \in Curator |-> NotCurating]
  /\ contested = {} /\ figure = 0 /\ snapshots = <<>> /\ stewards = {} /\ alerts = {}
  /\ lead = [l \in Lead |-> NoLead]

----------------------------------------------------------------------------
\* HR guides, on the platform.

CreatePlatformArticle(a, status, public) ==
  /\ article[a] = NoArticle
  /\ article' = [article EXCEPT ![a] =
       [status |-> status, public |-> public, deleted |-> FALSE,
        likes |-> 0, helpful |-> 0, commented |-> 0, read |-> 0]]
  /\ UNCHANGED <<reactions, reacted, visitor, editor>>

\* getPlatformArticle, before each update.
EditRead(e, a) ==
  /\ editor[e] = NotEditing /\ article[a] # NoArticle /\ ~article[a].deleted
  /\ editor' = [editor EXCEPT ![e] = a]
  /\ UNCHANGED <<article, reactions, reacted, visitor>>

Edits(e, status, public, deleted) ==
  /\ editor[e] # NotEditing
  /\ article' = [article EXCEPT ![editor[e]] =
       [article[editor[e]] EXCEPT !.status = status, !.public = public, !.deleted = deleted]]
  /\ editor' = [editor EXCEPT ![e] = NotEditing]
  /\ UNCHANGED <<reactions, reacted, visitor>>

\* One that was deleted meanwhile stays deleted, whatever its status.
UpdatePlatformArticle(e, status, public) ==
  editor[e] # NotEditing /\ Edits(e, status, public, article[editor[e]].deleted)
DeletePlatformArticle(e) ==
  editor[e] # NotEditing /\ Edits(e, "ARCHIVED", article[editor[e]].public, TRUE)

----------------------------------------------------------------------------
\* HR guides, in public.

\* publishedArticleBySlugWhere.
Visible(a) ==
  /\ article[a] # NoArticle
  /\ article[a].status = "PUBLISHED" /\ article[a].public /\ ~article[a].deleted

Visits(k, step) == visitor' = [visitor EXCEPT ![k] = step]
Counting(k, op) == visitor[k] # NotVisiting /\ visitor[k].op = op

FindPublished(k, a, op) ==
  /\ visitor[k] = NotVisiting /\ Visible(a)
  /\ Visits(k, [op |-> op, article |-> a])
  /\ UNCHANGED <<article, reactions, reacted, editor>>

\* getPublishedArticle and createPublicComment count beside the row they write.
GetPublishedArticle(k) ==
  /\ Counting(k, "read")
  /\ LET a == visitor[k].article IN
     /\ article[a].read < MaxRows
     /\ article' = [article EXCEPT ![a] = [article[a] EXCEPT !.read = @ + 1]]
  /\ Visits(k, NotVisiting)
  /\ UNCHANGED <<reactions, reacted, editor>>
CreatePublicComment(k) ==
  /\ Counting(k, "comment")
  /\ LET a == visitor[k].article IN
     /\ article[a].commented < MaxRows
     /\ article' = [article EXCEPT ![a] = [article[a] EXCEPT !.commented = @ + 1]]
  /\ Visits(k, NotVisiting)
  /\ UNCHANGED <<reactions, reacted, editor>>

\* counterFieldForReaction: whatever is not helpful is liked.
Counted(row, type, n) ==
  IF type = "HELPFUL" THEN [row EXCEPT !.helpful = @ + n] ELSE [row EXCEPT !.likes = @ + n]
Reaction(a, g, type) == {r \in reactions : r.article = a /\ r.guest = g /\ r.type = type}

\* togglePublicReaction, up to what it finds.
ToggleRead(k, a, g, type) ==
  /\ visitor[k] = NotVisiting /\ Visible(a)
  /\ \/ /\ Reaction(a, g, type) = {}
        /\ Visits(k, [op |-> "react", article |-> a, guest |-> g, type |-> type])
     \/ \E r \in Reaction(a, g, type) : Visits(k, [op |-> "withdraw", row |-> r])
  /\ UNCHANGED <<article, reactions, reacted, editor>>

\* One that another request has written meanwhile fails it, by the index.
React(k) ==
  /\ Counting(k, "react") /\ reacted < MaxRows
  /\ LET a == visitor[k].article
         g == visitor[k].guest
         type == visitor[k].type IN
     /\ Reaction(a, g, type) = {}
     /\ reactions' = reactions \cup {[id |-> reacted + 1, article |-> a, guest |-> g, type |-> type]}
     /\ article' = [article EXCEPT ![a] = Counted(article[a], type, 1)]
  /\ reacted' = reacted + 1
  /\ Visits(k, NotVisiting)
  /\ UNCHANGED editor

\* One that another has deleted fails it, although there be a new one by now.
Withdraw(k) ==
  /\ Counting(k, "withdraw") /\ visitor[k].row \in reactions
  /\ LET r == visitor[k].row IN
     /\ reactions' = reactions \ {r}
     /\ article' = [article EXCEPT ![r.article] = Counted(article[r.article], r.type, -1)]
  /\ Visits(k, NotVisiting)
  /\ UNCHANGED <<reacted, editor>>

\* Refused, failed or broken off.
VisitorStops(k) ==
  /\ visitor[k] # NotVisiting /\ Visits(k, NotVisiting)
  /\ UNCHANGED <<article, reactions, reacted, editor>>
EditorStops(e) ==
  /\ editor[e] # NotEditing /\ editor' = [editor EXCEPT ![e] = NotEditing]
  /\ UNCHANGED <<article, reactions, reacted, visitor>>

GuideNext ==
  \/ \E a \in Article, status \in ArticleStatus, public \in BOOLEAN :
       CreatePlatformArticle(a, status, public)
  \/ \E e \in Editor :
       \/ DeletePlatformArticle(e) \/ EditorStops(e)
       \/ \E a \in Article : EditRead(e, a)
       \/ \E status \in ArticleStatus, public \in BOOLEAN : UpdatePlatformArticle(e, status, public)
  \/ \E k \in Visitor :
       \/ GetPublishedArticle(k) \/ CreatePublicComment(k) \/ React(k) \/ Withdraw(k) \/ VisitorStops(k)
       \/ \E a \in Article :
            \/ \E op \in {"read", "comment"} : FindPublished(k, a, op)
            \/ \E g \in Guest, type \in ReactionType : ToggleRead(k, a, g, type)

----------------------------------------------------------------------------
\* The dashboard.

Curates(c, step) == curator' = [curator EXCEPT ![c] = step]
Curating(c, op) == curator[c] # NotCurating /\ curator[c].op = op
Coded(owner, code) ==
  {w \in Widget : widget[w] # NoWidget /\ widget[w].owner = owner /\ widget[w].code = code}
\* The index on tenant and code does not hold for a tenant that is null.
Indexed(owner, code, w) == owner # Platform => Coded(owner, code) \subseteq {w}

\* Goes to give a widget of the platform that code, other than those that have it.
Claims(c, code, having) ==
  \/ Curating(c, "create") /\ curator[c].owner = Platform /\ curator[c].code = code
  \/ /\ Curating(c, "rename") /\ curator[c].code = code
     /\ curator[c].widget \notin having /\ widget[curator[c].widget].owner = Platform
Contest(owner, code, having) ==
  contested' = IF owner = Platform /\ \E c \in Curator : Claims(c, code, having)
               THEN contested \cup {code} ELSE contested

\* upsertWidget, up to what it finds.
UpsertRead(c, owner, code) ==
  /\ curator[c] = NotCurating
  /\ \/ /\ Coded(owner, code) = {}
        /\ Curates(c, [op |-> "create", owner |-> owner, code |-> code])
        /\ Contest(owner, code, {})
     \/ /\ \E w \in Coded(owner, code) : Curates(c, [op |-> "update", widget |-> w])
        /\ UNCHANGED contested
  /\ UNCHANGED <<widget, figure, snapshots, stewards, alerts>>

CreateWidget(c, w) ==
  /\ Curating(c, "create") /\ widget[w] = NoWidget
  /\ Indexed(curator[c].owner, curator[c].code, w)
  /\ \E active \in BOOLEAN : widget' = [widget EXCEPT ![w] =
       [owner |-> curator[c].owner, code |-> curator[c].code, active |-> active]]
  /\ Curates(c, NotCurating)
  /\ UNCHANGED <<contested, figure, snapshots, stewards, alerts>>

\* updateWidget, up to the transaction; another code that is taken is refused.
UpdateWidgetRead(c, w) ==
  /\ curator[c] = NotCurating /\ widget[w] # NoWidget
  /\ Curates(c, [op |-> "update", widget |-> w])
  /\ UNCHANGED <<widget, contested, figure, snapshots, stewards, alerts>>
RenameRead(c, w, code) ==
  /\ curator[c] = NotCurating /\ widget[w] # NoWidget
  /\ code # widget[w].code => Coded(widget[w].owner, code) = {}
  /\ Curates(c, [op |-> "rename", widget |-> w, code |-> code])
  /\ Contest(widget[w].owner, code, {w})
  /\ UNCHANGED <<widget, figure, snapshots, stewards, alerts>>

WritesWidget(c, w, code) ==
  /\ Indexed(widget[w].owner, code, w)
  /\ \E active \in BOOLEAN :
       widget' = [widget EXCEPT ![w] = [owner |-> widget[w].owner, code |-> code, active |-> active]]
  /\ Curates(c, NotCurating)
  /\ UNCHANGED <<contested, figure, snapshots, stewards, alerts>>
\* The code that it has by now stays, which upsertWidget may have read otherwise.
UpdateWidget(c) ==
  /\ Curating(c, "update")
  /\ WritesWidget(c, curator[c].widget, widget[curator[c].widget].code)
RenameWidget(c) ==
  /\ Curating(c, "rename") /\ WritesWidget(c, curator[c].widget, curator[c].code)

FigureGrows ==
  /\ figure < MaxFigure /\ figure' = figure + 1
  /\ UNCHANGED <<widget, curator, contested, snapshots, stewards, alerts>>

\* refreshAnalyticsSnapshot: computed, then written.
RefreshRead(c) ==
  /\ curator[c] = NotCurating
  /\ Curates(c, [op |-> "refresh", figure |-> figure, since |-> Len(snapshots)])
  /\ UNCHANGED <<widget, contested, figure, snapshots, stewards, alerts>>
RefreshCommit(c) ==
  /\ Curating(c, "refresh") /\ Len(snapshots) < MaxSnapshots
  /\ snapshots' = Append(snapshots, [figure |-> curator[c].figure, since |-> curator[c].since])
  /\ Curates(c, NotCurating)
  /\ UNCHANGED <<widget, contested, figure, stewards, alerts>>

\* Users come and go.
StewardsChange(s) ==
  /\ stewards' = (stewards \cup {s}) \ (stewards \cap {s})
  /\ UNCHANGED <<widget, curator, contested, figure, snapshots, alerts>>

\* findTenantStewards; no one to alert is refused.
FindTenantStewards(c, about) ==
  /\ curator[c] = NotCurating /\ stewards # {}
  /\ Curates(c, [op |-> "alert", about |-> about, to |-> stewards])
  /\ UNCHANGED <<widget, contested, figure, snapshots, stewards, alerts>>
Alerts(c, subjects) ==
  /\ Curating(c, "alert") /\ curator[c].about \in subjects
  /\ alerts' = alerts \cup {[about |-> curator[c].about, to |-> curator[c].to]}
  /\ Curates(c, NotCurating)
  /\ UNCHANGED <<widget, contested, figure, snapshots, stewards>>
\* A review, the other action, is only logged.
HandleDataQualityAction(c) == Alerts(c, Issue)
BroadcastOutboxMessage(c) == Alerts(c, Event)

CuratorStops(c) ==
  /\ curator[c] # NotCurating /\ Curates(c, NotCurating)
  /\ UNCHANGED <<widget, contested, figure, snapshots, stewards, alerts>>

BoardNext ==
  \/ FigureGrows
  \/ \E s \in Steward : StewardsChange(s)
  \/ \E c \in Curator :
       \/ RefreshRead(c) \/ RefreshCommit(c) \/ HandleDataQualityAction(c)
       \/ BroadcastOutboxMessage(c) \/ CuratorStops(c) \/ UpdateWidget(c) \/ RenameWidget(c)
       \/ \E about \in Issue \cup Event : FindTenantStewards(c, about)
       \/ \E code \in WidgetCode :
            \/ \E owner \in WidgetOwner : UpsertRead(c, owner, code)
            \/ \E w \in Widget : RenameRead(c, w, code)
       \/ \E w \in Widget : UpdateWidgetRead(c, w) \/ CreateWidget(c, w)

----------------------------------------------------------------------------
\* Requests for a demo.

CreateDemoRequest(l) ==
  /\ lead[l] = NoLead
  /\ lead' = [lead EXCEPT ![l] = [status |-> "NEW", contacted |-> FALSE, converted |-> FALSE]]
UpdateDemoRequestStatus(l, status) ==
  /\ lead[l] # NoLead
  /\ lead' = [lead EXCEPT ![l] =
       [status |-> status, contacted |-> lead[l].contacted \/ status = "CONTACTED",
        converted |-> lead[l].converted \/ status = "CONVERTED"]]
LeadNext ==
  \E l \in Lead : CreateDemoRequest(l) \/ \E status \in LeadStatus : UpdateDemoRequestStatus(l, status)

PublicationsNext ==
  \/ GuideNext /\ UNCHANGED <<boardVars, lead>>
  \/ BoardNext /\ UNCHANGED <<guideVars, lead>>
  \/ LeadNext /\ UNCHANGED <<guideVars, boardVars>>

PublicationsSpec == PublicationsInit /\ [][PublicationsNext]_publicationVars

----------------------------------------------------------------------------
\* Properties.

\* However requests of one reader overlap, break off or repeat, the counters of
\* an article are the reactions there are to it; an insight counts as a like.
CountersTellReactions ==
  \A a \in Article : article[a] # NoArticle =>
    /\ article[a].helpful = Cardinality({r \in reactions : r.article = a /\ r.type = "HELPFUL"})
    /\ article[a].likes = Cardinality({r \in reactions : r.article = a /\ r.type # "HELPFUL"})

\* A code stands for one widget of a tenant, by the index; and for one of the
\* platform, where the index does not hold, unless two handlers at once went to
\* give it to different ones, neither of which had it.
OneWidgetOfACode ==
  \A w, x \in Widget :
    /\ w # x /\ widget[w] # NoWidget /\ widget[x] # NoWidget
    /\ widget[w].owner = widget[x].owner /\ widget[w].code = widget[x].code
    => widget[w].owner = Platform /\ widget[w].code \in contested

\* A snapshot is older than one before it only if that one came while its own
\* figures were being computed; refreshes that overlap may well leave it so.
SnapshotsInOrder ==
  \A k \in 1 .. Len(snapshots) : \A j \in 1 .. snapshots[k].since :
    snapshots[j].figure <= snapshots[k].figure
=============================================================================
