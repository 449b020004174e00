---------------------------- MODULE PeopleProofs ----------------------------
(***************************************************************************)
(* Proofs about credentials, assignments, recruitment, documents, forms,   *)
(* lifecycle plans and cases, and the import of employees, each for any    *)
(* number of rows and handlers: the small instances of MCPeople, without   *)
(* their bounds.                                                           *)
(***************************************************************************)
EXTENDS MCPeople, FiniteSetTheorems, TLAPS

----------------------------------------------------------------------------
(* Sessions *)

\* Unless the refreshes of its chain have overlapped, a refresh in flight is the
\* only one of it, and the chain has no live token but perhaps the one presented.
SoleRefresh(h) ==
  Has(h, "refresh") =>
    LET c == asking[h].id IN
    /\ c \in Credential /\ refresh[c] # "none"
    /\ login[c] \notin crossed =>
         /\ \A d \in Credential \ {c} : refresh[d] = "live" => login[d] # login[c]
         /\ \A k \in AuthHandler \ {h} : Has(k, "refresh") => login[asking[k].id] # login[c]

SessionsInv ==
  /\ refresh \in [Credential -> TokenState]
  /\ login \in [Credential -> Credential \cup {NoCredential}]
  /\ asking = [h \in AuthHandler |-> asking[h]]
  /\ \A c \in Credential :
       refresh[c] # "none" => login[c] \in Credential /\ refresh[login[c]] # "none"
  /\ OneLiveTokenPerLogin
  /\ \A h \in AuthHandler : SoleRefresh(h)

\* Revoking brings nothing to life.
LEMMA RevokedFacts ==
  ASSUME NEW table \in [Credential -> TokenState], NEW cs
  PROVE  /\ RevokedIn(table, cs) \in [Credential -> TokenState]
         /\ \A c \in Credential :
              /\ RevokedIn(table, cs)[c] = "live" => table[c] = "live"
              /\ RevokedIn(table, cs)[c] = "none" <=> table[c] = "none"
BY DEF RevokedIn, TokenState

\* A step that issues nothing and begins no refresh.
LEMMA NothingIssued ==
  ASSUME SessionsInv, login' = login, crossed' = crossed, refresh' \in [Credential -> TokenState],
         \A c \in Credential : /\ refresh'[c] = "live" => refresh[c] = "live"
                               /\ refresh'[c] = "none" <=> refresh[c] = "none",
         \/ asking' = asking
         \/ \E h \in AuthHandler : \E job : /\ asking' = [asking EXCEPT ![h] = job]
                                            /\ job = Resting \/ job.op # "refresh"
  PROVE  SessionsInv'
<1>1. /\ asking' = [h \in AuthHandler |-> asking'[h]]
      /\ \A h \in AuthHandler : asking'[h] = asking[h] \/ ~Has(h, "refresh")'
  <2>1. CASE asking' = asking BY <2>1 DEF SessionsInv
  <2>2. ASSUME NEW h \in AuthHandler, NEW job, asking' = [asking EXCEPT ![h] = job],
               job = Resting \/ job.op # "refresh"
        PROVE  /\ asking' = [k \in AuthHandler |-> asking'[k]]
               /\ \A k \in AuthHandler : asking'[k] = asking[k] \/ ~Has(k, "refresh")'
    BY <2>2 DEF SessionsInv, Has
  <2> QED BY <2>1, <2>2
<1>2. OneLiveTokenPerLogin'
  BY DEF SessionsInv, OneLiveTokenPerLogin
<1>3. ASSUME NEW h \in AuthHandler PROVE SoleRefresh(h)'
  <2> SUFFICES ASSUME Has(h, "refresh")'
               PROVE  LET c == asking'[h].id IN
                      /\ c \in Credential /\ refresh'[c] # "none"
                      /\ login[c] \notin crossed =>
                           /\ \A d \in Credential \ {c} : refresh'[d] = "live" => login[d] # login[c]
                           /\ \A k \in AuthHandler \ {h} :
                                Has(k, "refresh")' => login[asking'[k].id] # login[c]
    BY DEF SoleRefresh
  <2>1. asking'[h] = asking[h] /\ Has(h, "refresh") BY <1>1 DEF Has
  <2>2. \A k \in AuthHandler : Has(k, "refresh")' => asking'[k] = asking[k] /\ Has(k, "refresh")
    BY <1>1 DEF Has
  <2>3. SoleRefresh(h) BY DEF SessionsInv
  <2> QED BY <2>1, <2>2, <2>3 DEF SoleRefresh
<1>4. \A c \in Credential :
        refresh'[c] # "none" => login'[c] \in Credential /\ refresh'[login'[c]] # "none"
  BY DEF SessionsInv
<1>5. login' \in [Credential -> Credential \cup {NoCredential}]
  BY DEF SessionsInv
<1> QED
  BY <1>1, <1>2, <1>3, <1>4, <1>5 DEF SessionsInv

\* A refresh passes the check: either no other refresh of the chain is under
\* way, or the chain is a crossed one from now on.
LEMMA RefreshAsked ==
  ASSUME SessionsInv, NEW h \in AuthHandler, NEW c \in Credential, refresh[c] = "live",
         RefreshRead(h, c)
  PROVE  SessionsInv'
<1>1. PICK job : job = [op |-> "refresh", id |-> c]
  OBVIOUS
<1>2. /\ asking[h] = Resting /\ asking' = [asking EXCEPT ![h] = job]
      /\ refresh' = refresh /\ login' = login
      /\ crossed' = IF Refreshing(login[c]) = {} THEN crossed ELSE crossed \cup {login[c]}
  BY <1>1 DEF RefreshRead, Asks
<1>3. /\ asking' = [k \in AuthHandler |-> asking'[k]]
      /\ asking'[h] = job /\ \A k \in AuthHandler \ {h} : asking'[k] = asking[k]
  BY <1>2 DEF SessionsInv
<1>4. \A k \in AuthHandler \ {h} : Has(k, "refresh")' => Has(k, "refresh")
  BY <1>3 DEF Has
<1>5. \A first : first \notin crossed' => first \notin crossed
  BY <1>2
<1>6. login[c] \notin crossed' =>
        \A k \in AuthHandler \ {h} : Has(k, "refresh") => login[asking[k].id] # login[c]
  BY <1>2 DEF Refreshing
<1>7. OneLiveTokenPerLogin'
  BY <1>2, <1>5 DEF SessionsInv, OneLiveTokenPerLogin
<1>8. SoleRefresh(h)'
  <2>1. asking'[h].id = c /\ refresh'[c] # "none" BY <1>1, <1>2, <1>3
  <2>2. ASSUME login[c] \notin crossed', NEW d \in Credential \ {c}, refresh[d] = "live"
        PROVE  login[d] # login[c]
    BY <1>5, <2>2 DEF SessionsInv, OneLiveTokenPerLogin
  <2> QED BY <1>2, <1>3, <1>4, <1>6, <2>1, <2>2 DEF SoleRefresh
<1>9. ASSUME NEW k \in AuthHandler \ {h} PROVE SoleRefresh(k)'
  <2> SUFFICES ASSUME Has(k, "refresh")' PROVE SoleRefresh(k)'
    BY DEF SoleRefresh
  <2>1. Has(k, "refresh") /\ asking'[k] = asking[k] BY <1>3, <1>4
  <2>2. PICK e : e = asking[k].id OBVIOUS
  <2>3. /\ e \in Credential /\ refresh[e] # "none"
        /\ login[e] \notin crossed =>
             /\ \A d \in Credential \ {e} : refresh[d] = "live" => login[d] # login[e]
             /\ \A j \in AuthHandler \ {k} : Has(j, "refresh") => login[asking[j].id] # login[e]
    BY <2>1, <2>2 DEF SessionsInv, SoleRefresh
  <2>4. login[e] \notin crossed' => login[c] # login[e]
    <3> SUFFICES ASSUME login[e] \notin crossed', login[c] = login[e] PROVE FALSE
      OBVIOUS
    <3> QED BY <1>6, <2>1, <2>2
  <2>5. asking'[h].id = c BY <1>1, <1>3
  <2>6. ASSUME login[e] \notin crossed', NEW j \in AuthHandler \ {k}, Has(j, "refresh")'
        PROVE  login[asking'[j].id] # login[e]
    <3>1. CASE j = h BY <2>4, <2>5, <2>6, <3>1
    <3>2. CASE j # h BY <1>3, <1>4, <1>5, <2>3, <2>6, <3>2
    <3> QED BY <3>1, <3>2
  <2>7. ASSUME login[e] \notin crossed', NEW d \in Credential \ {e}, refresh[d] = "live"
        PROVE  login[d] # login[e]
    BY <1>5, <2>3, <2>7
  <2> QED BY <1>2, <2>1, <2>2, <2>3, <2>6, <2>7 DEF SoleRefresh
<1> QED
  BY <1>2, <1>3, <1>7, <1>8, <1>9 DEF SessionsInv

\* New credentials of a chain that has neither a live token nor a refresh under
\* way, unless it is a crossed one.
LEMMA Issued ==
  ASSUME SessionsInv, NEW c \in Credential, NEW first \in Credential,
         NEW refreshes \in [Credential -> TokenState],
         refresh[c] = "none", first = c \/ refresh[first] # "none", crossed' = crossed,
         \A d \in Credential : /\ refreshes[d] = "live" => refresh[d] = "live"
                               /\ refreshes[d] = "none" <=> refresh[d] = "none",
         first \notin crossed => \A d \in Credential : refreshes[d] = "live" => login[d] # first,
         refresh' = [refreshes EXCEPT ![c] = "live"],
         login' = [login EXCEPT ![c] = first],
         asking' = [h \in AuthHandler |-> asking'[h]],
         \A h \in AuthHandler : asking'[h] = asking[h] \/ asking'[h] = Resting,
         first \notin crossed =>
           \A h \in AuthHandler : Has(h, "refresh")' => login[asking[h].id] # first
  PROVE  SessionsInv'
<1>1. /\ refresh' \in [Credential -> TokenState]
      /\ login' \in [Credential -> Credential \cup {NoCredential}]
      /\ refresh'[c] = "live" /\ login'[c] = first
      /\ \A d \in Credential \ {c} : refresh'[d] = refreshes[d] /\ login'[d] = login[d]
  BY DEF SessionsInv, TokenState
<1>2. \A d \in Credential :
        refresh'[d] # "none" => login'[d] \in Credential /\ refresh'[login'[d]] # "none"
  BY <1>1 DEF SessionsInv
<1>3. OneLiveTokenPerLogin'
  BY <1>1 DEF SessionsInv, OneLiveTokenPerLogin
<1>4. \A h \in AuthHandler : Has(h, "refresh")' => Has(h, "refresh") /\ asking'[h] = asking[h]
  BY DEF Has
<1>5. ASSUME NEW h \in AuthHandler PROVE SoleRefresh(h)'
  <2> SUFFICES ASSUME Has(h, "refresh")' PROVE SoleRefresh(h)'
    BY DEF SoleRefresh
  <2>1. Has(h, "refresh") /\ asking'[h] = asking[h] BY <1>4
  <2>2. PICK e : e = asking[h].id OBVIOUS
  <2>3. /\ e \in Credential /\ refresh[e] # "none"
        /\ login[e] \notin crossed =>
             /\ \A d \in Credential \ {e} : refresh[d] = "live" => login[d] # login[e]
             /\ \A k \in AuthHandler \ {h} : Has(k, "refresh") => login[asking[k].id] # login[e]
    BY <2>1, <2>2 DEF SessionsInv, SoleRefresh
  <2>4. e # c /\ refresh'[e] # "none" /\ login'[e] = login[e] BY <1>1, <2>3
  <2>5. login[e] \notin crossed => first # login[e] BY <2>1, <2>2
  <2>6. ASSUME login[e] \notin crossed, NEW d \in Credential \ {e}, refresh'[d] = "live"
        PROVE  login'[d] # login[e]
    BY <1>1, <2>3, <2>5, <2>6
  <2>7. ASSUME login[e] \notin crossed, NEW k \in AuthHandler \ {h}, Has(k, "refresh")'
        PROVE  login'[asking'[k].id] # login[e]
    <3>1. Has(k, "refresh") /\ asking'[k] = asking[k] BY <1>4, <2>7
    <3>2. PICK g : g = asking[k].id OBVIOUS
    <3>3. g \in Credential /\ refresh[g] # "none"
      BY <3>1, <3>2 DEF SessionsInv, SoleRefresh
    <3>4. login'[g] = login[g] BY <1>1, <3>3
    <3> QED BY <2>3, <2>7, <3>1, <3>2, <3>4
  <2> QED BY <2>1, <2>2, <2>3, <2>4, <2>6, <2>7 DEF SoleRefresh
<1> QED
  BY <1>1, <1>2, <1>3, <1>5 DEF SessionsInv

\* No token is of the chain of a credential that is not there yet, nor is one
\* that is being refreshed.
LEMMA FreshChain ==
  ASSUME SessionsInv, NEW c \in Credential, refresh[c] = "none"
  PROVE  /\ \A d \in Credential : refresh[d] # "none" => login[d] # c
         /\ \A h \in AuthHandler : Has(h, "refresh") => login[asking[h].id] # c
<1>1. \A d \in Credential : refresh[d] # "none" => login[d] # c
  BY DEF SessionsInv
<1>2. ASSUME NEW h \in AuthHandler, Has(h, "refresh") PROVE login[asking[h].id] # c
  BY <1>1, <1>2 DEF SessionsInv, SoleRefresh
<1> QED BY <1>1, <1>2

\* A chain of its own.
LEMMA ChainBegins ==
  ASSUME SessionsInv, NEW c \in Credential, NEW refreshes \in [Credential -> TokenState],
         refresh[c] = "none", crossed' = crossed, asking' = asking,
         \A d \in Credential : /\ refreshes[d] = "live" => refresh[d] = "live"
                               /\ refreshes[d] = "none" <=> refresh[d] = "none",
         refresh' = [refreshes EXCEPT ![c] = "live"],
         login' = [login EXCEPT ![c] = c]
  PROVE  SessionsInv'
<1>1. \A d \in Credential : refreshes[d] = "live" => login[d] # c
  BY FreshChain
<1>2. asking' = [h \in AuthHandler |-> asking'[h]]
  BY DEF SessionsInv
<1>3. \A h \in AuthHandler : Has(h, "refresh")' => login[asking[h].id] # c
  BY FreshChain DEF Has
<1>4. \A h \in AuthHandler : asking'[h] = asking[h] \/ asking'[h] = Resting
  OBVIOUS
<1> QED
  BY <1>1, <1>2, <1>3, <1>4, Issued

\* Every step of the authentication service keeps the invariant.
LEMMA SessionsNextInv == SessionsInv /\ [SessionsNext]_sessionVars => SessionsInv'
<1> SUFFICES ASSUME SessionsInv, [SessionsNext]_sessionVars
             PROVE  SessionsInv'
  OBVIOUS
<1>1. /\ refresh \in [Credential -> TokenState]
      /\ login \in [Credential -> Credential \cup {NoCredential}]
      /\ asking = [h \in AuthHandler |-> asking[h]]
  BY DEF SessionsInv
<1>3. ASSUME refresh' = refresh, login' = login, crossed' = crossed,
             \/ asking' = asking
             \/ \E h \in AuthHandler : \E job : /\ asking' = [asking EXCEPT ![h] = job]
                                                /\ job = Resting \/ job.op # "refresh"
      PROVE  SessionsInv'
  BY <1>1, <1>3, NothingIssued
<1>4. ASSUME NEW cs, refresh' = RevokedIn(refresh, cs), login' = login, crossed' = crossed,
             asking' = asking
      PROVE  SessionsInv'
  BY <1>1, <1>4, RevokedFacts, NothingIssued
<1>5. ASSUME NEW u \in Account, NEW c \in Credential, Login(u, c) PROVE SessionsInv'
  <2>1. /\ refresh[c] = "none" /\ refresh' = [refresh EXCEPT ![c] = "live"]
        /\ login' = [login EXCEPT ![c] = c] /\ asking' = asking /\ crossed' = crossed
    BY <1>5 DEF Login, IssueCredentials
  <2> QED
    BY <1>1, <2>1, ChainBegins
<1>6. ASSUME NEW h \in AuthHandler, NEW u \in Account, InviteRead(h, u) PROVE SessionsInv'
  <2>1. PICK job : job = [op |-> "invite", account |-> u]
    OBVIOUS
  <2>2. job.op # "refresh" /\ asking' = [asking EXCEPT ![h] = job]
    BY <1>6, <2>1 DEF InviteRead, Asks
  <2> QED
    BY <1>3, <1>6, <2>2 DEF InviteRead
<1>7. ASSUME NEW h \in AuthHandler, NEW i \in Invitation, AcceptInvitationRead(h, i)
      PROVE  SessionsInv'
  <2>1. PICK job : job = [op |-> "accept", id |-> i]
    OBVIOUS
  <2>2. CASE invitation[i].expired
    BY <1>3, <1>7, <2>2 DEF AcceptInvitationRead
  <2>3. CASE ~invitation[i].expired
    <3>1. job.op # "refresh" /\ asking' = [asking EXCEPT ![h] = job]
      BY <1>7, <2>1, <2>3 DEF AcceptInvitationRead, Asks
    <3> QED BY <1>3, <1>7, <3>1 DEF AcceptInvitationRead
  <2> QED
    BY <2>2, <2>3
<1>8. ASSUME NEW h \in AuthHandler, NEW i \in Invitation,
             InviteCommit(h, i)
      PROVE  SessionsInv'
  BY <1>3, <1>8 DEF InviteCommit, Answers
<1>17. ASSUME NEW h \in AuthHandler, AcceptInvitationCommit(h) \/ AuthStops(h)
       PROVE  SessionsInv'
  BY <1>3, <1>17 DEF AcceptInvitationCommit, AuthStops, Answers
<1>18. ASSUME NEW i \in Invitation, InvitationExpires(i) PROVE SessionsInv'
  BY <1>3, <1>18 DEF InvitationExpires
<1>9. ASSUME NEW h \in AuthHandler, NEW c \in Credential, RefreshRead(h, c)
      PROVE  SessionsInv'
  <2>1. CASE refresh[c] # "live"
    BY <1>4, <1>9, <2>1 DEF RefreshRead
  <2>2. CASE refresh[c] = "live"
    BY <1>9, <2>2, RefreshAsked
  <2> QED
    BY <2>1, <2>2
<1>10. ASSUME NEW h \in AuthHandler, NEW new \in Credential, RefreshCommit(h, new)
       PROVE  SessionsInv'
  <2>1. PICK c : c = asking[h].id
    OBVIOUS
  <2>2. /\ Has(h, "refresh") /\ refresh[new] = "none"
        /\ refresh' = [RevokedIn(refresh, {c}) EXCEPT ![new] = "live"]
        /\ login' = [login EXCEPT ![new] = login[c]] /\ crossed' = crossed
        /\ asking' = [asking EXCEPT ![h] = Resting]
    BY <1>10, <2>1 DEF RefreshCommit, IssueCredentials, Answers
  <2>3. /\ c \in Credential /\ refresh[c] # "none"
        /\ login[c] \notin crossed =>
             /\ \A d \in Credential \ {c} : refresh[d] = "live" => login[d] # login[c]
             /\ \A k \in AuthHandler \ {h} : Has(k, "refresh") => login[asking[k].id] # login[c]
    BY <2>1, <2>2 DEF SessionsInv, SoleRefresh
  <2>4. /\ asking' = [k \in AuthHandler |-> asking'[k]]
        /\ asking'[h] = Resting /\ \A k \in AuthHandler \ {h} : asking'[k] = asking[k]
    BY <1>1, <2>2
  <2>5. login[c] \notin crossed =>
          \A k \in AuthHandler : Has(k, "refresh")' => login[asking[k].id] # login[c]
    BY <2>3, <2>4 DEF Has
  <2>6. PICK refreshes : refreshes = RevokedIn(refresh, {c})
    OBVIOUS
  <2>7. /\ refreshes \in [Credential -> TokenState]
        /\ \A d \in Credential : /\ refreshes[d] = "live" => refresh[d] = "live"
                                 /\ refreshes[d] = "none" <=> refresh[d] = "none"
    BY <1>1, <2>6, RevokedFacts
  <2>8. refreshes[c] # "live"
    BY <2>3, <2>6 DEF RevokedIn
  <2>9. login[c] \in Credential /\ refresh[login[c]] # "none"
    BY <2>3 DEF SessionsInv
  <2>10. login[c] \notin crossed => \A d \in Credential : refreshes[d] = "live" => login[d] # login[c]
    BY <2>3, <2>7, <2>8
  <2>11. refresh' = [refreshes EXCEPT ![new] = "live"]
    BY <2>2, <2>6
  <2>12. \A k \in AuthHandler : asking'[k] = asking[k] \/ asking'[k] = Resting
    BY <2>4
  <2>13. PICK first \in Credential : first = login[c]
    BY <2>9
  <2>14. /\ refresh[first] # "none" /\ refresh[new] = "none" /\ crossed' = crossed
         /\ login' = [login EXCEPT ![new] = first]
    BY <2>2, <2>9, <2>13
  <2>15. first \notin crossed => \A d \in Credential : refreshes[d] = "live" => login[d] # first
    BY <2>10, <2>13
  <2>16. first \notin crossed =>
           \A k \in AuthHandler : Has(k, "refresh")' => login[asking[k].id] # first
    BY <2>5, <2>13
  <2>17. asking' = [k \in AuthHandler |-> asking'[k]]
    BY <2>4
  <2> QED
    BY <2>7, <2>11, <2>12, <2>14, <2>15, <2>16, <2>17, Issued
<1>11. ASSUME NEW sessions, NEW refreshes, Logout(sessions, refreshes) PROVE SessionsInv'
  BY <1>4, <1>11 DEF Logout
<1>12. ASSUME NEW c \in Credential, NEW u \in Account, NEW b \in BOOLEAN,
              NEW new \in Credential, SwitchWorkspace(c, u, b, new)
       PROVE  SessionsInv'
  <2>1. PICK refreshes : refreshes = RevokedIn(refresh, IF b THEN {c} ELSE {})
    OBVIOUS
  <2>2. /\ refresh[new] = "none" /\ refresh' = [refreshes EXCEPT ![new] = "live"]
        /\ login' = [login EXCEPT ![new] = new] /\ asking' = asking /\ crossed' = crossed
    BY <1>12, <2>1 DEF SwitchWorkspace, IssueCredentials
  <2>3. /\ refreshes \in [Credential -> TokenState]
        /\ \A d \in Credential : /\ refreshes[d] = "live" => refresh[d] = "live"
                                 /\ refreshes[d] = "none" <=> refresh[d] = "none"
    BY <1>1, <2>1, RevokedFacts
  <2> QED
    BY <2>2, <2>3, ChainBegins
<1>13. ASSUME NEW c \in Credential, TokenExpires(c) PROVE SessionsInv'
  <2>1. login' = login /\ asking' = asking /\ crossed' = crossed
    BY <1>13 DEF TokenExpires
  <2>2. /\ refresh' \in [Credential -> TokenState]
        /\ \A d \in Credential : /\ refresh'[d] = "live" => refresh[d] = "live"
                                 /\ refresh'[d] = "none" <=> refresh[d] = "none"
    <3>1. CASE refresh' = refresh
      BY <1>1, <3>1
    <3>2. CASE refresh[c] = "live" /\ refresh' = [refresh EXCEPT ![c] = "expired"]
      <4>1. refresh'[c] = "expired" /\ \A d \in Credential \ {c} : refresh'[d] = refresh[d]
        BY <1>1, <3>2
      <4>2. refresh' \in [Credential -> TokenState]
        BY <1>1, <3>2 DEF TokenState
      <4> QED
        BY <3>2, <4>1, <4>2
    <3> QED
      BY <1>13, <3>1, <3>2 DEF TokenExpires
  <2> QED
    BY <2>1, <2>2, NothingIssued
<1>14. ASSUME LogoutAll PROVE SessionsInv'
  BY <1>4, <1>14 DEF LogoutAll
<1>15. CASE UNCHANGED sessionVars
  BY <1>3, <1>15 DEF sessionVars
<1>16. CASE SessionsNext
  BY <1>5, <1>6, <1>7, <1>8, <1>9, <1>10, <1>11, <1>12, <1>13, <1>14, <1>16,
     <1>17, <1>18 DEF SessionsNext, RevokeSession, RevokeOtherSessions
<1> QED
  BY <1>15, <1>16

\* Refresh token rotation, for any number of accounts, credentials and handlers
\* that overlap as they may, whatever is revoked or expires meanwhile: a login
\* has two live refresh tokens only if two of its refreshes overlapped.
\* (refresh, auth.service.ts: the check of revokedAt before the transaction)
THEOREM SecondTokenTakesOverlap == SessionsSpec => []OneLiveTokenPerLogin
<1>1. SessionsInit => SessionsInv
  BY DEF SessionsInit, SessionsInv, OneLiveTokenPerLogin, SoleRefresh, Has, TokenState
<1>2. SessionsInv /\ [SessionsNext]_sessionVars => SessionsInv'
  BY SessionsNextInv
<1>3. SessionsInv => OneLiveTokenPerLogin
  BY DEF SessionsInv
<1> QED
  BY <1>1, <1>2, <1>3, PTL DEF SessionsSpec

----------------------------------------------------------------------------
(* Assignments *)

\* Windows that do not meet; what makes a primary assignment the only one.
Apart(a, b) ==
  /\ placement[a].employee = placement[b].employee
  /\ placement[a].isPrimary /\ placement[b].isPrimary
  => placement[a].to <= placement[b].from \/ placement[b].to <= placement[a].from

PlacementInv ==
  /\ placement \in [PlacementId -> PlacementRow \cup {NoRecord}]
  /\ \A a \in Placements : placement[a].from < placement[a].to
  /\ \A a, b \in Placements : a # b => Apart(a, b)

LEMMA RowsOfPlacements ==
  ASSUME PlacementInv, NEW a \in Placements
  PROVE  /\ a \in PlacementId /\ placement[a] \in PlacementRow
         /\ placement[a].employee \in Person
         /\ placement[a].from \in Int /\ placement[a].to \in Int
         /\ placement[a].isPrimary \in BOOLEAN
  BY StaffingAssumption DEF PlacementInv, Placements, PlacementRow, Day, Forever

\* No two assignments that are only cut short, or taken away, come to meet.
LEMMA CutShort ==
  ASSUME PlacementInv,
         placement' \in [PlacementId -> PlacementRow \cup {NoRecord}],
         \A a \in Placements' :
           /\ a \in Placements
           /\ placement'[a].employee = placement[a].employee
           /\ placement'[a].isPrimary = placement[a].isPrimary
           /\ placement'[a].from = placement[a].from
           /\ placement'[a].to \in Int /\ placement'[a].to <= placement[a].to
           /\ placement'[a].from < placement'[a].to
  PROVE  PlacementInv'
<1>1. ASSUME NEW a \in Placements', NEW b \in Placements', a # b
      PROVE  Apart(a, b)'
  <2>1. Apart(a, b) BY <1>1 DEF PlacementInv
  <2>2. /\ placement[a].from \in Int /\ placement[a].to \in Int
        /\ placement[b].from \in Int /\ placement[b].to \in Int
    BY <1>1, RowsOfPlacements
  <2> QED BY <1>1, <2>1, <2>2, SMT DEF Apart
<1> QED BY <1>1 DEF PlacementInv

\* preparePrimaryWindow ends what is in the way of an assignment where it begins.
LEMMA WriteKeepsApart ==
  ASSUME PlacementInv, NEW id \in PlacementId, NEW row \in PlacementInput,
         NEW except \in {{}, {id}}, except = {} => placement[id] = NoRecord,
         NEW closeExisting, NEW allowOverBudget,
         Write(id, row, except, closeExisting, allowOverBudget)
  PROVE  PlacementInv'
<1> DEFINE cut == InTheWay(row, except)
           New(a) == IF a = id THEN row
                     ELSE IF a \in cut THEN [placement[a] EXCEPT !.to = row.from] ELSE placement[a]
<1>1. placement' = [a \in PlacementId |-> New(a)]
  BY DEF Write
<1>2. /\ row \in PlacementRow /\ row.from < row.to /\ row.isPrimary \in BOOLEAN
      /\ row.from \in Day /\ row.from \in Int /\ row.to \in Int
  BY StaffingAssumption DEF PlacementRow, Day, Forever
<1>3. \A a \in cut : a \in Placements \ except /\ placement[a].from < row.from
  BY DEF Write, WindowOK, InTheWay
<1>4. \A a \in Placements \ (except \cup cut) :
        row.isPrimary /\ placement[a].isPrimary /\ placement[a].employee = row.employee
          => row.to <= placement[a].from \/ placement[a].to <= row.from
  <2> SUFFICES ASSUME NEW a \in Placements \ (except \cup cut), row.isPrimary,
                      placement[a].isPrimary, placement[a].employee = row.employee
               PROVE  row.to <= placement[a].from \/ placement[a].to <= row.from
    OBVIOUS
  <2>1. ~Overlaps(a, row) BY DEF InTheWay
  <2>2. placement[a].from \in Int /\ placement[a].to \in Int BY RowsOfPlacements
  <2> QED BY <2>1, <2>2, <1>2 DEF Overlaps
<1> HIDE DEF cut
\* What an assignment other than the one that is written becomes.
<1>5. ASSUME NEW a \in Placements', a # id
      PROVE  /\ a \in Placements \ except
             /\ placement'[a] \in PlacementRow
             /\ placement'[a].employee = placement[a].employee
             /\ placement'[a].isPrimary = placement[a].isPrimary
             /\ placement'[a].from = placement[a].from
             /\ placement'[a].to \in Int /\ placement'[a].to <= placement[a].to
             /\ placement'[a].from < placement'[a].to
             /\ a \in cut => placement'[a].to = row.from
  <2>1. a \in PlacementId /\ placement'[a] # NoRecord BY DEF Placements
  <2>2. CASE a \in cut
    <3>1. placement'[a] = [placement[a] EXCEPT !.to = row.from] BY <1>1, <1>5, <2>1, <2>2
    <3>2. a \in Placements \ except /\ placement[a].from < row.from BY <2>2, <1>3
    <3>3. /\ placement[a] \in PlacementRow
          /\ placement[a].from \in Int /\ placement[a].to \in Int
      BY <3>2, RowsOfPlacements
    <3>4. /\ placement'[a] \in PlacementRow
          /\ placement'[a].employee = placement[a].employee
          /\ placement'[a].isPrimary = placement[a].isPrimary
          /\ placement'[a].from = placement[a].from
          /\ placement'[a].to = row.from
      BY <3>1, <3>3, <1>2 DEF PlacementRow
    <3>5. row.from <= placement[a].to
      BY <2>2, <3>3, <1>2 DEF cut, InTheWay, Overlaps
    <3> QED BY <3>2, <3>3, <3>4, <3>5, <1>2
  <2>3. CASE a \notin cut
    <3>1. placement'[a] = placement[a] BY <1>1, <1>5, <2>1, <2>3
    <3>2. a \in Placements BY <2>1, <3>1 DEF Placements
    <3>3. /\ placement[a] \in PlacementRow
          /\ placement[a].from \in Int /\ placement[a].to \in Int
      BY <3>2, RowsOfPlacements
    <3>4. placement[a].from < placement[a].to BY <3>2 DEF PlacementInv
    <3> QED BY <1>5, <2>3, <3>1, <3>2, <3>3, <3>4
  <2> QED BY <2>2, <2>3
<1>6. placement'[id] = row BY <1>1
<1>7. placement' \in [PlacementId -> PlacementRow \cup {NoRecord}]
  <2>1. \A a \in PlacementId : New(a) \in PlacementRow \cup {NoRecord}
    <3> SUFFICES ASSUME NEW a \in PlacementId, New(a) # NoRecord, a # id
                 PROVE  New(a) \in PlacementRow
      BY <1>2
    <3>1. placement'[a] = New(a) BY <1>1
    <3>2. a \in Placements' BY <3>1 DEF Placements
    <3> QED BY <1>5, <3>1, <3>2
  <2> HIDE DEF New
  <2> QED BY <1>1, <2>1
\* The one that is written meets no other.
<1>8. ASSUME NEW a \in Placements', a # id
      PROVE  Apart(a, id)' /\ Apart(id, a)'
  <2>1. CASE a \in cut
    BY <1>5, <1>8, <1>6, <1>2, <2>1 DEF Apart
  <2>2. CASE a \notin cut
    <3>1. a \in Placements \ (except \cup cut) BY <1>5, <1>8, <2>2
    <3>2. row.isPrimary /\ placement[a].isPrimary /\ placement[a].employee = row.employee
            => row.to <= placement[a].from \/ placement[a].to <= row.from
      BY <1>4, <3>1 DEF cut
    <3>3. placement[a].from \in Int /\ placement[a].to \in Int
      BY <3>1, RowsOfPlacements
    <3> QED BY <1>5, <1>8, <1>6, <1>2, <3>2, <3>3 DEF Apart
  <2> QED BY <2>1, <2>2
<1>9. ASSUME NEW a \in Placements', NEW b \in Placements', a # b
      PROVE  Apart(a, b)'
  <2>1. CASE a = id \/ b = id BY <1>8, <1>9, <2>1
  <2>2. CASE a # id /\ b # id
    <3>1. a \in Placements /\ b \in Placements BY <1>5, <1>9, <2>2
    <3>2. Apart(a, b) BY <1>9, <3>1 DEF PlacementInv
    <3>3. /\ placement[a].from \in Int /\ placement[a].to \in Int
          /\ placement[b].from \in Int /\ placement[b].to \in Int
      BY <3>1, RowsOfPlacements
    <3> QED BY <1>5, <1>9, <2>2, <3>2, <3>3 DEF Apart
  <2> QED BY <2>1, <2>2
<1>10. \A a \in Placements' : placement'[a].from < placement'[a].to
  BY <1>2, <1>5, <1>6
<1> QED BY <1>7, <1>9, <1>10 DEF PlacementInv

LEMMA EndKeepsApart ==
  ASSUME PlacementInv, ~EndsExtend, NEW id \in PlacementId, NEW end \in Day, EndPlacement(id, end)
  PROVE  PlacementInv'
<1>1. /\ placement[id] # NoRecord /\ placement[id].from < end /\ end <= placement[id].to
      /\ placement' = [placement EXCEPT ![id].to = end]
  BY DEF EndPlacement
<1>2. id \in Placements /\ placement[id] \in PlacementRow
  BY <1>1, RowsOfPlacements DEF Placements
<1>3. [placement[id] EXCEPT !.to = end] \in PlacementRow
  BY <1>2 DEF PlacementRow
<1>4. placement' = [placement EXCEPT ![id] = [placement[id] EXCEPT !.to = end]]
  BY <1>1
<1>5. placement' \in [PlacementId -> PlacementRow \cup {NoRecord}]
  BY <1>3, <1>4 DEF PlacementInv
<1>6. ASSUME NEW a \in Placements'
      PROVE  /\ a \in Placements
             /\ placement'[a].employee = placement[a].employee
             /\ placement'[a].isPrimary = placement[a].isPrimary
             /\ placement'[a].from = placement[a].from
             /\ placement'[a].to \in Int /\ placement'[a].to <= placement[a].to
             /\ placement'[a].from < placement'[a].to
  <2>1. a \in PlacementId /\ placement'[a] # NoRecord BY DEF Placements
  <2>2. CASE a = id
    <3>1. placement'[a] = [placement[id] EXCEPT !.to = end] BY <1>4, <2>2 DEF PlacementInv
    <3>2. /\ placement'[a].to = end
          /\ placement'[a].from = placement[a].from
          /\ placement'[a].employee = placement[a].employee
          /\ placement'[a].isPrimary = placement[a].isPrimary
      BY <3>1, <1>2, <2>2 DEF PlacementRow
    <3>3. end \in Int BY StaffingAssumption DEF Day
    <3> QED BY <1>1, <1>2, <2>2, <3>2, <3>3
  <2>3. CASE a # id
    <3>1. placement'[a] = placement[a] BY <1>4, <2>1, <2>3 DEF PlacementInv
    <3>2. a \in Placements BY <2>1, <3>1 DEF Placements
    <3> QED BY <3>1, <3>2, RowsOfPlacements DEF PlacementInv
  <2> QED BY <2>2, <2>3
<1> QED BY <1>5, <1>6, CutShort

LEMMA DeleteKeepsApart ==
  ASSUME PlacementInv, NEW id \in PlacementId, DeletePlacement(id)
  PROVE  PlacementInv'
<1>1. placement' = [placement EXCEPT ![id] = NoRecord] BY DEF DeletePlacement
<1>2. placement' \in [PlacementId -> PlacementRow \cup {NoRecord}]
  BY <1>1 DEF PlacementInv
<1>3. ASSUME NEW a \in Placements'
      PROVE  /\ a \in Placements
             /\ placement'[a].employee = placement[a].employee
             /\ placement'[a].isPrimary = placement[a].isPrimary
             /\ placement'[a].from = placement[a].from
             /\ placement'[a].to \in Int /\ placement'[a].to <= placement[a].to
             /\ placement'[a].from < placement'[a].to
  <2>1. placement'[a] = placement[a] /\ a \in Placements
    BY <1>1 DEF Placements, PlacementInv
  <2> QED BY <2>1, RowsOfPlacements DEF PlacementInv
<1> QED BY <1>2, <1>3, CutShort

LEMMA PlacementStep ==
  ~EndsExtend /\ PlacementInv /\ [StaffingNext]_staffingVars => PlacementInv'
<1> SUFFICES ASSUME ~EndsExtend, PlacementInv, [StaffingNext]_staffingVars PROVE PlacementInv'
  OBVIOUS
<1>1. CASE UNCHANGED placement
  BY <1>1 DEF PlacementInv, Placements, Apart
<1>2. CASE PlacementNext
  <2>1. PICK id \in PlacementId :
          \/ \E row \in PlacementInput, closeExisting \in BOOLEAN, over \in Overrides :
               CreatePlacement(id, row, closeExisting, over) \/ UpdatePlacement(id, row, closeExisting, over)
          \/ \E end \in Day : EndPlacement(id, end)
          \/ DeletePlacement(id)
    BY <1>2 DEF PlacementNext
  <2>2. ASSUME NEW row \in PlacementInput, NEW closeExisting \in BOOLEAN, NEW over \in Overrides,
               CreatePlacement(id, row, closeExisting, over)
        PROVE  PlacementInv'
    <3>1. placement[id] = NoRecord /\ Write(id, row, {}, closeExisting, over)
      BY <2>2 DEF CreatePlacement
    <3>2. {} \in {{}, {id}} /\ ({} = {} => placement[id] = NoRecord) BY <3>1
    <3> QED BY <3>1, <3>2, WriteKeepsApart
  <2>3. ASSUME NEW row \in PlacementInput, NEW closeExisting \in BOOLEAN, NEW over \in Overrides,
               UpdatePlacement(id, row, closeExisting, over)
        PROVE  PlacementInv'
    <3>1. Write(id, row, {id}, closeExisting, over) BY <2>3 DEF UpdatePlacement
    <3>2. {id} \in {{}, {id}} /\ ({id} = {} => placement[id] = NoRecord) OBVIOUS
    <3> QED BY <3>1, <3>2, WriteKeepsApart
  <2> QED BY <2>1, <2>2, <2>3, EndKeepsApart, DeleteKeepsApart
<1> QED
  BY <1>1, <1>2
  DEF StaffingNext, staffingVars, EmploymentNext, PositionNext, DayPasses, CreateEmployee,
      TransitionEmployee, RehireEmployee, ArchiveEmployee, RollbackEmployee, Archived, CreatePosition,
      UpdatePosition, TransitionPosition, ReopenPosition, DeletePosition

\* If an end only comes forward, an employee has one primary assignment on any
\* day, whatever is assigned, changed, ended or deleted.
\* (preparePrimaryWindow, endAssignment)
THEOREM OnePrimaryOnAnyDay == ~EndsExtend => (StaffingSpec => []OnePrimaryAtATime)
<1> SUFFICES ASSUME ~EndsExtend PROVE StaffingSpec => []OnePrimaryAtATime
  OBVIOUS
<1>1. StaffingInit => PlacementInv
  BY DEF StaffingInit, PlacementInv, Placements
<1>2. PlacementInv => OnePrimaryAtATime
  <2> SUFFICES ASSUME PlacementInv, NEW a \in Placements, NEW b \in Placements, NEW d \in Day, a # b,
                      placement[a].employee = placement[b].employee,
                      placement[a].isPrimary, placement[b].isPrimary
               PROVE  ~(ActiveOn(a, d) /\ ActiveOn(b, d))
    BY DEF OnePrimaryAtATime
  <2>1. placement[a].to <= placement[b].from \/ placement[b].to <= placement[a].from
    BY DEF PlacementInv, Apart
  <2>2. /\ placement[a].from \in Int /\ placement[a].to \in Int
        /\ placement[b].from \in Int /\ placement[b].to \in Int
    BY RowsOfPlacements
  <2>3. d \in Int BY StaffingAssumption DEF Day
  <2> QED BY <2>1, <2>2, <2>3 DEF ActiveOn
<1> QED
  BY <1>1, <1>2, PlacementStep, PTL DEF StaffingSpec
PositionsTyped == position \in [PositionId -> PositionRow \cup {NoRecord}]

----------------------------------------------------------------------------
(* The reporting lines of positions *)

\* What a set has to have with its members.
Closed(S) == \A r \in S, boss \in PositionId : Reports(r, boss) => boss \in S

LEMMA LineIsLeast ==
  ASSUME NEW p \in PositionId
  PROVE  /\ p \in ReportingLine(p) /\ Closed(ReportingLine(p)) /\ ReportingLine(p) \subseteq PositionId
         /\ \A S \in SUBSET PositionId : p \in S /\ Closed(S) => ReportingLine(p) \subseteq S
BY DEF ReportingLine, Closed

\* A superior was there when it was named.
Superiors ==
  \A p \in PositionId : position[p] # NoRecord =>
    position[p].reportsTo = NoPosition \/ position[position[p].reportsTo] # NoRecord

HierarchyInv == PositionsTyped /\ Superiors /\ HierarchyAcyclic

\* A position whose superior is changed, to one that it is not above, or that
\* names none to anybody who walks up.
LEMMA OneMoves ==
  ASSUME HierarchyInv, NEW p \in PositionId, NEW row \in PositionRow,
         position' = [position EXCEPT ![p] = row],
         row.reportsTo # NoPosition => position[row.reportsTo] # NoRecord,
         \/ row.deleted
         \/ Current(p) /\ row.reportsTo = position[p].reportsTo
         \/ row.reportsTo # NoPosition => p \notin ReportingLine(row.reportsTo)
  PROVE  HierarchyInv'
<1>1. position'[p] = row /\ \A q \in PositionId \ {p} : position'[q] = position[q]
  BY DEF HierarchyInv, PositionsTyped
<1>2. PositionsTyped' /\ row \in PositionRow /\ row # NoRecord
  BY <1>1, StaffingAssumption DEF HierarchyInv, PositionsTyped
<1>3. Superiors'
  <2> SUFFICES ASSUME NEW q \in PositionId, position'[q] # NoRecord, position'[q].reportsTo # NoPosition
               PROVE  position'[position'[q].reportsTo] # NoRecord
    BY DEF Superiors
  <2>1. position[position'[q].reportsTo] # NoRecord
    BY <1>1 DEF HierarchyInv, Superiors
  <2>2. position'[q].reportsTo \in PositionId
    BY <1>2 DEF PositionsTyped, PositionRow
  <2> QED
    BY <1>1, <1>2, <2>1, <2>2
<1>4. ASSUME NEW q \in PositionId, NEW c \in PositionId, NEW S \in SUBSET PositionId,
             c \in S, q \notin S, Closed(S)'
      PROVE  q \notin ReportingLine(c)'
  BY <1>4 DEF ReportingLine, Closed
<1>5. \A q \in PositionId \ {p}, c \in PositionId : Reports(q, c)' <=> Reports(q, c)
  BY <1>1 DEF Reports, Current
<1>6. \A q, c \in PositionId : Reports(q, c) => q \notin ReportingLine(c)
  BY DEF HierarchyInv, HierarchyAcyclic
<1>7. CASE row.deleted \/ (Current(p) /\ row.reportsTo = position[p].reportsTo)
  <2>1. \A q, c \in PositionId : Reports(q, c)' => Reports(q, c)
    BY <1>1, <1>5, <1>7 DEF Reports, Current
  <2>2. ASSUME NEW q \in PositionId, NEW c \in PositionId, Reports(q, c)' PROVE q \notin ReportingLine(c)'
    <3>1. Closed(ReportingLine(c))' \/ TRUE
      OBVIOUS
    <3> DEFINE S == ReportingLine(c)
    <3>2. S \in SUBSET PositionId /\ c \in S /\ Closed(S) /\ q \notin S
      BY <1>6, <2>1, <2>2, LineIsLeast
    <3>3. \A r \in S, boss \in PositionId : Reports(r, boss)' => boss \in S
      BY <2>1, <3>2 DEF Closed
    <3> HIDE DEF S
    <3> QED
      BY <3>2, <3>3 DEF ReportingLine
  <2> QED
    BY <1>2, <1>3, <2>2 DEF HierarchyInv, HierarchyAcyclic
<1>8. CASE row.reportsTo # NoPosition => p \notin ReportingLine(row.reportsTo)
  <2> DEFINE b == row.reportsTo
             up == IF b = NoPosition THEN {} ELSE ReportingLine(b)
  <2>1. b = NoPosition \/ b \in PositionId
    BY DEF PositionRow
  <2>2. up \in SUBSET PositionId /\ Closed(up) /\ p \notin up /\ (b \in PositionId => b \in up)
    BY <1>8, <2>1, LineIsLeast, StaffingAssumption DEF Closed
  <2>3. \A c \in PositionId : Reports(p, c)' => c \in up
    BY <1>1, <2>2 DEF Reports
  <2> HIDE DEF up, b
  <2>4. ASSUME NEW S \in SUBSET PositionId, Closed(S)
        PROVE  \A r \in S \cup up, boss \in PositionId : Reports(r, boss)' => boss \in S \cup up
    BY <1>5, <2>2, <2>3, <2>4 DEF Closed
  <2>5. ASSUME NEW q \in PositionId, NEW c \in PositionId, Reports(q, c)' PROVE q \notin ReportingLine(c)'
    <3> DEFINE line == ReportingLine(c)
    <3>1. line \in SUBSET PositionId /\ c \in line /\ Closed(line)
      BY LineIsLeast
    <3>2. CASE q = p
      <4>1. c \in up
        BY <2>3, <2>5, <3>2
      <4>2. \A r \in up, boss \in PositionId : Reports(r, boss)' => boss \in up
        BY <1>5, <2>2 DEF Closed
      <4> QED
        BY <2>2, <3>2, <4>1, <4>2 DEF ReportingLine
    <3>3. CASE q # p /\ p \notin line
      <4>1. q \notin line
        BY <1>5, <1>6, <2>5, <3>3
      <4>2. \A r \in line, boss \in PositionId : Reports(r, boss)' => boss \in line
        BY <1>5, <3>1, <3>3 DEF Closed
      <4> HIDE DEF line
      <4> QED
        BY <3>1, <4>1, <4>2 DEF ReportingLine
    <3>4. CASE q # p /\ p \in line
      <4>1. Reports(q, c) /\ q \notin line
        BY <1>5, <1>6, <2>5, <3>4
      <4>2. q \notin up
        <5> SUFFICES ASSUME q \in up PROVE FALSE
          OBVIOUS
        <5>1. c \in up
          BY <2>2, <4>1 DEF Closed
        <5>2. line \subseteq up
          BY <2>2, <5>1, LineIsLeast
        <5> QED
          BY <2>2, <3>4, <5>2
      <4>3. \A r \in line \cup up, boss \in PositionId : Reports(r, boss)' => boss \in line \cup up
        BY <2>4, <3>1
      <4> HIDE DEF line
      <4>4. line \cup up \in SUBSET PositionId /\ c \in line \cup up /\ q \notin line \cup up
        BY <2>2, <3>1, <4>1, <4>2
      <4> QED
        BY <4>3, <4>4 DEF ReportingLine
    <3> QED
      BY <3>2, <3>3, <3>4
  <2> QED
    BY <1>2, <1>3, <2>5 DEF HierarchyInv, HierarchyAcyclic
<1> QED
  BY <1>7, <1>8

\* Who is not there yet is above nobody.
LEMMA NotInLine ==
  ASSUME HierarchyInv, NEW p \in PositionId, position[p] = NoRecord,
         NEW boss \in PositionId, position[boss] # NoRecord
  PROVE  p \notin ReportingLine(boss)
<1> DEFINE S == {q \in PositionId : position[q] # NoRecord}
<1>1. S \in SUBSET PositionId /\ boss \in S /\ p \notin S
  OBVIOUS
<1>2. Closed(S)
  BY StaffingAssumption DEF Closed, Reports, Current, HierarchyInv, Superiors
<1> HIDE DEF S
<1> QED
  BY <1>1, <1>2, LineIsLeast

\* Archived positions are not reopened.
ArchivedStay == \A p \in PositionId : position[p] # NoRecord /\ position[p].deleted => position'[p].deleted

LEMMA HierarchyStep ==
  HierarchyInv /\ [ArchivedStay]_staffingVars /\ [StaffingNext]_staffingVars => HierarchyInv'
<1> SUFFICES ASSUME HierarchyInv, [ArchivedStay]_staffingVars, [StaffingNext]_staffingVars
             PROVE  HierarchyInv'
  OBVIOUS
<1>1. CASE UNCHANGED position
  BY <1>1 DEF HierarchyInv, PositionsTyped, Superiors, HierarchyAcyclic, Reports, Current, ReportingLine
<1>2. ASSUME NEW p \in PositionId, NEW st \in PositionStatus, NEW n \in BudgetInput,
             NEW boss \in PositionId \cup {NoPosition}, CreatePosition(p, st, n, boss)
      PROVE  HierarchyInv'
  <2> DEFINE row == [status |-> st, deleted |-> FALSE, budget |-> n, reportsTo |-> boss]
  <2>1. row \in PositionRow /\ row.reportsTo = boss
    BY StaffingAssumption DEF PositionRow
  <2>2. position' = [position EXCEPT ![p] = row] /\ position[p] = NoRecord
    BY <1>2 DEF CreatePosition
  <2>3. boss # NoPosition => boss \in PositionId /\ position[boss] # NoRecord
    BY <1>2 DEF CreatePosition, SuperiorOK, Current
  <2> HIDE DEF row
  <2> QED
    BY <2>1, <2>2, <2>3, NotInLine, OneMoves
<1>3. ASSUME NEW p \in PositionId, NEW st \in PositionStatus \cup {AsItWas}, NEW n \in BudgetInput,
             NEW boss \in PositionId \cup {NoPosition}, NEW under \in Overrides,
             UpdatePosition(p, st, n, boss, under)
      PROVE  HierarchyInv'
  <2> DEFINE status == IF st = AsItWas THEN position[p].status ELSE st
             row == [status |-> status, deleted |-> (st = "ARCHIVED"), budget |-> n, reportsTo |-> boss]
  <2>1. row \in PositionRow /\ row.reportsTo = boss
    <3>1. position[p] \in PositionRow
      BY <1>3 DEF UpdatePosition, Current, HierarchyInv, PositionsTyped
    <3>2. status \in PositionStatus
      BY <3>1 DEF PositionRow
    <3> HIDE DEF status
    <3> QED
      BY <3>2, StaffingAssumption DEF PositionRow
  <2>2. position' = [position EXCEPT ![p] = row]
    BY <1>3 DEF UpdatePosition
  <2>3. boss # NoPosition => position[boss] # NoRecord /\ p \notin ReportingLine(boss)
    BY <1>3 DEF UpdatePosition, ReportsToOK, SuperiorOK, Current
  <2> HIDE DEF row
  <2> QED
    BY <2>1, <2>2, <2>3, OneMoves
<1>4. ASSUME NEW p \in PositionId, NEW st \in PositionStatus, NEW off \in BOOLEAN,
             position' = [position EXCEPT ![p].status = st, ![p].deleted = off],
             position[p] # NoRecord, position[p].deleted => ~off
      PROVE  HierarchyInv'
  <2> DEFINE row == [position[p] EXCEPT !.status = st, !.deleted = off]
  <2>1. position[p] \in PositionRow
    BY <1>4 DEF Current, HierarchyInv, PositionsTyped
  <2>2. row \in PositionRow /\ row.reportsTo = position[p].reportsTo
    BY <2>1 DEF PositionRow
  <2>3. position' = [position EXCEPT ![p] = row]
    BY <1>4, <2>1 DEF HierarchyInv, PositionsTyped
  <2>4. row.reportsTo # NoPosition => position[row.reportsTo] # NoRecord
    BY <1>4, <2>2 DEF HierarchyInv, Superiors, Current
  <2>5. Current(p) \/ UNCHANGED position
    <3>1. position'[p].deleted = off
      BY <2>1, <1>4 DEF HierarchyInv, PositionsTyped, PositionRow
    <3> QED
      BY <1>4, <3>1 DEF ArchivedStay, staffingVars, Current
  <2> HIDE DEF row
  <2> QED
    BY <1>1, <2>2, <2>3, <2>4, <2>5, OneMoves
<1>5. ASSUME NEW p \in PositionId,
             \/ \E st \in PositionStatus \ {"DRAFT"} : TransitionPosition(p, st)
             \/ ReopenPosition(p) \/ DeletePosition(p)
      PROVE  HierarchyInv'
  <2>1. "DRAFT" \in PositionStatus /\ "ARCHIVED" \in PositionStatus
    BY DEF PositionStatus
  <2>2. ASSUME NEW st \in PositionStatus, TransitionPosition(p, st) PROVE HierarchyInv'
    <3> DEFINE off == (st = "ARCHIVED")
    <3>1. off \in BOOLEAN /\ position[p] # NoRecord /\ ~position[p].deleted
          /\ position' = [position EXCEPT ![p].status = st, ![p].deleted = off]
      BY <2>2 DEF TransitionPosition, Current
    <3> HIDE DEF off
    <3>2. st \in PositionStatus
      BY <2>2
    <3> QED
      BY <1>4, <3>1, <3>2, Zenon
  <2>3. CASE ReopenPosition(p)
    <3>1. position' = [position EXCEPT ![p].status = "DRAFT", ![p].deleted = FALSE]
          /\ position[p] # NoRecord
      BY <2>3 DEF ReopenPosition
    <3>2. FALSE \in BOOLEAN /\ TRUE \in BOOLEAN
      OBVIOUS
    <3> QED
      BY <1>4, <2>1, <3>1, <3>2, Zenon
  <2>4. CASE DeletePosition(p)
    <3>1. position' = [position EXCEPT ![p].status = "ARCHIVED", ![p].deleted = TRUE]
          /\ position[p] # NoRecord /\ ~position[p].deleted
      BY <2>4 DEF DeletePosition, Current
    <3>2. FALSE \in BOOLEAN /\ TRUE \in BOOLEAN
      OBVIOUS
    <3> QED
      BY <1>4, <2>1, <3>1, <3>2, Zenon
  <2> QED
    BY <1>5, <2>2, <2>3, <2>4
<1>6. CASE PositionNext
  BY <1>2, <1>3, <1>5, <1>6 DEF PositionNext
<1>7. CASE EmploymentNext \/ PlacementNext \/ DayPasses \/ UNCHANGED staffingVars
  BY <1>1, <1>7 DEF EmploymentNext, PlacementNext, DayPasses, staffingVars, CreateEmployee, TransitionEmployee,
     RehireEmployee, ArchiveEmployee, RollbackEmployee, Archived, CreatePlacement, UpdatePlacement, Write,
     EndPlacement, DeletePlacement
<1> QED
  BY <1>6, <1>7 DEF StaffingNext

\* assertReportsToChangeIsSafe: as long as archived positions are not reopened,
\* no position comes to be above itself, for any positions and any lines.
THEOREM HierarchyStaysAcyclic ==
  StaffingSpec /\ [][ArchivedStay]_staffingVars => []HierarchyAcyclic
<1>1. StaffingInit => HierarchyInv
  BY DEF StaffingInit, HierarchyInv, PositionsTyped, Superiors, HierarchyAcyclic, Reports, Current
<1>2. HierarchyInv => HierarchyAcyclic
  BY DEF HierarchyInv
<1> QED
  BY <1>1, <1>2, HierarchyStep, PTL DEF StaffingSpec

----------------------------------------------------------------------------
(* The places of positions *)

Holders(p, d) == {a \in Placements : placement[a].position = p /\ placement[a].isPrimary /\ ActiveOn(a, d)}

StaffTypes ==
  /\ placement \in [PlacementId -> PlacementRow \cup {NoRecord}]
  /\ PositionsTyped
  /\ employee \in [Person -> EmployeeRow \cup {NoRecord}]

\* The position of an assignment was there when it was named.
Held == \A a \in Placements : placement[a].position # NoPosition => position[placement[a].position] # NoRecord

OccupancyInv == StaffTypes /\ today \in Day /\ Held /\ OccupancyWithinCapacity

LEMMA PlacementRows ==
  ASSUME StaffTypes, NEW a \in Placements
  PROVE  /\ a \in PlacementId /\ placement[a] \in PlacementRow
         /\ placement[a].from \in Int /\ placement[a].to \in Int
         /\ placement[a].position \in PositionId \cup {NoPosition}
BY StaffingAssumption DEF StaffTypes, Placements, PlacementRow, Day, Forever

LEMMA FewHold ==
  ASSUME StaffTypes, NEW p, NEW d
  PROVE  IsFiniteSet(Holders(p, d)) /\ Cardinality(Holders(p, d)) \in Nat
<1>1. Holders(p, d) \in SUBSET PlacementId
  BY DEF Holders, Placements
<1> QED
  BY <1>1, FS_Subset, FS_CardinalityType, StaffingAssumption

\* The property, with names for its parts.
LEMMA CapacityIs ==
  OccupancyWithinCapacity <=>
    /\ \A p \in PositionId : position[p] # NoRecord =>
         /\ position[p].status \in {"CLOSED", "ARCHIVED"} => OpenOn(p) = {}
         /\ \A d \in Day : Cardinality(Holders(p, d)) <= position[p].budget
    /\ \A e \in Person : employee[e] # NoRecord /\ employee[e].deleted =>
         employee[e].rolledBack \/ OpenEnded(e) = {}
BY DEF OccupancyWithinCapacity, Holders

\* Assignments that are cut short, or taken away.
LEMMA FewerHold ==
  ASSUME OccupancyInv, StaffTypes', UNCHANGED <<employee, position, today>>,
         \A a \in Placements' :
           /\ a \in Placements
           /\ placement'[a].employee = placement[a].employee
           /\ placement'[a].position = placement[a].position
           /\ placement'[a].isPrimary = placement[a].isPrimary
           /\ placement'[a].from = placement[a].from
           /\ placement'[a].to = placement[a].to \/ (placement'[a].to \in Day /\ placement'[a].to <= placement[a].to)
  PROVE  OccupancyInv'
<1>1. ASSUME NEW a \in Placements'
      PROVE  /\ placement[a].from \in Int /\ placement[a].to \in Int /\ placement'[a].to \in Int
             /\ placement'[a].to <= placement[a].to
  BY <1>1, PlacementRows, StaffingAssumption DEF OccupancyInv, Day
<1>2. ASSUME NEW p \in PositionId, NEW d \in Day
      PROVE  Holders(p, d)' \subseteq Holders(p, d) /\ (OpenOn(p) = {} => OpenOn(p)' = {})
  <2>1. d \in Int /\ today \in Int
    BY StaffingAssumption DEF Day, OccupancyInv
  <2> QED
    BY <1>1, <2>1 DEF Holders, OpenOn, ActiveOn
<1>3. ASSUME NEW p \in PositionId, NEW d \in Day
      PROVE  /\ Cardinality(Holders(p, d)') \in Nat /\ Cardinality(Holders(p, d)) \in Nat
             /\ Cardinality(Holders(p, d)') <= Cardinality(Holders(p, d))
  <2>1. IsFiniteSet(Holders(p, d)) /\ Cardinality(Holders(p, d)) \in Nat
    BY FewHold DEF OccupancyInv
  <2> QED
    BY <1>2, <2>1, FS_Subset, FS_CardinalityType
<1>4. \A e \in Person : OpenEnded(e)' \subseteq OpenEnded(e)
  <2>1. Forever \notin Day
    BY StaffingAssumption DEF Day, Forever
  <2> QED
    BY <2>1 DEF OpenEnded
<1>5. \A p \in PositionId : position[p] # NoRecord => position[p].budget \in Nat
  BY DEF OccupancyInv, StaffTypes, PositionsTyped, PositionRow
<1>6. OccupancyWithinCapacity'
  <2>1. ASSUME NEW p \in PositionId, position'[p] # NoRecord
        PROVE  /\ position'[p].status \in {"CLOSED", "ARCHIVED"} => OpenOn(p)' = {}
               /\ \A d \in Day : Cardinality(Holders(p, d)') <= position'[p].budget
    <3>1. 0 \in Day
      BY StaffingAssumption DEF Day
    <3>2. /\ position[p].status \in {"CLOSED", "ARCHIVED"} => OpenOn(p) = {}
          /\ \A d \in Day : Cardinality(Holders(p, d)) <= position[p].budget
      BY <2>1, CapacityIs DEF OccupancyInv
    <3> QED
      BY <1>2, <1>3, <1>5, <2>1, <3>1, <3>2
  <2>2. \A e \in Person : employee'[e] # NoRecord /\ employee'[e].deleted =>
          employee'[e].rolledBack \/ OpenEnded(e)' = {}
    BY <1>4, CapacityIs DEF OccupancyInv
  <2> QED
    BY <2>1, <2>2 DEF OccupancyWithinCapacity, Holders
<1>7. Held'
  BY DEF OccupancyInv, Held
<1> QED
  BY <1>6, <1>7 DEF OccupancyInv

\* assertPositionHeadcount asks for the window of the assignment that is
\* written, after what was in its way has been cut short.
LEMMA WriteKeepsPlaces ==
  ASSUME OccupancyInv, NEW id \in PlacementId, NEW row \in PlacementInput, NEW closeExisting \in BOOLEAN,
         NEW except \in {{}, {id}}, except = {} => placement[id] = NoRecord,
         Write(id, row, except, closeExisting, FALSE)
  PROVE  OccupancyInv'
<1> DEFINE cut == InTheWay(row, except)
           seated == {a \in Placements \ (except \cup cut) :
                        placement[a].position = row.position /\ placement[a].isPrimary /\ Overlaps(a, row)}
<1>1. /\ row \in PlacementRow /\ row.from \in Day /\ row.from \in Int /\ row.to \in Int
      /\ row.position \in PositionId \cup {NoPosition} /\ row.employee \in Person
  BY StaffingAssumption DEF PlacementRow, Day, Forever
<1>2. UNCHANGED <<employee, position, today>>
  BY DEF Write
<1>3. /\ placement'[id] = row
      /\ \A a \in cut \ {id} : placement'[a] = [placement[a] EXCEPT !.to = row.from]
      /\ \A a \in PlacementId \ (cut \cup {id}) : placement'[a] = placement[a]
      /\ DOMAIN placement' = PlacementId
  BY DEF Write, InTheWay, Placements
<1>4. \A a \in cut : /\ a \in Placements /\ placement[a].from < row.to /\ row.from < placement[a].to
  BY DEF InTheWay, Overlaps
<1>5. ASSUME NEW a \in cut \ {id}
      PROVE  /\ placement'[a] \in PlacementRow /\ placement'[a].employee = placement[a].employee
             /\ placement'[a].position = placement[a].position
             /\ placement'[a].isPrimary = placement[a].isPrimary
             /\ placement'[a].from = placement[a].from /\ placement'[a].to = row.from
  <2>1. placement[a] \in PlacementRow
    BY <1>4, <1>5, PlacementRows DEF OccupancyInv
  <2> DEFINE old == placement[a]
             new == placement'[a]
  <2>2. old \in PlacementRow /\ new = [old EXCEPT !.to = row.from]
    BY <1>3, <1>5, <2>1
  <2> HIDE DEF old, new
  <2>3. /\ new \in PlacementRow /\ new.employee = old.employee /\ new.position = old.position
        /\ new.isPrimary = old.isPrimary /\ new.from = old.from /\ new.to = row.from
    BY <1>1, <2>2 DEF PlacementRow
  <2> QED
    BY <2>3 DEF old, new
<1>6. StaffTypes'
  <2>1. \A a \in PlacementId : placement'[a] \in PlacementRow \cup {NoRecord}
    BY <1>1, <1>3, <1>5 DEF OccupancyInv, StaffTypes
  <2>2. placement' = [a \in PlacementId |-> placement'[a]]
    BY DEF Write
  <2> QED
    BY <1>2, <2>1, <2>2 DEF OccupancyInv, StaffTypes, PositionsTyped
<1>7. ASSUME NEW a \in Placements', a # id
      PROVE  /\ a \in Placements /\ a \notin except
             /\ placement'[a].employee = placement[a].employee
             /\ placement'[a].position = placement[a].position
             /\ placement'[a].isPrimary = placement[a].isPrimary
             /\ placement'[a].from = placement[a].from
             /\ a \in cut => placement'[a].to = row.from
             /\ a \notin cut => placement'[a].to = placement[a].to
  BY <1>3, <1>4, <1>5, <1>7 DEF Placements
<1>8. ASSUME NEW a \in Placements
      PROVE  placement[a].from \in Int /\ placement[a].to \in Int
  BY <1>8, PlacementRows DEF OccupancyInv
<1>9. Held'
  <2> SUFFICES ASSUME NEW a \in Placements', placement'[a].position # NoPosition
               PROVE  position[placement'[a].position] # NoRecord
    BY <1>2 DEF Held
  <2>1. CASE a = id
    BY <1>3, <2>1 DEF Write, PositionOK, Current
  <2>2. CASE a # id
    BY <1>7, <2>2 DEF OccupancyInv, Held
  <2> QED
    BY <2>1, <2>2
<1>10. ASSUME NEW p \in PositionId, position[p] # NoRecord, position[p].status \in {"CLOSED", "ARCHIVED"}
       PROVE  OpenOn(p)' = {}
  <2>1. p # row.position
    BY <1>10, StaffingAssumption DEF Write, PositionOK
  <2>2. OpenOn(p) = {} /\ today \in Int
    BY <1>10, CapacityIs, StaffingAssumption DEF OccupancyInv, Day
  <2>3. ASSUME NEW a \in OpenOn(p)' PROVE FALSE
    <3>1. a \in Placements' /\ placement'[a].position = p /\ placement'[a].to > today
      BY <1>2, <2>3 DEF OpenOn
    <3>2. a # id
      BY <1>3, <2>1, <3>1
    <3>3. a \in Placements /\ placement[a].position = p /\ placement[a].to > today
      BY <1>1, <1>4, <1>7, <1>8, <2>2, <3>1, <3>2
    <3> QED
      BY <2>2, <3>3 DEF OpenOn
  <2> QED
    BY <2>3
<1>11. ASSUME NEW e \in Person, employee[e] # NoRecord, employee[e].deleted
       PROVE  OpenEnded(e)' \subseteq OpenEnded(e)
  <2>1. e # row.employee
    BY <1>11 DEF Write, Assignable, Employed
  <2>2. row.from # Forever
    BY <1>1, StaffingAssumption DEF Day, Forever
  <2> SUFFICES ASSUME NEW a \in OpenEnded(e)' PROVE a \in OpenEnded(e)
    OBVIOUS
  <2>3. a \in Placements' /\ placement'[a].employee = e /\ placement'[a].to = Forever
    BY DEF OpenEnded, Forever
  <2>4. a # id
    BY <1>3, <2>1, <2>3
  <2> QED
    BY <1>7, <2>2, <2>3, <2>4 DEF OpenEnded
<1>12. ASSUME NEW p \in PositionId, position[p] # NoRecord, NEW d \in Day
       PROVE  Cardinality(Holders(p, d)') <= position[p].budget
  <2>1. d \in Int /\ position[p].budget \in Nat
    BY <1>12, StaffingAssumption DEF Day, OccupancyInv, StaffTypes, PositionsTyped, PositionRow
  <2>2. Cardinality(Holders(p, d)) <= position[p].budget
    BY <1>12, CapacityIs DEF OccupancyInv
  <2>3. IsFiniteSet(Holders(p, d)) /\ Cardinality(Holders(p, d)) \in Nat
    BY FewHold DEF OccupancyInv
  <2>4. CASE id \in Holders(p, d)'
    <3>1. row.position = p /\ row.isPrimary /\ row.from <= d /\ d < row.to
      BY <1>3, <2>4 DEF Holders, ActiveOn
    <3>2. Cardinality(seated) < position[p].budget
      <4>1. Occupied(row, except) < position[p].budget
        BY <3>1, <1>12, StaffingAssumption DEF Write, PositionOK
      <4> QED
        BY <4>1 DEF Occupied
    <3>3. Holders(p, d)' \subseteq seated \cup {id}
      <4> SUFFICES ASSUME NEW a \in Holders(p, d)', a # id PROVE a \in seated
        OBVIOUS
      <4>1. a \in Placements' /\ placement'[a].position = p /\ placement'[a].isPrimary
            /\ placement'[a].from <= d /\ d < placement'[a].to
        BY DEF Holders, ActiveOn
      <4>2. a \in Placements /\ a \notin except /\ a \notin cut
        BY <1>1, <1>7, <2>1, <3>1, <4>1
      <4>3. placement[a].from <= d /\ d < placement[a].to
        BY <1>7, <4>1, <4>2
      <4>4. Overlaps(a, row)
        BY <1>1, <1>8, <2>1, <3>1, <4>2, <4>3 DEF Overlaps
      <4> HIDE DEF cut
      <4> QED
        BY <1>7, <3>1, <4>1, <4>2, <4>4
    <3>4. IsFiniteSet(seated)
      BY FS_Subset, StaffingAssumption DEF Placements
    <3> HIDE DEF seated
    <3>5. IsFiniteSet(seated \cup {id}) /\ Cardinality(seated) \in Nat
          /\ Cardinality(seated \cup {id}) <= Cardinality(seated) + 1
      <4>1. Cardinality(seated) \in Nat
        BY <3>4, FS_CardinalityType
      <4>2. IsFiniteSet(seated \cup {id})
            /\ Cardinality(seated \cup {id}) \in {Cardinality(seated), Cardinality(seated) + 1}
        BY <3>4, FS_AddElement
      <4> QED
        BY <4>1, <4>2
    <3>6. /\ Cardinality(Holders(p, d)') <= Cardinality(seated \cup {id})
          /\ Cardinality(Holders(p, d)') \in Nat /\ Cardinality(seated \cup {id}) \in Nat
      BY <3>3, <3>5, FS_Subset, FS_CardinalityType
    <3> QED
      BY <2>1, <3>2, <3>5, <3>6
  <2>5. CASE id \notin Holders(p, d)'
    <3>1. Holders(p, d)' \subseteq Holders(p, d)
      <4> SUFFICES ASSUME NEW a \in Holders(p, d)' PROVE a \in Holders(p, d)
        OBVIOUS
      <4>1. a # id
        BY <2>5
      <4>2. a \in Placements' /\ placement'[a].position = p /\ placement'[a].isPrimary
            /\ placement'[a].from <= d /\ d < placement'[a].to
        BY DEF Holders, ActiveOn
      <4>3. placement[a].from <= d /\ d < placement[a].to
        BY <1>1, <1>4, <1>7, <1>8, <2>1, <4>1, <4>2
      <4> QED
        BY <1>7, <4>1, <4>2, <4>3 DEF Holders, ActiveOn
    <3>2. Cardinality(Holders(p, d)') <= Cardinality(Holders(p, d)) /\ Cardinality(Holders(p, d)') \in Nat
      BY <2>3, <3>1, FS_Subset, FS_CardinalityType
    <3> QED
      BY <2>1, <2>2, <2>3, <3>2
  <2> QED
    BY <2>4, <2>5
<1>13. OccupancyWithinCapacity'
  <2>1. \A e \in Person : employee[e] # NoRecord /\ employee[e].deleted =>
          employee[e].rolledBack \/ OpenEnded(e)' = {}
    BY <1>11, CapacityIs DEF OccupancyInv
  <2> HIDE DEF cut, seated
  <2> QED
    BY <1>2, <1>10, <1>12, <2>1 DEF OccupancyWithinCapacity, Holders
<1> QED
  BY <1>2, <1>6, <1>9, <1>13 DEF OccupancyInv

\* A position is written: with no fewer places, and closed only if nobody is or
\* will be there.
LEMMA PositionKeepsPlaces ==
  ASSUME OccupancyInv, NEW p \in PositionId, NEW row \in PositionRow,
         position' = [position EXCEPT ![p] = row], UNCHANGED <<employee, placement, today>>,
         position[p] # NoRecord => position[p].budget <= row.budget,
         row.status \in {"CLOSED", "ARCHIVED"} => OpenOn(p) = {} \/ position[p] = NoRecord
  PROVE  OccupancyInv'
<1>1. position'[p] = row /\ (\A q \in PositionId \ {p} : position'[q] = position[q]) /\ row # NoRecord
  BY StaffingAssumption DEF OccupancyInv, StaffTypes, PositionsTyped
<1>2. StaffTypes' /\ Held' /\ today' \in Day
  BY <1>1, StaffingAssumption
     DEF OccupancyInv, StaffTypes, PositionsTyped, Held, Placements, PlacementRow
<1>3. position[p] = NoRecord => OpenOn(p) = {} /\ \A d \in Day : Holders(p, d) = {}
  BY StaffingAssumption DEF OccupancyInv, Held, OpenOn, Holders
<1>4. row.budget \in Nat /\ (position[p] # NoRecord => position[p].budget \in Nat)
  BY DEF OccupancyInv, StaffTypes, PositionsTyped, PositionRow
<1>5. ASSUME NEW d \in Day PROVE Cardinality(Holders(p, d)) <= row.budget
  <2>1. CASE position[p] = NoRecord
    <3>1. Cardinality(Holders(p, d)) = 0
      BY <1>3, <2>1, FS_EmptySet
    <3> QED
      BY <1>4, <3>1
  <2>2. CASE position[p] # NoRecord
    <3>1. Cardinality(Holders(p, d)) <= position[p].budget /\ Cardinality(Holders(p, d)) \in Nat
      BY <2>2, CapacityIs, FewHold DEF OccupancyInv
    <3> QED
      BY <1>4, <2>2, <3>1
  <2> QED
    BY <2>1, <2>2
<1>6. \A q \in PositionId : OpenOn(q)' = OpenOn(q) /\ \A d \in Day : Holders(q, d)' = Holders(q, d)
  BY DEF OpenOn, Holders, Placements, ActiveOn
<1>7. \A e \in Person : OpenEnded(e)' = OpenEnded(e)
  BY DEF OpenEnded, Placements
<1>8. ASSUME NEW q \in PositionId, position'[q] # NoRecord
      PROVE  /\ position'[q].status \in {"CLOSED", "ARCHIVED"} => OpenOn(q)' = {}
             /\ \A d \in Day : Cardinality(Holders(q, d)') <= position'[q].budget
  <2>1. CASE q = p
    BY <1>1, <1>3, <1>5, <1>6, <2>1
  <2>2. CASE q # p
    BY <1>1, <1>6, <1>8, <2>2, CapacityIs DEF OccupancyInv
  <2> QED
    BY <2>1, <2>2
<1>9. \A e \in Person : employee'[e] # NoRecord /\ employee'[e].deleted =>
        employee'[e].rolledBack \/ OpenEnded(e)' = {}
  BY <1>7, CapacityIs DEF OccupancyInv
<1> QED
  BY <1>2, <1>8, <1>9 DEF OccupancyInv, OccupancyWithinCapacity, Holders

\* An employment is written: archived only without assignments that have no end,
\* or by the rollback of an import.
LEMMA EmploymentKeepsPlaces ==
  ASSUME OccupancyInv, NEW e \in Person, NEW row \in EmployeeRow,
         employee' = [employee EXCEPT ![e] = row], UNCHANGED <<position, placement, today>>,
         row.deleted => \/ row.rolledBack \/ OpenEnded(e) = {}
                        \/ employee[e] # NoRecord /\ employee[e].deleted /\ employee[e].rolledBack = row.rolledBack
  PROVE  OccupancyInv'
<1>1. employee'[e] = row /\ \A f \in Person \ {e} : employee'[f] = employee[f]
  BY DEF OccupancyInv, StaffTypes
<1>2. StaffTypes' /\ Held' /\ today' \in Day
  BY <1>1 DEF OccupancyInv, StaffTypes, PositionsTyped, Held, Placements
<1>3. \A p \in PositionId : OpenOn(p)' = OpenOn(p) /\ \A d \in Day : Holders(p, d)' = Holders(p, d)
  BY DEF OpenOn, Holders, Placements, ActiveOn
<1>4. \A f \in Person : OpenEnded(f)' = OpenEnded(f)
  BY DEF OpenEnded, Placements
<1>5. \A f \in Person : employee'[f] # NoRecord /\ employee'[f].deleted =>
        employee'[f].rolledBack \/ OpenEnded(f)' = {}
  BY <1>1, <1>4, CapacityIs DEF OccupancyInv
<1>6. \A p \in PositionId : position'[p] # NoRecord =>
        /\ position'[p].status \in {"CLOSED", "ARCHIVED"} => OpenOn(p)' = {}
        /\ \A d \in Day : Cardinality(Holders(p, d)') <= position'[p].budget
  BY <1>3, CapacityIs DEF OccupancyInv
<1> QED
  BY <1>2, <1>5, <1>6 DEF OccupancyInv, OccupancyWithinCapacity, Holders

LEMMA EmploymentStep == ASSUME OccupancyInv, EmploymentNext PROVE OccupancyInv'
<1> SUFFICES ASSUME NEW e \in Person,
                    \/ \E st \in EmployeeStatus :
                         \/ \E imported \in BOOLEAN : CreateEmployee(e, st, imported)
                         \/ TransitionEmployee(e, st) \/ RehireEmployee(e, st)
                    \/ ArchiveEmployee(e) \/ RollbackEmployee(e)
             PROVE  OccupancyInv'
  BY DEF EmploymentNext
<1>1. employee \in [Person -> EmployeeRow \cup {NoRecord}]
  BY DEF OccupancyInv, StaffTypes
<1>2. ASSUME NEW st \in EmployeeStatus, NEW imported \in BOOLEAN, CreateEmployee(e, st, imported)
      PROVE  OccupancyInv'
  <2> DEFINE row == [status |-> st, deleted |-> FALSE, imported |-> imported, rolledBack |-> FALSE]
  <2>1. row \in EmployeeRow /\ ~row.deleted
    BY DEF EmployeeRow
  <2>2. employee' = [employee EXCEPT ![e] = row] /\ UNCHANGED <<position, placement, today>>
    BY <1>2 DEF CreateEmployee
  <2> HIDE DEF row
  <2> QED
    BY <2>1, <2>2, EmploymentKeepsPlaces
<1>3. ASSUME NEW st \in EmployeeStatus, TransitionEmployee(e, st) PROVE OccupancyInv'
  <2> DEFINE row == [employee[e] EXCEPT !.status = st]
  <2>1. employee[e] \in EmployeeRow /\ ~employee[e].deleted
    BY <1>1, <1>3 DEF TransitionEmployee, Employed
  <2>2. row \in EmployeeRow /\ ~row.deleted
    BY <2>1 DEF EmployeeRow
  <2>3. employee' = [employee EXCEPT ![e] = row] /\ UNCHANGED <<position, placement, today>>
    BY <1>1, <1>3 DEF TransitionEmployee
  <2> HIDE DEF row
  <2> QED
    BY <2>2, <2>3, EmploymentKeepsPlaces
<1>4. ASSUME NEW st \in EmployeeStatus, RehireEmployee(e, st) PROVE OccupancyInv'
  <2> DEFINE row == [employee[e] EXCEPT !.status = st, !.deleted = FALSE]
  <2>1. employee[e] \in EmployeeRow
    BY <1>1, <1>4 DEF RehireEmployee
  <2>2. row \in EmployeeRow /\ ~row.deleted
    BY <2>1 DEF EmployeeRow
  <2>3. employee' = [employee EXCEPT ![e] = row] /\ UNCHANGED <<position, placement, today>>
    BY <1>1, <1>4 DEF RehireEmployee
  <2> HIDE DEF row
  <2> QED
    BY <2>2, <2>3, EmploymentKeepsPlaces
<1>5. ASSUME NEW rolledBack \in BOOLEAN, Archived(e, rolledBack), Employed(e),
             rolledBack \/ OpenEnded(e) = {}
      PROVE  OccupancyInv'
  <2> DEFINE back == employee[e].rolledBack \/ rolledBack
             row == [employee[e] EXCEPT !.status = "ARCHIVED", !.deleted = TRUE, !.rolledBack = back]
  <2>1. employee[e] \in EmployeeRow
    BY <1>1, <1>5 DEF Employed
  <2>2. row \in EmployeeRow /\ row.rolledBack = back
    BY <2>1 DEF EmployeeRow, EmployeeStatus
  <2>3. employee' = [employee EXCEPT ![e] = row] /\ UNCHANGED <<position, placement, today>>
    BY <1>1, <1>5 DEF Archived
  <2>4. row.rolledBack \/ OpenEnded(e) = {}
    BY <1>5, <2>2
  <2> HIDE DEF row
  <2> QED
    BY <2>2, <2>3, <2>4, EmploymentKeepsPlaces
<1>6. CASE ArchiveEmployee(e)
  <2>1. Archived(e, FALSE) /\ Employed(e) /\ OpenEnded(e) = {} /\ FALSE \in BOOLEAN
    BY <1>6 DEF ArchiveEmployee
  <2> QED
    BY <1>5, <2>1, Zenon
<1>7. CASE RollbackEmployee(e)
  <2>1. Archived(e, TRUE) /\ Employed(e) /\ TRUE \in BOOLEAN
    BY <1>7 DEF RollbackEmployee
  <2> QED
    BY <1>5, <2>1, Zenon
<1> QED
  BY <1>2, <1>3, <1>4, <1>6, <1>7

\* No position loses places.
BudgetsGrow == \A p \in PositionId : position[p] # NoRecord => position[p].budget <= position'[p].budget

LEMMA PositionsStep == ASSUME OccupancyInv, PositionNext, [BudgetsGrow]_staffingVars PROVE OccupancyInv'
<1>1. PositionsTyped
  BY DEF OccupancyInv, StaffTypes
<1>2. ASSUME NEW p \in PositionId, NEW st \in PositionStatus, NEW n \in BudgetInput,
             NEW boss \in PositionId \cup {NoPosition}, CreatePosition(p, st, n, boss)
      PROVE  OccupancyInv'
  <2> DEFINE row == [status |-> st, deleted |-> FALSE, budget |-> n, reportsTo |-> boss]
  <2>1. row \in PositionRow
    BY StaffingAssumption DEF PositionRow
  <2>2. /\ position' = [position EXCEPT ![p] = row] /\ position[p] = NoRecord
        /\ UNCHANGED <<employee, placement, today>>
    BY <1>2 DEF CreatePosition
  <2> HIDE DEF row
  <2> QED
    BY <2>1, <2>2, PositionKeepsPlaces
<1>3. ASSUME NEW p \in PositionId, NEW st \in PositionStatus \cup {AsItWas}, NEW n \in BudgetInput,
             NEW boss \in PositionId \cup {NoPosition}, NEW under \in Overrides,
             UpdatePosition(p, st, n, boss, under)
      PROVE  OccupancyInv'
  <2> DEFINE status == IF st = AsItWas THEN position[p].status ELSE st
             row == [status |-> status, deleted |-> (st = "ARCHIVED"), budget |-> n, reportsTo |-> boss]
  <2>7. position[p] # NoRecord /\ position[p] \in PositionRow
    BY <1>1, <1>3 DEF UpdatePosition, Current, PositionsTyped
  <2>8. status \in PositionStatus
    BY <2>7 DEF PositionRow
  <2>9. status \in {"CLOSED", "ARCHIVED"} => OpenOn(p) = {}
    <3>1. CASE st = AsItWas
      BY <2>7, <3>1 DEF OccupancyInv, OccupancyWithinCapacity
    <3>2. CASE st # AsItWas
      BY <1>3, <3>2 DEF UpdatePosition, CanClose
    <3> QED
      BY <3>1, <3>2
  <2>2. /\ position' = [position EXCEPT ![p] = row] /\ UNCHANGED <<employee, placement, today>>
        /\ position[p] # NoRecord
    BY <1>3, <2>7 DEF UpdatePosition
  <2> HIDE DEF status
  <2>1. row \in PositionRow /\ row.status = status
    BY <2>8, StaffingAssumption DEF PositionRow
  <2>3. position'[p] = row
    BY <1>1, <2>2 DEF PositionsTyped
  <2>4. BudgetsGrow \/ position' = position
    BY DEF staffingVars
  <2>5. position[p].budget \in Nat
    BY <1>1, <2>2 DEF PositionsTyped, PositionRow
  <2>6. position[p].budget <= row.budget
    BY <2>2, <2>3, <2>4, <2>5 DEF BudgetsGrow
  <2> HIDE DEF row
  <2> QED
    BY <2>1, <2>2, <2>6, <2>9, PositionKeepsPlaces
<1>4. ASSUME NEW p \in PositionId, NEW st \in PositionStatus, NEW off \in BOOLEAN, position[p] # NoRecord,
             position' = [position EXCEPT ![p].status = st, ![p].deleted = off],
             st \in {"CLOSED", "ARCHIVED"} => OpenOn(p) = {}, UNCHANGED <<employee, placement, today>>
      PROVE  OccupancyInv'
  <2> DEFINE row == [position[p] EXCEPT !.status = st, !.deleted = off]
  <2>1. position[p] \in PositionRow
    BY <1>1, <1>4 DEF PositionsTyped
  <2>2. row \in PositionRow /\ row.status = st /\ row.budget = position[p].budget /\ position[p].budget \in Nat
    BY <2>1 DEF PositionRow
  <2>3. position' = [position EXCEPT ![p] = row]
    BY <1>1, <1>4 DEF PositionsTyped
  <2>4. position[p].budget <= row.budget
    BY <2>2
  <2> HIDE DEF row
  <2> QED
    BY <1>4, <2>2, <2>3, <2>4, PositionKeepsPlaces
<1>5. ASSUME NEW p \in PositionId,
             \/ \E st \in PositionStatus \ {"DRAFT"} : TransitionPosition(p, st)
             \/ ReopenPosition(p) \/ DeletePosition(p)
      PROVE  OccupancyInv'
  <2>1. "DRAFT" \in PositionStatus /\ "ARCHIVED" \in PositionStatus /\ "DRAFT" \notin {"CLOSED", "ARCHIVED"}
    BY DEF PositionStatus
  <2>2. ASSUME NEW st \in PositionStatus, TransitionPosition(p, st) PROVE OccupancyInv'
    <3> DEFINE off == (st = "ARCHIVED")
    <3>1. off \in BOOLEAN /\ position[p] # NoRecord /\ UNCHANGED <<employee, placement, today>>
          /\ position' = [position EXCEPT ![p].status = st, ![p].deleted = off]
          /\ (st \in {"CLOSED", "ARCHIVED"} => OpenOn(p) = {})
      BY <2>2 DEF TransitionPosition, Current, CanClose
    <3> HIDE DEF off
    <3>2. st \in PositionStatus
      BY <2>2
    <3> QED
      BY <1>4, <3>1, <3>2, Zenon
  <2>3. CASE ReopenPosition(p)
    <3>1. position' = [position EXCEPT ![p].status = "DRAFT", ![p].deleted = FALSE]
          /\ position[p] # NoRecord /\ UNCHANGED <<employee, placement, today>>
      BY <2>3 DEF ReopenPosition
    <3>2. FALSE \in BOOLEAN /\ ("DRAFT" \in {"CLOSED", "ARCHIVED"} => OpenOn(p) = {})
      BY <2>1
    <3> QED
      BY <1>4, <2>1, <3>1, <3>2, Zenon
  <2>4. CASE DeletePosition(p)
    <3>1. position' = [position EXCEPT ![p].status = "ARCHIVED", ![p].deleted = TRUE]
          /\ position[p] # NoRecord /\ UNCHANGED <<employee, placement, today>> /\ OpenOn(p) = {}
      BY <2>4 DEF DeletePosition, Current, CanClose
    <3>2. TRUE \in BOOLEAN
      OBVIOUS
    <3> QED
      BY <1>4, <2>1, <3>1, <3>2, Zenon
  <2> QED
    BY <1>5, <2>2, <2>3, <2>4
<1> QED
  BY <1>2, <1>3, <1>5 DEF PositionNext

LEMMA PlacementsStep ==
  ASSUME OccupancyInv, PlacementNext, ~EndsExtend, Overrides \subseteq {FALSE} PROVE OccupancyInv'
<1> SUFFICES ASSUME NEW id \in PlacementId,
                    \/ \E row \in PlacementInput, closeExisting \in BOOLEAN, over \in Overrides :
                         CreatePlacement(id, row, closeExisting, over)
                         \/ UpdatePlacement(id, row, closeExisting, over)
                    \/ \E end \in Day : EndPlacement(id, end)
                    \/ DeletePlacement(id)
             PROVE  OccupancyInv'
  BY DEF PlacementNext
<1>1. ASSUME NEW row \in PlacementInput, NEW closeExisting \in BOOLEAN, NEW over \in Overrides,
             CreatePlacement(id, row, closeExisting, over) \/ UpdatePlacement(id, row, closeExisting, over)
      PROVE  OccupancyInv'
  <2>1. over = FALSE
    OBVIOUS
  <2>2. PICK except \in {{}, {id}} :
          (except = {} => placement[id] = NoRecord) /\ Write(id, row, except, closeExisting, FALSE)
    BY <1>1, <2>1 DEF CreatePlacement, UpdatePlacement
  <2> QED
    BY <2>2, WriteKeepsPlaces
<1>2. ASSUME NEW end \in Day, EndPlacement(id, end) PROVE OccupancyInv'
  <2> DEFINE new == [placement[id] EXCEPT !.to = end]
  <2>1. id \in Placements /\ placement[id] \in PlacementRow
    BY <1>2 DEF EndPlacement, Placements, OccupancyInv, StaffTypes
  <2>2. /\ new \in PlacementRow /\ new.employee = placement[id].employee
        /\ new.position = placement[id].position /\ new.isPrimary = placement[id].isPrimary
        /\ new.from = placement[id].from /\ new.to = end
    BY <2>1 DEF PlacementRow
  <2>3. /\ placement' = [placement EXCEPT ![id] = new] /\ UNCHANGED <<employee, position, today>>
        /\ end <= placement[id].to
    BY <1>2, <2>1 DEF EndPlacement, OccupancyInv, StaffTypes
  <2> HIDE DEF new
  <2>4. placement'[id] = new /\ \A a \in PlacementId \ {id} : placement'[a] = placement[a]
    BY <2>3 DEF OccupancyInv, StaffTypes
  <2>5. StaffTypes'
    BY <2>2, <2>3, <2>4 DEF OccupancyInv, StaffTypes, PositionsTyped
  <2> DEFINE Shorter(a) ==
        /\ a \in Placements
        /\ placement'[a].employee = placement[a].employee
        /\ placement'[a].position = placement[a].position
        /\ placement'[a].isPrimary = placement[a].isPrimary
        /\ placement'[a].from = placement[a].from
        /\ placement'[a].to = placement[a].to \/ (placement'[a].to \in Day /\ placement'[a].to <= placement[a].to)
  <2>6. Shorter(id)
    BY <2>1, <2>2, <2>3, <2>4
  <2>7. ASSUME NEW a \in Placements', a # id PROVE Shorter(a)
    <3>1. a \in PlacementId /\ placement'[a] = placement[a] /\ placement'[a] # NoRecord
      BY <2>4, <2>7 DEF Placements
    <3> QED
      BY <3>1 DEF Placements
  <2>8. \A a \in Placements' : Shorter(a)
    <3> HIDE DEF Shorter
    <3> QED
      BY <2>6, <2>7
  <2> QED
    BY <2>3, <2>5, <2>8, FewerHold
<1>3. CASE DeletePlacement(id)
  <2>1. placement' = [placement EXCEPT ![id] = NoRecord] /\ UNCHANGED <<employee, position, today>>
    BY <1>3 DEF DeletePlacement
  <2>2. StaffTypes'
    BY <2>1 DEF OccupancyInv, StaffTypes, PositionsTyped
  <2>3. ASSUME NEW a \in Placements' PROVE a \in Placements /\ placement'[a] = placement[a]
    <3>1. a \in PlacementId /\ placement'[a] # NoRecord
      BY <2>3 DEF Placements
    <3>2. a # id /\ placement'[a] = placement[a]
      BY <2>1, <3>1 DEF OccupancyInv, StaffTypes
    <3> QED
      BY <3>1, <3>2 DEF Placements
  <2>4. \A a \in Placements' :
          /\ a \in Placements
          /\ placement'[a].employee = placement[a].employee
          /\ placement'[a].position = placement[a].position
          /\ placement'[a].isPrimary = placement[a].isPrimary
          /\ placement'[a].from = placement[a].from
          /\ placement'[a].to = placement[a].to \/ (placement'[a].to \in Day /\ placement'[a].to <= placement[a].to)
    BY <2>3
  <2> QED
    BY <2>1, <2>2, <2>4, FewerHold
<1> QED
  BY <1>1, <1>2, <1>3

LEMMA OccupancyStep ==
  /\ ~EndsExtend /\ Overrides \subseteq {FALSE}
  /\ OccupancyInv /\ [StaffingNext]_staffingVars /\ [BudgetsGrow]_staffingVars
  => OccupancyInv'
<1> SUFFICES ASSUME ~EndsExtend, Overrides \subseteq {FALSE}, OccupancyInv, [StaffingNext]_staffingVars,
                    [BudgetsGrow]_staffingVars
             PROVE  OccupancyInv'
  OBVIOUS
<1>1. CASE DayPasses \/ UNCHANGED staffingVars
  <2>1. UNCHANGED <<employee, position, placement>> /\ today' \in Day /\ today' >= today
    BY <1>1, StaffingAssumption DEF DayPasses, staffingVars, Day, OccupancyInv
  <2>2. StaffTypes' /\ Held'
    BY <2>1 DEF OccupancyInv, StaffTypes, PositionsTyped, Held, Placements
  <2>3. \A p \in PositionId : OpenOn(p) = {} => OpenOn(p)' = {}
    <3>1. today \in Int /\ today' \in Int
      BY <2>1, StaffingAssumption DEF OccupancyInv, Day
    <3>2. \A a \in Placements : placement[a].to \in Int
      BY PlacementRows DEF OccupancyInv
    <3> QED
      BY <2>1, <3>1, <3>2 DEF OpenOn, Placements
  <2>4. /\ \A p \in PositionId, d \in Day : Holders(p, d)' = Holders(p, d)
        /\ \A e \in Person : OpenEnded(e)' = OpenEnded(e)
    BY <2>1 DEF Holders, OpenEnded, Placements, ActiveOn
  <2>5. OccupancyWithinCapacity'
    <3>1. \A p \in PositionId : position'[p] # NoRecord =>
            /\ position'[p].status \in {"CLOSED", "ARCHIVED"} => OpenOn(p)' = {}
            /\ \A d \in Day : Cardinality(Holders(p, d)') <= position'[p].budget
      BY <2>1, <2>3, <2>4, CapacityIs DEF OccupancyInv
    <3>2. \A e \in Person : employee'[e] # NoRecord /\ employee'[e].deleted =>
            employee'[e].rolledBack \/ OpenEnded(e)' = {}
      BY <2>1, <2>4, CapacityIs DEF OccupancyInv
    <3> QED
      BY <3>1, <3>2 DEF OccupancyWithinCapacity, Holders
  <2> QED
    BY <2>1, <2>2, <2>5 DEF OccupancyInv
<1>2. CASE EmploymentNext
  BY <1>2, EmploymentStep
<1>3. CASE PositionNext
  BY <1>3, PositionsStep
<1>4. CASE PlacementNext
  BY <1>4, PlacementsStep
<1> QED
  BY <1>1, <1>2, <1>3, <1>4 DEF StaffingNext

\* Three services agree on who holds what, for any employees, positions,
\* assignments and days: as long as nobody goes over the budget on purpose, no
\* budget is lowered and an end only comes forward.
THEOREM PlacesAreKept ==
  ~EndsExtend /\ Overrides \subseteq {FALSE} =>
    (StaffingSpec /\ [][BudgetsGrow]_staffingVars => []OccupancyWithinCapacity)
<1> SUFFICES ASSUME ~EndsExtend, Overrides \subseteq {FALSE}
             PROVE  StaffingSpec /\ [][BudgetsGrow]_staffingVars => []OccupancyWithinCapacity
  OBVIOUS
<1>1. StaffingInit => OccupancyInv
  BY StaffingAssumption
     DEF StaffingInit, OccupancyInv, StaffTypes, PositionsTyped, Held, Placements, OccupancyWithinCapacity, Day
<1>2. OccupancyInv => OccupancyWithinCapacity
  BY DEF OccupancyInv
<1>3. OccupancyInv /\ [StaffingNext]_staffingVars /\ [BudgetsGrow]_staffingVars => OccupancyInv'
  BY OccupancyStep
<1> QED
  BY <1>1, <1>2, <1>3, PTL DEF StaffingSpec

----------------------------------------------------------------------------
(* Recruitment *)

Approved == {"APPROVED", "OPEN", "EXTENDED", "ACCEPTED", "DECLINED"}

PaperRow == [status : RequisitionStatus \cup OfferStatus \cup {"NONE"},
             request : RequestId \cup {NoRequest}, accepted : BOOLEAN]

\* What a handler may be about to do.
Job ==
  {AtRest}
  \cup [op : {"mark", "submit"}, id : Paper]
  \cup [op : {"link"}, id : Paper, request : RequestId, status : {"APPROVED", "SUBMITTED"}]
  \cup [op : {"decide"}, id : Paper, request : RequestId, status : {"APPROVED", "REJECTED"}]
  \cup [op : {"write"}, id : Paper, status : RequisitionStatus \cup OfferStatus]
  \cup [op : {"hire"}, application : Candidate \X Requisition,
        todo : SUBSET {"application", "candidate"}]

RecruitmentTyped ==
  /\ paper \in [Paper -> PaperRow]
  /\ applicant \in [Offer -> (Candidate \X Requisition) \cup {NoPaper}]
  /\ application \in [Candidate \X Requisition -> {"NONE", "OPEN", "HIRED"}]
  /\ request \in [RequestId -> {"NONE", "PENDING", "APPROVED", "REJECTED", "ENDED"}]

\* An offer is for an application, and only offers are accepted.
OffersApply ==
  /\ \A o \in Offer : paper[o].status # "NONE" =>
       applicant[o] \in Candidate \X Requisition /\ application[applicant[o]] # "NONE"
  /\ \A r \in Requisition : ~paper[r].accepted /\ paper[r].status # "ACCEPTED"

\* What the engine answered to a paper.
Answer(x) == IF paper[x].request = NoRequest THEN "NONE" ELSE request[paper[x].request]

HasApplicants(x) == \E a \in Candidate \X Requisition : a[2] = x /\ application[a] # "NONE"

Stands(x) ==
  /\ paper[x].status \in Approved => Answer(x) = "APPROVED"
  /\ paper[x].status = "REJECTED" => Answer(x) = "REJECTED"
  /\ paper[x].accepted => paper[x].status = "ACCEPTED"
  /\ HasApplicants(x) => Answer(x) = "APPROVED"
  /\ paper[x].status \in {"NONE", "DRAFT"} => paper[x].request = NoRequest

\* What a handler has read still holds when it goes on.
JobStands(job) ==
  /\ job.op \in {"mark", "submit", "link"} /\ job.id \notin direct =>
       /\ paper[job.id].status \in {"DRAFT", "REJECTED", "SUBMITTED"}
       /\ ~HasApplicants(job.id)
  /\ job.op \in {"mark", "decide"} => paper[job.id].status # "NONE"
  /\ job.op \in {"submit", "link"} => paper[job.id].status = "SUBMITTED"
  /\ job.op = "link" => IF job.status = "APPROVED" THEN request[job.request] = "APPROVED"
                                                   ELSE request[job.request] # "NONE"
  /\ job.op = "decide" => paper[job.id].request = job.request
  /\ job.op = "write" =>
       /\ paper[job.id].status # "NONE" /\ job.status \notin {"DRAFT", "SUBMITTED"}
       /\ job.status = "ACCEPTED" => job.id \in Offer
       /\ job.id \notin direct =>
            /\ ~paper[job.id].accepted
            /\ job.status \in Approved => \/ Answer(job.id) = "APPROVED"
                                          \/ job.status = "APPROVED" /\ paper[job.id].request = NoRequest
            /\ job.status = "REJECTED" => \/ Answer(job.id) = "REJECTED"
                                          \/ paper[job.id].request = NoRequest
  /\ job.op = "hire" => application[job.application] # "NONE"

\* One handler is at work, and what it has read still holds.
JobsStand ==
  /\ recruiter \in [Recruiter -> Job]
  /\ \A h, k \in Recruiter : recruiter[h] # AtRest /\ recruiter[k] # AtRest => h = k
  /\ \A h \in Recruiter : JobStands(recruiter[h])

RecruitmentInv ==
  /\ RecruitmentTyped /\ OffersApply /\ JobsStand
  /\ \A x \in Paper \ direct : Stands(x)

\* What an engine that keeps its decisions cannot change.
LEMMA PaperKept ==
  ASSUME RecruitmentTyped, NEW x \in Paper, Stands(x), paper'[x] = paper[x],
         \A q \in RequestId : request[q] \in {"APPROVED", "REJECTED"} => request'[q] = request[q],
         HasApplicants(x)' => HasApplicants(x)
  PROVE  Stands(x)'
<1>1. paper[x].request \in RequestId \cup {NoRequest}
  BY DEF RecruitmentTyped, PaperRow
<1>2. Answer(x) \in {"APPROVED", "REJECTED"} => Answer(x)' = Answer(x)
  BY <1>1 DEF Answer
<1> QED
  BY <1>2 DEF Stands, Approved

\* The jobs after a step of handler h, while all others are at rest.
LEMMA JobsAfter ==
  ASSUME JobsStand, NEW h \in Recruiter, NEW job \in Job,
         \A k \in Recruiter \ {h} : recruiter[k] = AtRest,
         recruiter' = [recruiter EXCEPT ![h] = job], JobStands(job)'
  PROVE  JobsStand'
<1>1. /\ recruiter' \in [Recruiter -> Job] /\ recruiter'[h] = job
      /\ \A k \in Recruiter \ {h} : recruiter'[k] = AtRest
  BY DEF JobsStand
<1>2. \A k \in Recruiter : recruiter'[k] = job \/ recruiter'[k] = AtRest
  BY <1>1
<1>3. ASSUME NEW k \in Recruiter PROVE JobStands(recruiter[k])'
  <2>1. CASE recruiter'[k] = job
    BY <2>1 DEF JobStands, HasApplicants, Answer
  <2>2. CASE recruiter'[k] = AtRest
    BY <2>2 DEF JobStands, AtRest
  <2> QED
    BY <1>2, <2>1, <2>2
<1> QED
  BY <1>1, <1>3 DEF JobsStand

\* The jobs after a step that begins none, while all handlers are at rest.
LEMMA NoJobBegins ==
  ASSUME JobsStand, recruiter' = recruiter, \A k \in Recruiter : recruiter[k] = AtRest
  PROVE  JobsStand'
BY DEF JobsStand, JobStands, AtRest

\* A handler that stops.
LEMMA JobEnds ==
  ASSUME JobsStand, NEW h \in Recruiter, recruiter[h] # AtRest,
         recruiter' = [recruiter EXCEPT ![h] = AtRest]
  PROVE  JobsStand'
<1>1. AtRest \in Job /\ JobStands(AtRest)'
  BY DEF Job, JobStands, AtRest
<1>2. \A k \in Recruiter \ {h} : recruiter[k] = AtRest
  BY DEF JobsStand
<1> QED
  BY <1>1, <1>2, JobsAfter

\* Steps that leave the papers alone.
LEMMA PapersUntouched ==
  ASSUME RecruitmentInv, UNCHANGED <<paper, applicant, direct>>, JobsStand',
         application' \in [Candidate \X Requisition -> {"NONE", "OPEN", "HIRED"}],
         \A a \in Candidate \X Requisition : application[a] # "NONE" => application'[a] # "NONE",
         request' \in [RequestId -> {"NONE", "PENDING", "APPROVED", "REJECTED", "ENDED"}],
         \A q \in RequestId : request[q] \in {"APPROVED", "REJECTED"} => request'[q] = request[q],
         \A x \in Paper \ direct : HasApplicants(x)' => HasApplicants(x) \/ Answer(x) = "APPROVED"
  PROVE  RecruitmentInv'
<1>1. RecruitmentTyped'
  BY DEF RecruitmentInv, RecruitmentTyped
<1>2. OffersApply'
  BY DEF RecruitmentInv, OffersApply
<1>3. ASSUME NEW x \in Paper \ direct PROVE Stands(x)'
  <2>1. RecruitmentTyped /\ Stands(x)
    BY DEF RecruitmentInv
  <2>2. HasApplicants(x)' => Answer(x) = "APPROVED"
    BY <2>1 DEF Stands
  <2>3. paper[x].request \in RequestId \cup {NoRequest}
    BY <2>1 DEF RecruitmentTyped, PaperRow
  <2>4. Answer(x) \in {"APPROVED", "REJECTED"} => Answer(x)' = Answer(x)
    BY <2>3 DEF Answer
  <2> QED
    BY <2>1, <2>2, <2>4 DEF Stands, Approved
<1> QED
  BY <1>1, <1>2, <1>3 DEF RecruitmentInv

\* Steps that write one paper.
LEMMA PaperWritten ==
  ASSUME RecruitmentInv, NEW x \in Paper, NEW row \in PaperRow,
         paper' = [paper EXCEPT ![x] = row], UNCHANGED <<application, request>>,
         applicant' \in [Offer -> (Candidate \X Requisition) \cup {NoPaper}],
         \A o \in Offer \ {x} : applicant'[o] = applicant[o],
         x \in Offer => applicant'[x] \in Candidate \X Requisition
                        /\ application[applicant'[x]] # "NONE",
         x \in Requisition => ~row.accepted /\ row.status # "ACCEPTED",
         direct \subseteq direct', x \notin direct' => Stands(x)', JobsStand'
  PROVE  RecruitmentInv'
<1>1. paper'[x] = row /\ \A y \in Paper \ {x} : paper'[y] = paper[y]
  BY DEF RecruitmentInv, RecruitmentTyped
<1>2. RecruitmentTyped'
  BY DEF RecruitmentInv, RecruitmentTyped
<1>3. OffersApply'
  BY <1>1 DEF RecruitmentInv, OffersApply, Paper
<1>4. ASSUME NEW y \in Paper \ direct', y # x PROVE Stands(y)'
  <2>1. RecruitmentTyped /\ Stands(y) /\ paper'[y] = paper[y]
    BY <1>1, <1>4 DEF RecruitmentInv
  <2>2. HasApplicants(y)' => HasApplicants(y)
    BY DEF HasApplicants
  <2> QED
    BY <2>1, <2>2, PaperKept
<1> QED
  BY <1>2, <1>3, <1>4 DEF RecruitmentInv

\* A handler begins.
LEMMA Begun ==
  ASSUME RecruitersTakeTurns, RecruitmentInv, NEW h \in Recruiter, NEW x \in Paper, NEW from,
         NEW job \in Job, Begins(h, x, from, job), paper[x].status \in from => JobStands(job)
  PROVE  RecruitmentInv'
<1>1. \A k \in Recruiter \ {h} : recruiter[k] = AtRest
  BY DEF Begins, RecruiterTurn
<1>2. /\ recruiter' = [recruiter EXCEPT ![h] = job] /\ JobStands(job)
      /\ UNCHANGED <<paper, applicant, posting, application, candidate, request, direct>>
  BY DEF Begins, GoesOn
<1>3. JobStands(job)'
  BY <1>2 DEF JobStands, HasApplicants, Answer
<1>4. JobsStand'
  BY <1>1, <1>2, <1>3, JobsAfter DEF RecruitmentInv
<1>5. \A y \in Paper \ direct : HasApplicants(y)' => HasApplicants(y)
  BY <1>2 DEF HasApplicants
<1>6. /\ application' \in [Candidate \X Requisition -> {"NONE", "OPEN", "HIRED"}]
      /\ request' \in [RequestId -> {"NONE", "PENDING", "APPROVED", "REJECTED", "ENDED"}]
  BY <1>2 DEF RecruitmentInv, RecruitmentTyped
<1> QED
  BY <1>2, <1>4, <1>5, <1>6, PapersUntouched

\* A paper that goes to the engine.
LEMMA MarksStand ==
  ASSUME RecruitmentInv, NEW x \in Paper, paper[x].status \in {"DRAFT", "REJECTED"}
  PROVE  [op |-> "mark", id |-> x] \in Job /\ JobStands([op |-> "mark", id |-> x])
<1> DEFINE job == [op |-> "mark", id |-> x]
<1>1. job \in Job
  BY DEF Job
<1>2. ASSUME x \notin direct PROVE ~HasApplicants(x)
  <2>1. Stands(x)
    BY <1>2 DEF RecruitmentInv
  <2> QED
    BY <2>1 DEF Stands, Answer
<1>3. JobStands(job)
  BY <1>2 DEF JobStands
<1> QED
  BY <1>1, <1>3

\* A handler that writes without the engine.
LEMMA WritesStand ==
  ASSUME RecruitmentInv, NEW x \in Paper, NEW status \in RequisitionStatus \cup OfferStatus,
         paper[x].status # "NONE", status \notin {"DRAFT", "SUBMITTED", "REJECTED"},
         status = "ACCEPTED" => x \in Offer,
         status \in Approved => paper[x].status \in Approved,
         x \in Offer => paper[x].status # "ACCEPTED"
  PROVE  Writes(x, status) \in Job /\ JobStands(Writes(x, status))
<1>1. Writes(x, status) \in Job
  BY DEF Job, Writes
<1>2. ASSUME x \notin direct
      PROVE  /\ ~paper[x].accepted
             /\ status \in Approved => Answer(x) = "APPROVED"
  <2>1. Stands(x)
    BY <1>2 DEF RecruitmentInv
  <2> QED
    BY <2>1 DEF Stands, Paper, RecruitmentInv, OffersApply
<1>3. JobStands(Writes(x, status))
  BY <1>2 DEF JobStands, Writes
<1> QED
  BY <1>1, <1>3

\* A handler that decides.
LEMMA DecidesStand ==
  ASSUME RecruitmentInv, NEW x \in Paper, NEW status \in {"APPROVED", "REJECTED"},
         paper[x].status # "NONE"
  PROVE  Decides(x, status) \in Job /\ JobStands(Decides(x, status))
<1>1. paper[x].request \in RequestId \cup {NoRequest}
  BY DEF RecruitmentInv, RecruitmentTyped, PaperRow
<1>2. CASE paper[x].request = NoRequest
  <2>1. Decides(x, status) = Writes(x, status)
    BY <1>2 DEF Decides
  <2>2. Writes(x, status) \in Job
    BY DEF Job, Writes, RequisitionStatus
  <2>3. x \notin direct => ~paper[x].accepted
    BY <1>2 DEF RecruitmentInv, Stands, Answer, Approved
  <2>4. JobStands(Writes(x, status))
    BY <1>2, <2>3 DEF JobStands, Writes, Approved
  <2> QED
    BY <2>1, <2>2, <2>4
<1>3. CASE paper[x].request # NoRequest
  <2> DEFINE job == [op |-> "decide", id |-> x, request |-> paper[x].request, status |-> status]
  <2>1. Decides(x, status) = job
    BY <1>3 DEF Decides
  <2>2. job \in Job
    BY <1>1, <1>3 DEF Job
  <2>3. JobStands(job)
    BY DEF JobStands
  <2> QED
    BY <2>1, <2>2, <2>3
<1> QED
  BY <1>2, <1>3

LEMMA RequisitionSteps ==
  ASSUME RecruitersTakeTurns, RecruitmentInv, NEW h \in Recruiter, NEW r \in Requisition,
         RequisitionStep(h, r)
  PROVE  RecruitmentInv'
<1> r \in Paper
  BY DEF Paper
<1>n. /\ "NONE" \notin RequisitionStatus /\ {"OPEN", "CLOSED"} \subseteq RequisitionStatus
      /\ r \notin Offer
  BY RecruitmentAssumption DEF RequisitionStatus
<1>1. CASE SubmitRequisition(h, r)
  <2>1. Begins(h, r, {"DRAFT", "REJECTED"}, [op |-> "mark", id |-> r])
    BY <1>1 DEF SubmitRequisition
  <2>2. /\ [op |-> "mark", id |-> r] \in Job /\ JobStands([op |-> "mark", id |-> r])
    BY <2>1, MarksStand DEF Begins
  <2> QED
    BY <2>1, <2>2, Begun
<1>2. CASE ApproveRequisition(h, r)
  <2>1. Begins(h, r, RequisitionStatus, Decides(r, "APPROVED"))
    BY <1>2 DEF ApproveRequisition
  <2>2. Decides(r, "APPROVED") \in Job /\ JobStands(Decides(r, "APPROVED"))
    BY <1>n, <2>1, DecidesStand DEF Begins
  <2> QED
    BY <2>1, <2>2, Begun
<1>3. CASE RejectRequisition(h, r)
  <2>1. Begins(h, r, RequisitionStatus, Decides(r, "REJECTED"))
    BY <1>3 DEF RejectRequisition
  <2>2. Decides(r, "REJECTED") \in Job /\ JobStands(Decides(r, "REJECTED"))
    BY <1>n, <2>1, DecidesStand DEF Begins
  <2> QED
    BY <2>1, <2>2, Begun
<1>4. CASE OpenRequisition(h, r)
  <2>1. Begins(h, r, {"APPROVED", "OPEN"}, Writes(r, "OPEN"))
    BY <1>4 DEF OpenRequisition
  <2>2. Writes(r, "OPEN") \in Job /\ JobStands(Writes(r, "OPEN"))
    BY <1>n, <2>1, WritesStand DEF Begins, Approved
  <2> QED
    BY <2>1, <2>2, Begun
<1>5. CASE CloseRequisition(h, r)
  <2>1. Begins(h, r, RequisitionStatus, Writes(r, "CLOSED"))
    BY <1>5 DEF CloseRequisition
  <2>2. Writes(r, "CLOSED") \in Job /\ JobStands(Writes(r, "CLOSED"))
    BY <1>n, <2>1, WritesStand DEF Begins, Approved
  <2> QED
    BY <2>1, <2>2, Begun
<1> QED
  BY <1>1, <1>2, <1>3, <1>4, <1>5 DEF RequisitionStep

LEMMA OfferSteps ==
  ASSUME RecruitersTakeTurns, RecruitmentInv, NEW h \in Recruiter, NEW o \in Offer, OfferStep(h, o)
  PROVE  RecruitmentInv'
<1> o \in Paper
  BY DEF Paper
<1>n. "NONE" \notin OfferStatus /\ {"EXTENDED", "ACCEPTED", "DECLINED", "WITHDRAWN"} \subseteq OfferStatus
  BY DEF OfferStatus
<1>1. CASE SubmitOffer(h, o)
  <2>1. Begins(h, o, {"DRAFT", "REJECTED"}, [op |-> "mark", id |-> o])
    BY <1>1 DEF SubmitOffer
  <2>2. [op |-> "mark", id |-> o] \in Job /\ JobStands([op |-> "mark", id |-> o])
    BY <2>1, MarksStand DEF Begins
  <2> QED
    BY <2>1, <2>2, Begun
<1>2. CASE ApproveOffer(h, o)
  <2>1. Begins(h, o, OfferStatus, Decides(o, "APPROVED"))
    BY <1>2 DEF ApproveOffer
  <2>2. Decides(o, "APPROVED") \in Job /\ JobStands(Decides(o, "APPROVED"))
    BY <1>n, <2>1, DecidesStand DEF Begins
  <2> QED
    BY <2>1, <2>2, Begun
<1>3. CASE RejectOffer(h, o)
  <2>1. Begins(h, o, OfferStatus, Decides(o, "REJECTED"))
    BY <1>3 DEF RejectOffer
  <2>2. Decides(o, "REJECTED") \in Job /\ JobStands(Decides(o, "REJECTED"))
    BY <1>n, <2>1, DecidesStand DEF Begins
  <2> QED
    BY <2>1, <2>2, Begun
<1>4. ASSUME NEW status \in {"EXTENDED", "ACCEPTED", "DECLINED"},
             Begins(h, o, {"APPROVED", "EXTENDED"}, Writes(o, status))
      PROVE  RecruitmentInv'
  <2>1. Writes(o, status) \in Job /\ JobStands(Writes(o, status))
    BY <1>n, <1>4, WritesStand DEF Begins, Approved
  <2> QED
    BY <1>4, <2>1, Begun
<1>5. CASE WithdrawOffer(h, o)
  <2>1. Begins(h, o, OfferStatus \ {"ACCEPTED", "DECLINED"}, Writes(o, "WITHDRAWN"))
    BY <1>5 DEF WithdrawOffer
  <2>2. Writes(o, "WITHDRAWN") \in Job /\ JobStands(Writes(o, "WITHDRAWN"))
    BY <1>n, <2>1, WritesStand DEF Begins, Approved
  <2> QED
    BY <2>1, <2>2, Begun
<1> QED
  BY <1>1, <1>2, <1>3, <1>4, <1>5 DEF OfferStep, ExtendOffer, AcceptOffer, DeclineOffer

\* Papers set without the engine, where nobody is at work.
LEMMA PaperSet ==
  ASSUME RecruitersTakeTurns, RecruitmentInv, RecruiterTurn, NEW x \in Paper,
         NEW status \in StatusOf(x), Sets(x, status), UNCHANGED <<application, request, recruiter>>,
         applicant' \in [Offer -> (Candidate \X Requisition) \cup {NoPaper}],
         \A o \in Offer \ {x} : applicant'[o] = applicant[o],
         x \in Offer => applicant'[x] \in Candidate \X Requisition
                        /\ application[applicant'[x]] # "NONE",
         direct \subseteq direct',
         x \notin direct' => paper[x].status = "NONE" /\ status = "DRAFT"
  PROVE  RecruitmentInv'
<1> DEFINE row == [paper[x] EXCEPT !.status = status]
<1>1. paper[x] \in PaperRow
  BY DEF RecruitmentInv, RecruitmentTyped
<1>2. status \in RequisitionStatus \cup OfferStatus
  BY DEF StatusOf
<1>3. /\ row \in PaperRow /\ row.status = status /\ row.accepted = paper[x].accepted
      /\ row.request = paper[x].request
  BY <1>1, <1>2, Zenon DEF PaperRow
<1>4. paper' = [paper EXCEPT ![x] = row] /\ paper'[x] = row
  BY DEF Sets, RecruitmentInv, RecruitmentTyped
<1>5. x \in Requisition => ~row.accepted /\ row.status # "ACCEPTED"
  BY <1>3, RecruitmentAssumption DEF RecruitmentInv, OffersApply, StatusOf, RequisitionStatus
<1>6. JobsStand'
  BY NoJobBegins DEF RecruiterTurn, RecruitmentInv
<1>7. ASSUME x \notin direct' PROVE Stands(x)'
  <2>1. Stands(x) /\ status = "DRAFT" /\ paper[x].status = "NONE"
    BY <1>7 DEF RecruitmentInv
  <2>2. paper[x].request = NoRequest /\ ~paper[x].accepted /\ ~HasApplicants(x)
    BY <2>1 DEF Stands, Answer
  <2>3. ~HasApplicants(x)'
    BY <2>2 DEF HasApplicants
  <2> QED
    BY <1>3, <1>4, <2>1, <2>2, <2>3 DEF Stands, Approved
<1> HIDE DEF row
<1> QED
  BY <1>3, <1>4, <1>5, <1>6, <1>7, PaperWritten

LEMMA PapersCreated ==
  ASSUME RecruitersTakeTurns, RecruitmentInv,
         \/ \E r \in Requisition, status \in RequisitionStatus :
              CreateRequisition(r, status) \/ UpdatePaper(r, status)
         \/ \E o \in Offer, status \in OfferStatus :
              UpdatePaper(o, status) \/ \E a \in Candidate \X Requisition : CreateOffer(o, a, status)
  PROVE  RecruitmentInv'
<1> /\ applicant \in [Offer -> (Candidate \X Requisition) \cup {NoPaper}] /\ OffersApply
  BY DEF RecruitmentInv, RecruitmentTyped
<1>1. ASSUME NEW r \in Requisition, NEW status \in RequisitionStatus, CreateRequisition(r, status)
      PROVE  RecruitmentInv'
  <2> r \in Paper /\ r \notin Offer /\ status \in StatusOf(r)
    BY RecruitmentAssumption DEF Paper, StatusOf
  <2>1. /\ RecruiterTurn /\ Sets(r, status) /\ UNCHANGED <<application, request, recruiter>>
        /\ applicant' = applicant /\ direct \subseteq direct'
        /\ r \notin direct' => paper[r].status = "NONE" /\ status = "DRAFT"
    BY <1>1 DEF CreateRequisition, CreatePaper
  <2> QED
    BY <2>1, PaperSet
<1>2. ASSUME NEW x \in Paper, NEW status \in StatusOf(x), UpdatePaper(x, status)
      PROVE  RecruitmentInv'
  <2>1. /\ RecruiterTurn /\ Sets(x, status) /\ UNCHANGED <<application, request, recruiter>>
        /\ applicant' = applicant /\ direct \subseteq direct' /\ x \in direct'
        /\ paper[x].status # "NONE"
    BY <1>2 DEF UpdatePaper
  <2> QED
    BY <2>1, PaperSet DEF OffersApply
<1>3. ASSUME NEW o \in Offer, NEW status \in OfferStatus, NEW a \in Candidate \X Requisition,
             CreateOffer(o, a, status)
      PROVE  RecruitmentInv'
  <2> o \in Paper /\ status \in StatusOf(o)
    BY RecruitmentAssumption DEF Paper, StatusOf
  <2>1. /\ RecruiterTurn /\ Sets(o, status) /\ UNCHANGED <<application, request, recruiter>>
        /\ applicant' = [applicant EXCEPT ![o] = a] /\ direct \subseteq direct'
        /\ o \notin direct' => paper[o].status = "NONE" /\ status = "DRAFT"
        /\ application[a] # "NONE"
    BY <1>3 DEF CreateOffer, CreatePaper
  <2>2. /\ applicant' \in [Offer -> (Candidate \X Requisition) \cup {NoPaper}]
        /\ applicant'[o] = a /\ \A p \in Offer \ {o} : applicant'[p] = applicant[p]
    BY <2>1
  <2> QED
    BY <2>1, <2>2, PaperSet
<1>4. \A x \in Paper : \A status \in StatusOf(x) : ~UpdatePaper(x, status) \/ RecruitmentInv'
  BY <1>2
<1>5. /\ \A r \in Requisition : r \in Paper /\ StatusOf(r) = RequisitionStatus
      /\ \A o \in Offer : o \in Paper /\ StatusOf(o) = OfferStatus
  BY RecruitmentAssumption DEF Paper, StatusOf
<1> QED
  BY <1>1, <1>3, <1>4, <1>5

\* A handler at work is the only one.
LEMMA Alone ==
  ASSUME JobsStand, NEW h \in Recruiter, recruiter[h] # AtRest
  PROVE  /\ recruiter[h] \in Job /\ JobStands(recruiter[h])
         /\ \A k \in Recruiter \ {h} : recruiter[k] = AtRest
BY DEF JobsStand

\* The handler's own writes of a paper.
LEMMA HandlersWrite ==
  ASSUME RecruitmentInv, NEW h \in Recruiter, recruiter[h] # AtRest, NEW x \in Paper,
         NEW row \in PaperRow, paper' = [paper EXCEPT ![x] = row], paper[x].status # "NONE",
         UNCHANGED <<applicant, application, request>>, direct \subseteq direct',
         x \in Requisition => ~row.accepted /\ row.status # "ACCEPTED",
         NEW job \in Job, recruiter' = [recruiter EXCEPT ![h] = job], JobStands(job)',
         x \notin direct' => Stands(x)'
  PROVE  RecruitmentInv'
<1>1. JobsStand'
  BY Alone, JobsAfter DEF RecruitmentInv
<1>2. /\ applicant' \in [Offer -> (Candidate \X Requisition) \cup {NoPaper}]
      /\ (x \in Offer => applicant'[x] \in Candidate \X Requisition
                         /\ application[applicant'[x]] # "NONE")
  BY DEF RecruitmentInv, RecruitmentTyped, OffersApply
<1> QED
  BY <1>1, <1>2, PaperWritten

LEMMA MarkSubmittedInv ==
  ASSUME RecruitmentInv, NEW h \in Recruiter, MarkSubmitted(h)
  PROVE  RecruitmentInv'
<1>1. recruiter[h].op = "mark" /\ recruiter[h] # AtRest
  BY DEF MarkSubmitted, Does, AtRest
<1>2. PICK x \in Paper : x = recruiter[h].id
  BY <1>1, Alone DEF RecruitmentInv, Job
<1> DEFINE row == [paper[x] EXCEPT !.status = "SUBMITTED"]
           job == [op |-> "submit", id |-> x]
<1>3. /\ paper[x] \in PaperRow /\ paper[x].status # "NONE"
      /\ x \notin direct => /\ Stands(x) /\ ~HasApplicants(x)
                            /\ paper[x].status \in {"DRAFT", "REJECTED", "SUBMITTED"}
  BY <1>1, <1>2, Alone DEF RecruitmentInv, RecruitmentTyped, JobStands
<1>4. /\ row \in PaperRow /\ row.status = "SUBMITTED" /\ row.request = paper[x].request
      /\ row.accepted = paper[x].accepted
  <2> "SUBMITTED" \in RequisitionStatus
    BY DEF RequisitionStatus
  <2> QED
    BY <1>3, Zenon DEF PaperRow
<1>5. paper' = [paper EXCEPT ![x] = row] /\ paper'[x] = row
  BY <1>2 DEF MarkSubmitted, Sets, RecruitmentInv, RecruitmentTyped
<1>6. /\ UNCHANGED <<applicant, application, request, direct>>
      /\ recruiter' = [recruiter EXCEPT ![h] = job]
  BY <1>2 DEF MarkSubmitted, GoesOn
<1>7. HasApplicants(x)' => HasApplicants(x)
  BY <1>6 DEF HasApplicants
<1>8. job \in Job
  BY DEF Job
<1>9. JobStands(job)'
  BY <1>3, <1>4, <1>5, <1>6, <1>7 DEF JobStands
<1>10. x \notin direct => Stands(x)'
  BY <1>3, <1>4, <1>5, <1>7 DEF Stands, Approved
<1>11. x \in Requisition => ~row.accepted /\ row.status # "ACCEPTED"
  BY <1>4 DEF RecruitmentInv, OffersApply
<1> HIDE DEF row, job
<1>12. paper[x].status # "NONE" /\ direct \subseteq direct' /\ (x \notin direct' => Stands(x)')
  BY <1>3, <1>6, <1>10
<1> QED
  BY <1>1, <1>4, <1>5, <1>6, <1>8, <1>9, <1>11, <1>12, HandlersWrite

LEMMA LinkRequestInv ==
  ASSUME RecruitmentInv, NEW h \in Recruiter, LinkRequest(h)
  PROVE  RecruitmentInv'
<1>1. recruiter[h].op = "link" /\ recruiter[h] # AtRest
  BY DEF LinkRequest, Does, AtRest
<1>2. PICK x \in Paper, q \in RequestId, status \in {"APPROVED", "SUBMITTED"} :
        x = recruiter[h].id /\ q = recruiter[h].request /\ status = recruiter[h].status
  BY <1>1, Alone DEF RecruitmentInv, Job
<1> DEFINE row == [paper[x] EXCEPT !.request = q, !.status = status]
<1>3. /\ paper[x] \in PaperRow /\ paper[x].status = "SUBMITTED"
      /\ x \notin direct => Stands(x) /\ ~HasApplicants(x)
      /\ status = "APPROVED" => request[q] = "APPROVED"
  BY <1>1, <1>2, Alone DEF RecruitmentInv, RecruitmentTyped, JobStands
<1>4. /\ row \in PaperRow /\ row.status = status /\ row.request = q
      /\ row.accepted = paper[x].accepted
  <2> status \in RequisitionStatus
    BY DEF RequisitionStatus
  <2> QED
    BY <1>3, Zenon DEF PaperRow
<1>5. paper' = [paper EXCEPT ![x] = row] /\ paper'[x] = row
  <2>1. paper' = [paper EXCEPT ![x].request = q, ![x].status = status]
    BY <1>2 DEF LinkRequest
  <2>2. paper \in [Paper -> PaperRow]
    BY DEF RecruitmentInv, RecruitmentTyped
  <2> QED
    BY <2>1, <2>2
<1>6. /\ UNCHANGED <<applicant, application, request, direct>>
      /\ recruiter' = [recruiter EXCEPT ![h] = AtRest]
  BY DEF LinkRequest, GoesOn
<1>7. HasApplicants(x)' => HasApplicants(x)
  BY <1>6 DEF HasApplicants
<1>8. AtRest \in Job /\ JobStands(AtRest)'
  BY DEF Job, JobStands, AtRest
<1>9. ASSUME x \notin direct PROVE Stands(x)'
  <2>1. status = "APPROVED" => Answer(x)' = "APPROVED"
    BY <1>3, <1>4, <1>5, <1>6, RecruitmentAssumption DEF Answer
  <2>2. ~paper[x].accepted
    BY <1>3, <1>9 DEF Stands
  <2> QED
    BY <1>3, <1>4, <1>5, <1>7, <1>9, <2>1, <2>2 DEF Stands, Approved
<1>10. x \in Requisition => ~row.accepted /\ row.status # "ACCEPTED"
  BY <1>4 DEF RecruitmentInv, OffersApply
<1> HIDE DEF row
<1>11. paper[x].status # "NONE" /\ direct \subseteq direct' /\ (x \notin direct' => Stands(x)')
  BY <1>3, <1>6, <1>9
<1> QED
  BY <1>1, <1>4, <1>5, <1>6, <1>8, <1>10, <1>11, HandlersWrite

LEMMA WriteStatusInv ==
  ASSUME RecruitmentInv, NEW h \in Recruiter, WriteStatus(h)
  PROVE  RecruitmentInv'
<1>1. recruiter[h].op = "write" /\ recruiter[h] # AtRest
  BY DEF WriteStatus, Does, AtRest
<1>2. PICK x \in Paper, status \in RequisitionStatus \cup OfferStatus :
        x = recruiter[h].id /\ status = recruiter[h].status
  BY <1>1, Alone DEF RecruitmentInv, Job
<1> DEFINE accepted == paper[x].accepted \/ status = "ACCEPTED"
           row == [paper[x] EXCEPT !.status = status, !.accepted = accepted]
<1>3. /\ paper[x] \in PaperRow /\ JobStands(recruiter[h])
      /\ x \notin direct => Stands(x)
  BY <1>1, <1>2, Alone DEF RecruitmentInv, RecruitmentTyped
<1>4. /\ paper[x].status # "NONE" /\ status \notin {"DRAFT", "SUBMITTED"}
      /\ status = "ACCEPTED" => x \in Offer
  BY <1>1, <1>2, <1>3 DEF JobStands
<1>5. accepted \in BOOLEAN /\ (~paper[x].accepted => accepted = (status = "ACCEPTED"))
  BY <1>3 DEF PaperRow
<1>6. /\ row \in PaperRow /\ row.status = status /\ row.request = paper[x].request
      /\ row.accepted = accepted
  <2> HIDE DEF accepted
  <2> QED
    BY <1>3, <1>5, Zenon DEF PaperRow
<1>7. /\ paper' = [paper EXCEPT ![x] = row] /\ paper'[x] = row
      /\ direct' = IF status \in {"APPROVED", "REJECTED"} /\ paper[x].request = NoRequest
                   THEN direct \cup {x} ELSE direct
      /\ recruiter' = [recruiter EXCEPT ![h] =
                         IF status = "ACCEPTED"
                         THEN [op |-> "hire", application |-> applicant[x], todo |-> {"application", "candidate"}]
                         ELSE AtRest]
      /\ UNCHANGED <<applicant, application, request>>
  <2>1. paper' = [paper EXCEPT ![x].status = status, ![x].accepted = @ \/ status = "ACCEPTED"]
    BY <1>2 DEF WriteStatus
  <2>2. paper \in [Paper -> PaperRow]
    BY DEF RecruitmentInv, RecruitmentTyped
  <2>3. paper' = [paper EXCEPT ![x] = row] /\ paper'[x] = row
    BY <2>1, <2>2
  <2> QED
    BY <1>2, <2>3 DEF WriteStatus, GoesOn
<1>8. PICK job \in Job : /\ recruiter' = [recruiter EXCEPT ![h] = job]
                         /\ JobStands(job)'
  <2>1. CASE status = "ACCEPTED"
    <3>1. PICK a \in Candidate \X Requisition : a = applicant[x] /\ application[a] # "NONE"
      BY <1>4, <2>1 DEF RecruitmentInv, OffersApply
    <3> DEFINE job == [op |-> "hire", application |-> a, todo |-> {"application", "candidate"}]
    <3>2. job \in Job
      BY DEF Job
    <3>3. JobStands(job)'
      BY <1>7, <3>1 DEF JobStands
    <3> QED
      BY <1>7, <2>1, <3>1, <3>2, <3>3
  <2>2. CASE status # "ACCEPTED"
    <3>1. AtRest \in Job /\ JobStands(AtRest)'
      BY DEF Job, JobStands, AtRest
    <3> QED
      BY <1>7, <2>2, <3>1
  <2> QED
    BY <2>1, <2>2
<1>9. ASSUME x \notin direct' PROVE Stands(x)'
  <2>1. x \notin direct /\ (status \in {"APPROVED", "REJECTED"} => paper[x].request # NoRequest)
    BY <1>7, <1>9
  <2>2. /\ ~paper[x].accepted
        /\ status \in Approved => Answer(x) = "APPROVED"
        /\ status = "REJECTED" => Answer(x) = "REJECTED"
    BY <1>1, <1>2, <1>3, <2>1 DEF JobStands
  <2>3. paper'[x].request = paper[x].request /\ request' = request /\ application' = application
    BY <1>6, <1>7
  <2>4. Answer(x)' = Answer(x) /\ HasApplicants(x)' = HasApplicants(x)
    BY <2>3 DEF Answer, HasApplicants
  <2>5. status # "NONE"
    BY DEF RequisitionStatus, OfferStatus
  <2> HIDE DEF accepted
  <2> QED
    BY <1>3, <1>4, <1>5, <1>6, <1>7, <2>1, <2>2, <2>3, <2>4, <2>5 DEF Stands
<1>10. x \in Requisition => ~row.accepted /\ row.status # "ACCEPTED"
  <2>1. x \in Requisition => ~paper[x].accepted /\ x \notin Offer
    BY RecruitmentAssumption DEF RecruitmentInv, OffersApply
  <2> HIDE DEF accepted
  <2> QED
    BY <1>4, <1>5, <1>6, <2>1
<1> HIDE DEF row
<1>11. direct \subseteq direct'
  BY <1>7
<1> QED
  BY <1>1, <1>4, <1>6, <1>7, <1>8, <1>9, <1>10, <1>11, HandlersWrite

\* What the engine does to a request that is not yet decided.
LEMMA EngineAnswered ==
  ASSUME RecruitmentInv, NEW q \in RequestId, request[q] \in {"NONE", "PENDING"},
         NEW answer \in {"PENDING", "APPROVED", "REJECTED", "ENDED"},
         request' = [request EXCEPT ![q] = answer], JobsStand',
         UNCHANGED <<paper, applicant, application, direct>>
  PROVE  RecruitmentInv'
<1>1. /\ request' \in [RequestId -> {"NONE", "PENDING", "APPROVED", "REJECTED", "ENDED"}]
      /\ \A p \in RequestId : request[p] \in {"APPROVED", "REJECTED"} => request'[p] = request[p]
      /\ application' \in [Candidate \X Requisition -> {"NONE", "OPEN", "HIRED"}]
  BY DEF RecruitmentInv, RecruitmentTyped
<1>2. \A x \in Paper \ direct : HasApplicants(x)' => HasApplicants(x)
  BY DEF HasApplicants
<1> QED
  BY <1>1, <1>2, PapersUntouched

LEMMA EngineTakesInv ==
  ASSUME RecruitmentInv, NEW h \in Recruiter, NEW q \in RequestId,
         NEW answer \in {"PENDING", "APPROVED"}, EngineTakes(h, q, answer)
  PROVE  RecruitmentInv'
<1>1. recruiter[h].op = "submit" /\ recruiter[h] # AtRest /\ request[q] = "NONE"
  BY DEF EngineTakes, Does, AtRest
<1>2. PICK x \in Paper : x = recruiter[h].id
  BY <1>1, Alone DEF RecruitmentInv, Job
<1> DEFINE job == [op |-> "link", id |-> x, request |-> q,
                   status |-> IF answer = "APPROVED" THEN "APPROVED" ELSE "SUBMITTED"]
<1>3. /\ request' = [request EXCEPT ![q] = answer] /\ recruiter' = [recruiter EXCEPT ![h] = job]
      /\ UNCHANGED <<paper, applicant, application, direct>>
  BY <1>2 DEF EngineTakes, GoesOn
<1>4. job \in Job
  BY DEF Job
<1>5. JobStands(job)'
  <2>1. /\ paper[x].status = "SUBMITTED"
        /\ x \notin direct => ~HasApplicants(x)
    BY <1>1, <1>2, Alone DEF RecruitmentInv, JobStands
  <2>2. HasApplicants(x)' => HasApplicants(x)
    BY <1>3 DEF HasApplicants
  <2>3. request'[q] = answer
    BY <1>3 DEF RecruitmentInv, RecruitmentTyped
  <2> QED
    BY <1>3, <2>1, <2>2, <2>3 DEF JobStands
<1> HIDE DEF job
<1>6. JobsStand'
  BY <1>1, <1>3, <1>4, <1>5, Alone, JobsAfter DEF RecruitmentInv
<1> QED
  BY <1>1, <1>3, <1>6, EngineAnswered

LEMMA EngineDecidesPaperInv ==
  ASSUME RecruitmentInv, NEW h \in Recruiter, NEW answer \in {"PENDING", "APPROVED", "REJECTED"},
         EngineDecidesPaper(h, answer)
  PROVE  RecruitmentInv'
<1>1. recruiter[h].op = "decide" /\ recruiter[h] # AtRest
  BY DEF EngineDecidesPaper, Does, AtRest
<1>2. PICK x \in Paper, q \in RequestId, status \in {"APPROVED", "REJECTED"} :
        x = recruiter[h].id /\ q = recruiter[h].request /\ status = recruiter[h].status
  BY <1>1, Alone DEF RecruitmentInv, Job
<1>3. /\ request[q] = "PENDING" /\ request' = [request EXCEPT ![q] = answer]
      /\ recruiter' = [recruiter EXCEPT ![h] = IF answer = status THEN Writes(x, answer) ELSE AtRest]
      /\ UNCHANGED <<paper, applicant, application, direct>>
  BY <1>2 DEF EngineDecidesPaper, GoesOn
<1>4. PICK job \in Job : recruiter' = [recruiter EXCEPT ![h] = job] /\ JobStands(job)'
  <2>1. CASE answer = status
    <3>1. Writes(x, status) \in Job
      BY DEF Job, Writes, RequisitionStatus
    <3>2. paper[x].request = q /\ request'[q] = status /\ paper[x].status # "NONE"
      BY <1>1, <1>2, <1>3, <2>1, Alone DEF RecruitmentInv, RecruitmentTyped, JobStands
    <3>3. Answer(x)' = status /\ (x \notin direct => ~paper[x].accepted)
      <4>1. q # NoRequest /\ paper' = paper
        BY <1>3, RecruitmentAssumption
      <4>2. Answer(x) = "PENDING"
        BY <1>3, <3>2, <4>1 DEF Answer
      <4>3. x \notin direct => Stands(x)
        BY DEF RecruitmentInv
      <4> QED
        BY <3>2, <4>1, <4>2, <4>3 DEF Answer, Stands, Approved
    <3>4. JobStands(Writes(x, status))'
      BY <1>3, <3>2, <3>3 DEF JobStands, Writes, Approved
    <3> QED
      BY <1>3, <2>1, <3>1, <3>4
  <2>2. CASE answer # status
    <3>1. AtRest \in Job /\ JobStands(AtRest)'
      BY DEF Job, JobStands, AtRest
    <3> QED
      BY <1>3, <2>2, <3>1
  <2> QED
    BY <2>1, <2>2
<1>5. JobsStand'
  BY <1>1, <1>4, Alone, JobsAfter DEF RecruitmentInv
<1> QED
  BY <1>3, <1>5, EngineAnswered

LEMMA EngineMovesInv ==
  ASSUME RecruitmentInv, NEW q \in RequestId, EngineMoves(q)
  PROVE  RecruitmentInv'
<1>1. PICK outcome \in {"APPROVED", "REJECTED", "ENDED"} : request' = [request EXCEPT ![q] = outcome]
  BY DEF EngineMoves
<1>2. /\ request[q] = "PENDING"
      /\ UNCHANGED <<paper, applicant, application, direct, recruiter>>
  BY DEF EngineMoves
<1>3. \A p \in RequestId : request'[p] = IF p = q THEN outcome ELSE request[p]
  BY <1>1 DEF RecruitmentInv, RecruitmentTyped
<1>4. ASSUME NEW job \in Job, JobStands(job) PROVE JobStands(job)'
  <2>1. CASE job.op = "link"
    <3>1. job.request \in RequestId
      BY <2>1 DEF Job, AtRest
    <3>2. HasApplicants(job.id)' => HasApplicants(job.id)
      BY <1>2 DEF HasApplicants
    <3> QED
      BY <1>2, <1>3, <1>4, <2>1, <3>1, <3>2 DEF JobStands
  <2>2. CASE job.op = "write"
    <3>1. job.id \in Paper
      BY <2>2 DEF Job, AtRest
    <3>2. paper[job.id].request \in RequestId \cup {NoRequest}
      BY <3>1 DEF RecruitmentInv, RecruitmentTyped, PaperRow
    <3>3. Answer(job.id) \in {"APPROVED", "REJECTED"} => Answer(job.id)' = Answer(job.id)
      BY <1>2, <1>3, <3>2 DEF Answer
    <3> QED
      BY <1>2, <1>4, <2>2, <3>3 DEF JobStands
  <2>3. CASE job.op \notin {"link", "write"}
    <3>1. HasApplicants(job.id)' => HasApplicants(job.id)
      BY <1>2 DEF HasApplicants
    <3> QED
      BY <1>2, <1>4, <2>3, <3>1 DEF JobStands
  <2> QED
    BY <2>1, <2>2, <2>3
<1>5. JobsStand'
  <2>1. \A k \in Recruiter : recruiter[k] \in Job /\ JobStands(recruiter[k])
    BY DEF RecruitmentInv, JobsStand
  <2>2. ASSUME NEW k \in Recruiter PROVE JobStands(recruiter[k])'
    <3>1. PICK job \in Job : job = recruiter[k]
      BY <2>1
    <3>2. JobStands(job)'
      BY <1>4, <2>1, <3>1
    <3> QED
      BY <1>2, <3>1, <3>2 DEF JobStands
  <2> QED
    BY <1>2, <2>2 DEF RecruitmentInv, JobsStand
<1> QED
  BY <1>1, <1>2, <1>5, EngineAnswered

\* Steps at the applications and the candidates alone.
LEMMA ApplicationsMove ==
  ASSUME RecruitmentInv, UNCHANGED <<paper, applicant, request, direct>>, JobsStand',
         application' \in [Candidate \X Requisition -> {"NONE", "OPEN", "HIRED"}],
         \A a \in Candidate \X Requisition : (application[a] # "NONE") = (application'[a] # "NONE")
  PROVE  RecruitmentInv'
<1>1. \A x \in Paper : HasApplicants(x)' => HasApplicants(x)
  BY DEF HasApplicants
<1>2. request' \in [RequestId -> {"NONE", "PENDING", "APPROVED", "REJECTED", "ENDED"}]
  BY DEF RecruitmentInv, RecruitmentTyped
<1> QED
  BY <1>1, <1>2, PapersUntouched

LEMMA HiresInv ==
  ASSUME RecruitmentInv, NEW h \in Recruiter, NEW what \in {"application", "candidate"}, Hires(h, what)
  PROVE  RecruitmentInv'
<1>1. recruiter[h].op = "hire" /\ recruiter[h] # AtRest
  BY DEF Hires, Does, AtRest
<1>2. PICK a \in Candidate \X Requisition, todo \in SUBSET {"application", "candidate"} :
        recruiter[h] = [op |-> "hire", application |-> a, todo |-> todo]
  BY <1>1, Alone DEF RecruitmentInv, Job
<1> DEFINE left == todo \ {what}
           rest == [op |-> "hire", application |-> a, todo |-> left]
<1>3. /\ application' = IF what = "application" THEN [application EXCEPT ![a] = "HIRED"] ELSE application
      /\ recruiter' = [recruiter EXCEPT ![h] = IF left = {} THEN AtRest ELSE rest]
      /\ UNCHANGED <<paper, applicant, request, direct>>
  <2>1. recruiter[h].application = a /\ recruiter[h].todo = todo
    BY <1>2
  <2>2. [recruiter[h] EXCEPT !.todo = left] = rest
    BY <1>2
  <2> QED
    BY <2>1, <2>2 DEF Hires, GoesOn
<1>4. application[a] # "NONE"
  BY <1>1, <1>2, Alone DEF RecruitmentInv, JobStands
<1>5. /\ application' \in [Candidate \X Requisition -> {"NONE", "OPEN", "HIRED"}]
      /\ \A b \in Candidate \X Requisition : (application[b] # "NONE") = (application'[b] # "NONE")
  BY <1>3, <1>4 DEF RecruitmentInv, RecruitmentTyped
<1>6. PICK job \in Job : recruiter' = [recruiter EXCEPT ![h] = job] /\ JobStands(job)'
  <2>1. AtRest \in Job /\ JobStands(AtRest)'
    BY DEF Job, JobStands, AtRest
  <2>2. rest \in Job /\ JobStands(rest)'
    BY <1>4, <1>5 DEF Job, JobStands
  <2> QED
    BY <1>3, <2>1, <2>2
<1>7. JobsStand'
  BY <1>1, <1>6, Alone, JobsAfter DEF RecruitmentInv
<1> QED
  BY <1>3, <1>5, <1>7, ApplicationsMove

LEMMA MoveApplicationInv ==
  ASSUME RecruitersTakeTurns, RecruitmentInv, NEW h \in Recruiter,
         NEW a \in Candidate \X Requisition, NEW taken \in BOOLEAN, MoveApplication(h, a, taken)
  PROVE  RecruitmentInv'
<1> DEFINE hire == [op |-> "hire", application |-> a, todo |-> {"candidate"}]
<1>1. /\ \A k \in Recruiter \ {h} : recruiter[k] = AtRest
      /\ application[a] # "NONE"
      /\ application' = [application EXCEPT ![a] = IF taken THEN "HIRED" ELSE "OPEN"]
      /\ recruiter' = [recruiter EXCEPT ![h] = IF taken THEN hire ELSE AtRest]
      /\ UNCHANGED <<paper, applicant, request, direct>>
  BY DEF MoveApplication, RecruiterTurn, GoesOn
<1>2. /\ application' \in [Candidate \X Requisition -> {"NONE", "OPEN", "HIRED"}]
      /\ \A b \in Candidate \X Requisition : (application[b] # "NONE") = (application'[b] # "NONE")
  BY <1>1 DEF RecruitmentInv, RecruitmentTyped
<1>3. PICK job \in Job : recruiter' = [recruiter EXCEPT ![h] = job] /\ JobStands(job)'
  <2>1. AtRest \in Job /\ JobStands(AtRest)'
    BY DEF Job, JobStands, AtRest
  <2>2. hire \in Job /\ JobStands(hire)'
    BY <1>1, <1>2 DEF Job, JobStands
  <2> QED
    BY <1>1, <2>1, <2>2
<1>4. JobsStand'
  BY <1>1, <1>3, JobsAfter DEF RecruitmentInv
<1> QED
  BY <1>1, <1>2, <1>4, ApplicationsMove

\* Only approved work is applied for.
LEMMA ApplyInv ==
  ASSUME RecruitersTakeTurns, RecruitmentInv, NEW c \in Candidate, NEW r \in Requisition, Apply(c, r)
  PROVE  RecruitmentInv'
<1> DEFINE a == <<c, r>>
<1>1. /\ \A k \in Recruiter : recruiter[k] = AtRest
      /\ paper[r].status \in {"OPEN", "APPROVED"}
      /\ application' = [application EXCEPT ![a] = "OPEN"]
      /\ recruiter' = recruiter /\ UNCHANGED <<paper, applicant, direct>> /\ request' = request
  BY DEF Apply, RecruiterTurn
<1>2. /\ application' \in [Candidate \X Requisition -> {"NONE", "OPEN", "HIRED"}]
      /\ \A b \in Candidate \X Requisition : application[b] # "NONE" => application'[b] # "NONE"
      /\ \A b \in (Candidate \X Requisition) \ {a} : application'[b] = application[b]
  BY <1>1 DEF RecruitmentInv, RecruitmentTyped
<1>3. JobsStand'
  BY <1>1, NoJobBegins DEF RecruitmentInv
<1>4. ASSUME NEW x \in Paper \ direct, HasApplicants(x)'
      PROVE  HasApplicants(x) \/ Answer(x) = "APPROVED"
  <2>1. PICK b \in Candidate \X Requisition : b[2] = x /\ application'[b] # "NONE"
    BY <1>4 DEF HasApplicants
  <2>2. CASE b = a
    <3>1. x = r /\ Stands(x)
      BY <2>1, <2>2 DEF RecruitmentInv
    <3> QED
      BY <1>1, <3>1 DEF Stands, Approved
  <2>3. CASE b # a
    BY <1>2, <2>1, <2>3 DEF HasApplicants
  <2> QED
    BY <2>2, <2>3
<1>5. /\ request' \in [RequestId -> {"NONE", "PENDING", "APPROVED", "REJECTED", "ENDED"}]
      /\ \A q \in RequestId : request[q] \in {"APPROVED", "REJECTED"} => request'[q] = request[q]
  BY <1>1 DEF RecruitmentInv, RecruitmentTyped
<1> HIDE DEF a
<1> QED
  BY <1>1, <1>2, <1>3, <1>4, <1>5, PapersUntouched

\* Steps that change no paper, request or application.
LEMMA RecruitmentKept ==
  ASSUME RecruitmentInv, UNCHANGED <<paper, applicant, application, request, direct>>, JobsStand'
  PROVE  RecruitmentInv'
<1>1. application' \in [Candidate \X Requisition -> {"NONE", "OPEN", "HIRED"}]
  BY DEF RecruitmentInv, RecruitmentTyped
<1> QED
  BY <1>1, ApplicationsMove

LEMMA RecruitmentInvariant ==
  RecruitersTakeTurns => (RecruitmentSpec => []RecruitmentInv)
<1> SUFFICES ASSUME RecruitersTakeTurns PROVE RecruitmentSpec => []RecruitmentInv
  OBVIOUS
<1>1. ASSUME RecruitmentInit PROVE RecruitmentInv
  <2>1. /\ RecruitmentTyped /\ OffersApply
    BY <1>1 DEF RecruitmentInit, RecruitmentTyped, OffersApply, PaperRow, Paper
  <2>2. \A h \in Recruiter : recruiter[h] = AtRest
    BY <1>1 DEF RecruitmentInit
  <2>3. JobsStand
    BY <1>1, <2>2 DEF RecruitmentInit, JobsStand, JobStands, Job, AtRest
  <2>4. \A x \in Paper : ~HasApplicants(x)
    BY <1>1 DEF RecruitmentInit, HasApplicants
  <2>5. \A x \in Paper : Stands(x)
    BY <1>1, <2>4 DEF RecruitmentInit, Stands, Approved
  <2> QED
    BY <2>1, <2>3, <2>5 DEF RecruitmentInv
<1>2. ASSUME RecruitmentInv, [RecruitmentNext]_recruitmentVars PROVE RecruitmentInv'
  <2>1. CASE \E r \in Requisition, status \in RequisitionStatus :
               CreateRequisition(r, status) \/ UpdatePaper(r, status)
    BY <1>2, <2>1, PapersCreated
  <2>2. CASE \E o \in Offer, status \in OfferStatus :
               UpdatePaper(o, status) \/ \E a \in Candidate \X Requisition : CreateOffer(o, a, status)
    BY <1>2, <2>2, PapersCreated
  <2>3. ASSUME NEW h \in Recruiter,
               \/ \E r \in Requisition : RequisitionStep(h, r)
               \/ \E o \in Offer : OfferStep(h, o)
        PROVE  RecruitmentInv'
    BY <1>2, <2>3, RequisitionSteps, OfferSteps
  <2>4. ASSUME NEW h \in Recruiter, MarkSubmitted(h) \/ LinkRequest(h) \/ WriteStatus(h)
        PROVE  RecruitmentInv'
    BY <1>2, <2>4, MarkSubmittedInv, LinkRequestInv, WriteStatusInv
  <2>5. ASSUME NEW h \in Recruiter, RecruiterStops(h) PROVE RecruitmentInv'
    <3>1. /\ recruiter[h] # AtRest /\ recruiter' = [recruiter EXCEPT ![h] = AtRest]
          /\ UNCHANGED <<paper, applicant, application, request, direct>>
      BY <2>5 DEF RecruiterStops, GoesOn
    <3>2. JobsStand'
      BY <1>2, <3>1, JobEnds DEF RecruitmentInv
    <3> QED
      BY <1>2, <3>1, <3>2, RecruitmentKept
  <2>6. ASSUME NEW h \in Recruiter,
               \/ \E q \in RequestId, answer \in {"PENDING", "APPROVED"} : EngineTakes(h, q, answer)
               \/ \E answer \in {"PENDING", "APPROVED", "REJECTED"} : EngineDecidesPaper(h, answer)
               \/ \E what \in {"application", "candidate"} : Hires(h, what)
               \/ \E a \in Candidate \X Requisition, taken \in BOOLEAN : MoveApplication(h, a, taken)
        PROVE  RecruitmentInv'
    BY <1>2, <2>6, EngineTakesInv, EngineDecidesPaperInv, HiresInv, MoveApplicationInv
  <2>7. CASE \/ \E r \in Requisition, status \in PostingStatus :
                  PublishRequisition(r, status) \/ UpdateJobPosting(r, status)
             \/ \E c \in Candidate : \E status \in {"ACTIVE", "HIRED"} : UpdateCandidate(c, status)
    <3>1. /\ \A k \in Recruiter : recruiter[k] = AtRest
          /\ recruiter' = recruiter /\ UNCHANGED <<paper, applicant, application, request, direct>>
      BY <2>7 DEF PublishRequisition, UpdateJobPosting, UpdateCandidate, RecruiterTurn
    <3>2. JobsStand'
      BY <1>2, <3>1, NoJobBegins DEF RecruitmentInv
    <3> QED
      BY <1>2, <3>1, <3>2, RecruitmentKept
  <2>8. CASE \E c \in Candidate : \E r \in Requisition : Apply(c, r)
    BY <1>2, <2>8, ApplyInv
  <2>9. CASE \E q \in RequestId : EngineMoves(q)
    BY <1>2, <2>9, EngineMovesInv
  <2>10. CASE UNCHANGED recruitmentVars
    BY <1>2, <2>10 DEF recruitmentVars, RecruitmentInv, RecruitmentTyped, OffersApply, JobsStand,
                       JobStands, Stands, Answer, HasApplicants
  <2> QED
    BY <1>2, <2>1, <2>2, <2>3, <2>4, <2>5, <2>6, <2>7, <2>8, <2>9, <2>10 DEF RecruitmentNext
<1> QED
  BY <1>1, <1>2, PTL DEF RecruitmentSpec

\* What is opened, extended, accepted or hired for has an approval that stands,
\* for any number of papers, requests and handlers, if recruiters take turns and
\* whatever is approved by hand is set aside: submitRequisition, updateOffer and
\* the handlers that follow them against the approval engine.
THEOREM PapersStandOnApproval ==
  RecruitmentSpec => []StandsOnApproval
<1>1. CASE RecruitersTakeTurns
  <2>1. ASSUME RecruitmentInv PROVE StandsOnApproval
    <3>1. \A x \in Paper \ direct : Stands(x)
      BY <2>1 DEF RecruitmentInv
    <3>2. \A c \in Candidate, r \in Requisition : application[<<c, r>>] # "NONE" => HasApplicants(r)
      <4> SUFFICES ASSUME NEW c \in Candidate, NEW r \in Requisition, application[<<c, r>>] # "NONE"
                   PROVE  HasApplicants(r)
        OBVIOUS
      <4>1. <<c, r>> \in Candidate \X Requisition /\ <<c, r>>[2] = r
        OBVIOUS
      <4> QED
        BY <4>1 DEF HasApplicants
    <3> QED
      BY <3>1, <3>2 DEF StandsOnApproval, Stands, Answer, Approved
  <2>2. RecruitmentSpec => []RecruitmentInv
    BY <1>1, RecruitmentInvariant
  <2> QED
    BY <2>1, <2>2, PTL
<1>2. CASE ~RecruitersTakeTurns
  <2>1. StandsOnApproval
    BY <1>2 DEF StandsOnApproval
  <2> QED
    BY <2>1, PTL
<1> QED
  BY <1>1, <1>2

----------------------------------------------------------------------------
(* Documents *)

ClerkJob ==
  {NoWork}
  \cup [op : {"verify"}, document : DocumentId, status : VerificationStatus,
        seen : 0 .. MaxVersion]
  \cup [op : {"add"}, document : DocumentId, version : Nat, setCurrent : BOOLEAN]
  \cup [op : {"current"}, document : DocumentId, version : 1 .. MaxVersion]

DocumentsTyped ==
  /\ document \in [DocumentId -> DocumentRow \cup {NoDocument}]
  /\ versions \in [DocumentId -> 0 .. MaxVersion]
  /\ lookedAt \in [DocumentId -> 0 .. MaxVersion]
  /\ clerk \in [Clerk -> ClerkJob]

\* What is said of document d was found of its current version.
SaidOfCurrent(d) ==
  (d \notin byHand /\ document[d] # NoDocument /\ document[d].status = "VERIFIED") =>
    document[d].current = lookedAt[d] /\ lookedAt[d] # 0

\* A verification in flight has seen the version that is current.
SeesCurrent(h) ==
  clerk[h].op = "verify" =>
    /\ document[clerk[h].document].current = clerk[h].seen
    /\ clerk[h].status = "VERIFIED" => clerk[h].seen # 0

\* What is verified is there.
NamesDocument(h) == clerk[h].op = "verify" => document[clerk[h].document] # NoDocument

DocumentsInv ==
  /\ DocumentsTyped
  /\ \A h \in Clerk : NamesDocument(h)
  /\ ClerksTakeTurns =>
       /\ \A h, k \in Clerk : clerk[h] # NoWork /\ clerk[k] # NoWork => h = k
       /\ \A h \in Clerk : SeesCurrent(h)
       /\ \A d \in DocumentId : SaidOfCurrent(d)

\* A step that no clerk takes: rows keep their version, and what is said of
\* them or else they count as set by hand.
LEMMA WithoutClerk ==
  ASSUME DocumentsInv, UNCHANGED <<versions, lookedAt, clerk>>,
         document' \in [DocumentId -> DocumentRow \cup {NoDocument}],
         \A d \in DocumentId : d \notin byHand' =>
           /\ d \notin byHand
           /\ document'[d] = NoDocument \/ document[d] # NoDocument
           /\ document'[d] # NoDocument =>
                document'[d].status = document[d].status /\ document'[d].current = document[d].current,
         \A d \in DocumentId : document[d] # NoDocument =>
           document'[d] # NoDocument /\ document'[d].current = document[d].current
  PROVE  DocumentsInv'
<1>1. DocumentsTyped'
  BY DEF DocumentsInv, DocumentsTyped
<1>2. ASSUME NEW h \in Clerk
      PROVE  NamesDocument(h)' /\ (ClerksTakeTurns => SeesCurrent(h)')
  <2>1. clerk[h].op = "verify" => clerk[h].document \in DocumentId
    BY DEF DocumentsInv, DocumentsTyped, ClerkJob, NoWork
  <2> QED
    BY <2>1 DEF DocumentsInv, SeesCurrent, NamesDocument
<1>3. ASSUME ClerksTakeTurns, NEW d \in DocumentId PROVE SaidOfCurrent(d)'
  BY <1>3 DEF DocumentsInv, SaidOfCurrent
<1> QED
  BY <1>1, <1>2, <1>3 DEF DocumentsInv

\* A clerk reads when, if they take turns, nobody else is at work.
LEMMA ClerkReads ==
  ASSUME DocumentsInv, ClerkTurn, NEW h \in Clerk, NEW d \in DocumentId,
         NEW job \in ClerkJob, job # NoWork, Reads(h, d, job),
         job.op = "verify" =>
           /\ job.document = d /\ job.seen = document[d].current
           /\ job.status = "VERIFIED" => document[d].current # 0
  PROVE  DocumentsInv'
<1>1. /\ UNCHANGED <<document, versions, lookedAt, byHand>>
      /\ clerk' = [clerk EXCEPT ![h] = job] /\ document[d] # NoDocument
  BY DEF Reads, Exists
<1>2. clerk'[h] = job /\ \A k \in Clerk \ {h} : clerk'[k] = clerk[k]
  BY <1>1 DEF DocumentsInv, DocumentsTyped
<1>3. DocumentsTyped'
  BY <1>1 DEF DocumentsInv, DocumentsTyped
<1>4. ASSUME ClerksTakeTurns
      PROVE  /\ \A k \in Clerk \ {h} : clerk'[k] = NoWork
             /\ \A k \in Clerk : SeesCurrent(k)'
             /\ \A x \in DocumentId : SaidOfCurrent(x)'
  <2>1. \A k \in Clerk \ {h} : clerk'[k] = NoWork
    BY <1>2, <1>4 DEF ClerkTurn
  <2>2. SeesCurrent(h)'
    BY <1>1, <1>2 DEF SeesCurrent
  <2>3. \A k \in Clerk \ {h} : SeesCurrent(k)'
    BY <2>1 DEF SeesCurrent, NoWork
  <2> QED
    BY <1>1, <1>4, <2>1, <2>2, <2>3 DEF DocumentsInv, SaidOfCurrent
<1>5. \A k \in Clerk : NamesDocument(k)'
  BY <1>1, <1>2 DEF DocumentsInv, NamesDocument
<1> QED
  BY <1>3, <1>4, <1>5 DEF DocumentsInv

\* A clerk writes document d, or stops: others are not at work if they take turns.
LEMMA ClerkWrites ==
  ASSUME DocumentsInv, NEW h \in Clerk, clerk[h] # NoWork,
         clerk' = [clerk EXCEPT ![h] = NoWork],
         document' \in [DocumentId -> DocumentRow \cup {NoDocument}],
         versions' \in [DocumentId -> 0 .. MaxVersion],
         lookedAt' \in [DocumentId -> 0 .. MaxVersion],
         \A d \in DocumentId : document[d] # NoDocument => document'[d] # NoDocument,
         ClerksTakeTurns => \A d \in DocumentId : SaidOfCurrent(d)'
  PROVE  DocumentsInv'
<1>1. clerk'[h] = NoWork /\ \A k \in Clerk \ {h} : clerk'[k] = clerk[k]
  BY DEF DocumentsInv, DocumentsTyped
<1>2. DocumentsTyped'
  BY DEF DocumentsInv, DocumentsTyped, ClerkJob
<1>3. ASSUME ClerksTakeTurns PROVE \A k \in Clerk : clerk'[k] = NoWork
  BY <1>1, <1>3 DEF DocumentsInv
<1>4. ASSUME ClerksTakeTurns PROVE \A k \in Clerk : SeesCurrent(k)'
  BY <1>3, <1>4 DEF SeesCurrent, NoWork
<1>5. ASSUME NEW k \in Clerk PROVE NamesDocument(k)'
  <2>1. clerk[k].op = "verify" => clerk[k].document \in DocumentId
    BY DEF DocumentsInv, DocumentsTyped, ClerkJob, NoWork
  <2> QED
    BY <1>1, <2>1 DEF DocumentsInv, NamesDocument, NoWork
<1> QED
  BY <1>2, <1>3, <1>4, <1>5 DEF DocumentsInv

\* A version becomes current: strict types start again, of others nobody knows.
LEMMA CurrentChanges ==
  ASSUME DocumentsInv, NEW d \in DocumentId, NEW v \in 0 .. MaxVersion, BecomesCurrent(d, v),
         UNCHANGED lookedAt
  PROVE  /\ document' \in [DocumentId -> DocumentRow \cup {NoDocument}]
         /\ \A x \in DocumentId : document[x] # NoDocument => document'[x] # NoDocument
         /\ ClerksTakeTurns => \A x \in DocumentId : SaidOfCurrent(x)'
<1> USE NoDocumentIsNoRow
<1>1. PICK row \in DocumentRow : row = document[d]
  BY DEF BecomesCurrent, Exists, DocumentsInv, DocumentsTyped
<1>2. PICK new : new = AfterNewCurrent(row, v)
  OBVIOUS
<1>3. /\ new \in DocumentRow
      /\ Strict(row.type) => new.status = "PENDING"
  BY <1>2 DEF AfterNewCurrent, DocumentRow, VerificationStatus
<1>4. document' = [document EXCEPT ![d] = new]
  BY <1>1, <1>2 DEF BecomesCurrent
<1>5. /\ document'[d] = new /\ \A x \in DocumentId \ {d} : document'[x] = document[x]
      /\ document' \in [DocumentId -> DocumentRow \cup {NoDocument}]
  BY <1>3, <1>4 DEF DocumentsInv, DocumentsTyped
<1>6. ASSUME ClerksTakeTurns, NEW x \in DocumentId PROVE SaidOfCurrent(x)'
  <2>1. CASE x = d
    BY <1>1, <1>3, <1>5, <2>1 DEF SaidOfCurrent, BecomesCurrent
  <2>2. CASE x # d
    <3>1. SaidOfCurrent(x) /\ document'[x] = document[x] /\ (x \in byHand' <=> x \in byHand)
      BY <1>1, <1>5, <1>6, <2>2 DEF DocumentsInv, BecomesCurrent
    <3> QED
      BY <3>1 DEF SaidOfCurrent
  <2> QED
    BY <2>1, <2>2
<1>7. \A x \in DocumentId : document[x] # NoDocument => document'[x] # NoDocument
  BY <1>3, <1>5
<1> QED
  BY <1>5, <1>6, <1>7

\* Every step of the documents service keeps the invariant.
LEMMA DocumentsNextInv == DocumentsInv /\ [DocumentsNext]_documentVars => DocumentsInv'
<1> SUFFICES ASSUME DocumentsInv, [DocumentsNext]_documentVars PROVE DocumentsInv'
  OBVIOUS
<1> USE NoDocumentIsNoRow, DocumentsAssumption
<1>1. /\ document \in [DocumentId -> DocumentRow \cup {NoDocument}]
      /\ versions \in [DocumentId -> 0 .. MaxVersion]
      /\ lookedAt \in [DocumentId -> 0 .. MaxVersion]
      /\ clerk \in [Clerk -> ClerkJob]
  BY DEF DocumentsInv, DocumentsTyped
<1>2. ASSUME NEW t, NEW requires, SetDocumentType(t, requires) PROVE DocumentsInv'
  BY <1>1, <1>2, WithoutClerk DEF SetDocumentType
<1>3. ASSUME NEW t \in DocumentTypeId, DeleteDocumentType(t) PROVE DocumentsInv'
  <2>1. \A d \in DocumentId :
          /\ document'[d] \in DocumentRow \cup {NoDocument}
          /\ document[d] = NoDocument => document'[d] = NoDocument
          /\ document[d] # NoDocument =>
               /\ document'[d] # NoDocument
               /\ document'[d].status = document[d].status
               /\ document'[d].current = document[d].current
    <3> SUFFICES ASSUME NEW d \in DocumentId
                 PROVE  /\ document'[d] \in DocumentRow \cup {NoDocument}
                        /\ document[d] = NoDocument => document'[d] = NoDocument
                        /\ document[d] # NoDocument =>
                             /\ document'[d] # NoDocument
                             /\ document'[d].status = document[d].status
                             /\ document'[d].current = document[d].current
      OBVIOUS
    <3>1. document'[d] = IF document[d] # NoDocument /\ document[d].type = t
                         THEN [document[d] EXCEPT !.type = NoType] ELSE document[d]
      BY <1>3 DEF DeleteDocumentType
    <3>2. ASSUME NEW row \in DocumentRow
          PROVE  /\ [row EXCEPT !.type = NoType] \in DocumentRow
                 /\ [row EXCEPT !.type = NoType].status = row.status
                 /\ [row EXCEPT !.type = NoType].current = row.current
      BY DEF DocumentRow
    <3>3. document[d] \in DocumentRow \/ document[d] = NoDocument
      BY <1>1
    <3> QED
      BY <3>1, <3>2, <3>3
  <2>2. document' \in [DocumentId -> DocumentRow \cup {NoDocument}]
    BY <1>3, <2>1 DEF DeleteDocumentType
  <2> QED
    BY <1>3, <2>1, <2>2, WithoutClerk DEF DeleteDocumentType
<1>4. ASSUME NEW d \in DocumentId, NEW t \in DocumentTypeId \cup {NoType},
             NEW status \in VerificationStatus, NEW withVersion \in BOOLEAN,
             CreateDocument(d, t, status, withVersion)
      PROVE  DocumentsInv'
  <2>1. PICK row : row = [type |-> t,
                          status |-> IF withVersion /\ Strict(t) THEN "PENDING" ELSE status,
                          current |-> IF withVersion THEN 1 ELSE 0,
                          expired |-> FALSE, deleted |-> FALSE]
    OBVIOUS
  <2>2. row \in DocumentRow
    BY <2>1 DEF DocumentRow, VerificationStatus
  <2>3. /\ document' = [document EXCEPT ![d] = row] /\ document[d] = NoDocument
        /\ versions' = [versions EXCEPT ![d] = IF withVersion THEN 1 ELSE 0]
        /\ byHand' = byHand \cup {d}
        /\ UNCHANGED <<lookedAt, clerk>>
    BY <1>4, <2>1 DEF CreateDocument
  <2>4. DocumentsTyped'
    <3>1. document' \in [DocumentId -> DocumentRow \cup {NoDocument}]
      BY <1>1, <2>2, <2>3
    <3>2. versions' \in [DocumentId -> 0 .. MaxVersion]
      BY <1>1, <2>3
    <3> QED
      BY <1>1, <2>3, <3>1, <3>2 DEF DocumentsTyped
  <2>5. document'[d] = row /\ \A x \in DocumentId \ {d} : document'[x] = document[x]
    BY <1>1, <2>3
  <2>6. ASSUME ClerksTakeTurns, NEW x \in DocumentId PROVE SaidOfCurrent(x)'
    BY <2>3, <2>5, <2>6 DEF DocumentsInv, SaidOfCurrent
  <2>7. ASSUME NEW h \in Clerk
        PROVE  NamesDocument(h)' /\ (ClerksTakeTurns => SeesCurrent(h)')
    <3>1. NamesDocument(h) /\ clerk'[h] = clerk[h] /\ (ClerksTakeTurns => SeesCurrent(h))
      BY <2>3, <2>7 DEF DocumentsInv
    <3>2. clerk[h].op = "verify" => clerk[h].document \in DocumentId \ {d}
      BY <1>1, <2>3, <3>1 DEF ClerkJob, NoWork, NamesDocument
    <3> QED
      BY <2>5, <3>1, <3>2 DEF SeesCurrent, NamesDocument
  <2> QED
    BY <2>3, <2>4, <2>6, <2>7 DEF DocumentsInv
<1>5. ASSUME NEW d \in DocumentId, NEW row \in DocumentRow, document[d] # NoDocument,
             document' = [document EXCEPT ![d] = row],
             UNCHANGED <<versions, lookedAt, clerk>>,
             row.current = document[d].current,
             \/ byHand' = byHand /\ row.status = document[d].status
             \/ byHand' = byHand \cup {d}
      PROVE  DocumentsInv'
  <2>1. /\ document'[d] = row /\ \A x \in DocumentId \ {d} : document'[x] = document[x]
        /\ document' \in [DocumentId -> DocumentRow \cup {NoDocument}]
    BY <1>1, <1>5
  <2> QED
    BY <1>1, <1>5, <2>1, WithoutClerk
<1>6. ASSUME NEW d \in DocumentId, Exists(d)
      PROVE  /\ document[d] \in DocumentRow /\ document[d] # NoDocument
  BY <1>1, <1>6 DEF Exists
<1>7. ASSUME NEW d \in DocumentId, ExpiryPasses(d) PROVE DocumentsInv'
  <2>1. Exists(d)
    BY <1>7 DEF ExpiryPasses
  <2>2. PICK row : row = [document[d] EXCEPT !.expired = TRUE]
    OBVIOUS
  <2>3. /\ row \in DocumentRow /\ row.current = document[d].current
        /\ row.status = document[d].status
    BY <1>6, <2>1, <2>2 DEF DocumentRow
  <2>4. document' = [document EXCEPT ![d] = row] /\ UNCHANGED <<versions, lookedAt, byHand, clerk>>
    BY <1>7, <2>2 DEF ExpiryPasses
  <2> QED
    BY <1>5, <1>6, <2>1, <2>3, <2>4
<1>8. ASSUME NEW d \in DocumentId, NEW t \in DocumentTypeId \cup {NoType},
             NEW status \in VerificationStatus, NEW expired \in BOOLEAN,
             UpdateDocument(d, t, status, expired)
      PROVE  DocumentsInv'
  <2>1. Exists(d)
    BY <1>8 DEF UpdateDocument
  <2>2. PICK row : row = [document[d] EXCEPT !.type = t, !.status = status, !.expired = expired]
    OBVIOUS
  <2>3. /\ row \in DocumentRow /\ row.current = document[d].current
        /\ row.status = status
    BY <1>6, <2>1, <2>2 DEF DocumentRow
  <2>4. /\ document' = [document EXCEPT ![d] = row] /\ UNCHANGED <<versions, lookedAt, clerk>>
        /\ \/ byHand' = byHand /\ status = document[d].status
           \/ byHand' = byHand \cup {d}
    BY <1>8, <2>2 DEF UpdateDocument
  <2> QED
    BY <1>5, <1>6, <2>1, <2>3, <2>4
<1>9. ASSUME NEW d \in DocumentId, DeleteDocument(d) PROVE DocumentsInv'
  <2>1. Exists(d)
    BY <1>9 DEF DeleteDocument
  <2>2. PICK row : row = [document[d] EXCEPT !.deleted = TRUE]
    OBVIOUS
  <2>3. /\ row \in DocumentRow /\ row.current = document[d].current
        /\ row.status = document[d].status
    BY <1>6, <2>1, <2>2 DEF DocumentRow
  <2>4. document' = [document EXCEPT ![d] = row] /\ UNCHANGED <<versions, lookedAt, byHand, clerk>>
    BY <1>9, <2>2 DEF DeleteDocument
  <2> QED
    BY <1>5, <1>6, <2>1, <2>3, <2>4
<1>10. ASSUME NEW h \in Clerk, NEW d \in DocumentId, NEW status \in VerificationStatus,
              ClerkTurn, SetVerification(h, d, status)
       PROVE  DocumentsInv'
  <2>1. PICK job : job = [op |-> "verify", document |-> d, status |-> status,
                          seen |-> document[d].current]
    OBVIOUS
  <2>2. /\ Reads(h, d, job) /\ Exists(d)
        /\ status = "VERIFIED" => document[d].current # 0
    BY <1>10, <2>1 DEF SetVerification
  <2>3. job \in ClerkJob /\ job # NoWork
    BY <1>6, <2>1, <2>2 DEF ClerkJob, NoWork, DocumentRow
  <2>4. job.op = "verify" => /\ job.document = d /\ job.seen = document[d].current
                             /\ job.status = "VERIFIED" => document[d].current # 0
    BY <2>1, <2>2
  <2> QED
    BY <1>10, <2>2, <2>3, <2>4, ClerkReads
<1>11. ASSUME NEW h \in Clerk, NEW d \in DocumentId, NEW setCurrent \in BOOLEAN,
              ClerkTurn, AddVersion(h, d, setCurrent)
       PROVE  DocumentsInv'
  <2>1. PICK job : job = [op |-> "add", document |-> d, version |-> versions[d] + 1,
                          setCurrent |-> setCurrent]
    OBVIOUS
  <2>2. Reads(h, d, job)
    BY <1>11, <2>1 DEF AddVersion
  <2>3. job \in ClerkJob /\ job # NoWork /\ job.op # "verify"
    BY <1>1, <2>1 DEF ClerkJob, NoWork
  <2> QED
    BY <1>11, <2>2, <2>3, ClerkReads
<1>12. ASSUME NEW h \in Clerk, NEW d \in DocumentId, NEW v \in 1 .. MaxVersion,
              ClerkTurn, SetCurrentVersion(h, d, v)
       PROVE  DocumentsInv'
  <2>1. PICK job : job = [op |-> "current", document |-> d, version |-> v]
    OBVIOUS
  <2>2. Reads(h, d, job)
    BY <1>12, <2>1 DEF SetCurrentVersion
  <2>3. job \in ClerkJob /\ job # NoWork /\ job.op # "verify"
    BY <1>1, <2>1 DEF ClerkJob, NoWork
  <2> QED
    BY <1>12, <2>2, <2>3, ClerkReads
<1>13. ASSUME NEW h \in Clerk, WriteVerification(h) PROVE DocumentsInv'
  <2>1. clerk[h].op = "verify" /\ clerk[h] \in ClerkJob
    BY <1>1, <1>13 DEF WriteVerification, Finishes
  <2>2. PICK d \in DocumentId, status \in VerificationStatus, seen \in 0 .. MaxVersion :
          d = clerk[h].document /\ status = clerk[h].status /\ seen = clerk[h].seen
    BY <2>1 DEF ClerkJob, NoWork
  <2>3. clerk[h] # NoWork /\ clerk' = [clerk EXCEPT ![h] = NoWork]
    BY <1>13, <2>1 DEF WriteVerification, Finishes, NoWork
  <2>4. PICK row : row = [document[d] EXCEPT !.status = status]
    OBVIOUS
  <2>5. /\ document' = [document EXCEPT ![d] = row] /\ versions' = versions
        /\ status = "VERIFIED" => /\ lookedAt' = [lookedAt EXCEPT ![d] = seen]
                                  /\ byHand' = byHand \ {d}
        /\ status # "VERIFIED" => lookedAt' = lookedAt /\ byHand' = byHand
    BY <1>13, <2>2, <2>4 DEF WriteVerification
  <2>6. lookedAt' \in [DocumentId -> 0 .. MaxVersion]
    BY <1>1, <2>5
  <2>7. document[d] \in DocumentRow /\ document[d] # NoDocument
    BY <1>1, <2>1, <2>2 DEF DocumentsInv, NamesDocument
  <2>8. row \in DocumentRow /\ row.status = status /\ row.current = document[d].current
    BY <2>4, <2>7 DEF DocumentRow
  <2>9. /\ document'[d] = row /\ \A x \in DocumentId \ {d} : document'[x] = document[x]
        /\ document' \in [DocumentId -> DocumentRow \cup {NoDocument}]
    BY <1>1, <2>5, <2>8
  <2>10. ASSUME ClerksTakeTurns, NEW x \in DocumentId PROVE SaidOfCurrent(x)'
    <3>1. SeesCurrent(h) /\ SaidOfCurrent(x)
      BY <2>10 DEF DocumentsInv
    <3>2. CASE x # d
      <4>1. lookedAt'[x] = lookedAt[x] /\ (x \in byHand' <=> x \in byHand)
        BY <1>1, <2>5, <3>2
      <4> QED
        BY <2>9, <3>1, <3>2, <4>1 DEF SaidOfCurrent
    <3>3. CASE x = d /\ status = "VERIFIED"
      <4>1. row.current = seen /\ seen # 0
        BY <2>1, <2>2, <2>8, <3>1, <3>3 DEF SeesCurrent
      <4>2. lookedAt'[d] = seen
        BY <1>1, <2>5, <3>3
      <4> QED
        BY <2>9, <3>3, <4>1, <4>2 DEF SaidOfCurrent
    <3>4. CASE x = d /\ status # "VERIFIED"
      BY <2>8, <2>9, <3>4 DEF SaidOfCurrent
    <3> QED
      BY <3>2, <3>3, <3>4
  <2>11. \A x \in DocumentId : document[x] # NoDocument => document'[x] # NoDocument
    BY <2>8, <2>9, NoDocumentIsNoRow
  <2>12. versions' \in [DocumentId -> 0 .. MaxVersion]
    BY <1>1, <2>5
  <2> QED
    BY <2>3, <2>6, <2>9, <2>10, <2>11, <2>12, ClerkWrites
<1>14. ASSUME NEW h \in Clerk, WriteVersion(h) PROVE DocumentsInv'
  <2>1. clerk[h].op = "add" /\ clerk[h] \in ClerkJob
    BY <1>1, <1>14 DEF WriteVersion, Finishes
  <2>2. PICK d \in DocumentId, v \in Nat : d = clerk[h].document /\ v = clerk[h].version
    BY <2>1 DEF ClerkJob, NoWork
  <2>3. clerk[h] # NoWork /\ clerk' = [clerk EXCEPT ![h] = NoWork]
    BY <1>14, <2>1 DEF WriteVersion, Finishes, NoWork
  <2>4. /\ v \in 0 .. MaxVersion /\ versions' = [versions EXCEPT ![d] = v]
        /\ lookedAt' = lookedAt
        /\ BecomesCurrent(d, v) \/ UNCHANGED <<document, byHand>>
    BY <1>14, <2>2 DEF WriteVersion
  <2>5. versions' \in [DocumentId -> 0 .. MaxVersion]
    BY <1>1, <2>4
  <2>6. CASE BecomesCurrent(d, v)
    BY <1>1, <2>3, <2>4, <2>5, <2>6, CurrentChanges, ClerkWrites
  <2>7. CASE UNCHANGED <<document, byHand>>
    <3>1. ClerksTakeTurns => \A x \in DocumentId : SaidOfCurrent(x)'
      BY <2>4, <2>7 DEF DocumentsInv, SaidOfCurrent
    <3> QED
      BY <1>1, <2>3, <2>4, <2>5, <2>7, <3>1, ClerkWrites
  <2> QED
    BY <2>4, <2>6, <2>7
<1>15. ASSUME NEW h \in Clerk, WriteCurrent(h) PROVE DocumentsInv'
  <2>1. clerk[h].op = "current" /\ clerk[h] \in ClerkJob
    BY <1>1, <1>15 DEF WriteCurrent, Finishes
  <2>2. PICK d \in DocumentId, v \in 0 .. MaxVersion :
          d = clerk[h].document /\ v = clerk[h].version
    BY <2>1 DEF ClerkJob, NoWork
  <2>3. clerk[h] # NoWork /\ clerk' = [clerk EXCEPT ![h] = NoWork]
    BY <1>15, <2>1 DEF WriteCurrent, Finishes, NoWork
  <2>4. BecomesCurrent(d, v) /\ UNCHANGED <<versions, lookedAt>>
    BY <1>15, <2>2 DEF WriteCurrent
  <2> QED
    BY <1>1, <2>3, <2>4, CurrentChanges, ClerkWrites
<1>16. ASSUME NEW h \in Clerk, ClerkStops(h) PROVE DocumentsInv'
  <2>1. ClerksTakeTurns => \A x \in DocumentId : SaidOfCurrent(x)'
    BY <1>16 DEF ClerkStops, DocumentsInv, SaidOfCurrent
  <2> QED
    BY <1>1, <1>16, <2>1, ClerkWrites DEF ClerkStops
<1>17. CASE UNCHANGED documentVars
  BY <1>17 DEF documentVars, DocumentsInv, DocumentsTyped, SeesCurrent,
                   NamesDocument, SaidOfCurrent
<1>18. CASE DocumentsNext
  BY <1>2, <1>3, <1>4, <1>7, <1>8, <1>9, <1>10, <1>11, <1>12, <1>13, <1>14, <1>15, <1>16, <1>18
  DEF DocumentsNext
<1> QED
  BY <1>17, <1>18

\* A document says VERIFIED of the version that was looked at, for any number of
\* documents, types and versions, if clerks take turns and whatever is set by
\* hand is set aside: setVerificationStatus against updateCurrentVersion.
THEOREM VerifiedIsAlwaysAsSeen == DocumentsSpec => []VerifiedAsSeen
<1>1. DocumentsInit => DocumentsInv
  BY DocumentsAssumption
  DEF DocumentsInit, DocumentsInv, DocumentsTyped, ClerkJob, SeesCurrent, NamesDocument,
      SaidOfCurrent, NoWork
<1>2. DocumentsInv => VerifiedAsSeen
  BY DEF DocumentsInv, SaidOfCurrent, VerifiedAsSeen
<1> QED
  BY <1>1, <1>2, DocumentsNextInv, PTL DEF DocumentsSpec

----------------------------------------------------------------------------
(* Forms *)

FormJob ==
  [op : {"update"}, form : FormId, patch : Patches, questions : {"keep", "none", "new"}]
  \cup [op : {"publish"}, form : FormId]
  \cup [op : {"assign"}, id : FormAssignmentId, row : FormAssignmentRow]
  \cup [op : {"submit"}, id : ResponseId, row : ResponseRow]
  \cup {NoJob}

Sent(a) == assigned[a] # NoForm

\* What a handler has read is still so when it writes: no response to questions
\* that are to be replaced, no second assignment to a target, the edition that
\* is answered and whether another answer may come.
FormJobStands(job) ==
  /\ job.op \in {"update", "publish"} => form[job.form] # NoForm
  /\ job.op = "update" /\ job.questions # "keep" =>
       \A a \in AssignmentsOf(job.form) : ResponsesTo(a) = {}
  /\ job.op = "assign" =>
       /\ form[job.row.form] # NoForm
       /\ \/ assigned[job.id] = job.row
          \/ /\ ~Sent(job.id) /\ job.row.status = "ASSIGNED"
             /\ \A a \in AssignmentsOf(job.row.form) : assigned[a].target # job.row.target
  /\ job.op = "submit" =>
       /\ response[job.id] = NoForm /\ Sent(job.row.assignment)
       /\ form[assigned[job.row.assignment].form].edition = job.row.edition
       /\ assigned[job.row.assignment].status = "SUBMITTED" =>
            form[assigned[job.row.assignment].form].several

OneFormHandler == \A g, h \in FormHandler : formHandler[g] # NoJob /\ formHandler[h] # NoJob => g = h

AnswersItsForm(r) ==
  response[r] # NoForm => response[r].edition = form[assigned[response[r].assignment].form].edition
OneOfTarget(a, b) ==
  Sent(a) /\ Sent(b) /\ assigned[a].form = assigned[b].form /\ assigned[a].target = assigned[b].target
    => a = b
Responded(a) ==
  Sent(a) => /\ ~form[assigned[a].form].everSeveral => Cardinality(ResponsesTo(a)) <= 1
             /\ ResponsesTo(a) # {} <=> assigned[a].status = "SUBMITTED"

FormsFit ==
  /\ \A f \in FormId : form[f] # NoForm /\ form[f].several => form[f].everSeveral
  /\ \A r \in ResponseId : AnswersItsForm(r)
  /\ \A a, b \in FormAssignmentId : OneOfTarget(a, b)
  /\ \A a \in FormAssignmentId : Responded(a)

FormsInv ==
  /\ FormsTypeOK /\ formHandler \in [FormHandler -> FormJob]
  /\ OneFormHandler /\ FormsFit
  /\ \A h \in FormHandler : FormJobStands(formHandler[h])

----------------------------------------------------------------------------

\* A handler that comes in is alone.
LEMMA TakesStep ==
  ASSUME FormsInv, FormsTakeTurns, FormsTurn, NEW h \in FormHandler, NEW job \in FormJob,
         Takes(h, job), FormJobStands(job)
  PROVE  FormsInv'
<1>1. formHandler' = [formHandler EXCEPT ![h] = job] /\ UNCHANGED <<form, assigned, response>>
  BY DEF Takes
<1>2. FormsTypeOK' BY <1>1 DEF FormsInv, FormsTypeOK
<1>3. formHandler' \in [FormHandler -> FormJob] BY <1>1 DEF FormsInv
<1>4. OneFormHandler' BY <1>1 DEF FormsInv, FormsTurn, OneFormHandler
<1>5. FormsFit' BY <1>1 DEF FormsInv, FormsFit, AnswersItsForm, OneOfTarget, Responded, Sent, ResponsesTo
<1>6. \A g \in FormHandler : FormJobStands(formHandler'[g])
  BY <1>1 DEF FormsInv
<1>7. \A g \in FormHandler : FormJobStands(formHandler[g])'
  BY <1>1, <1>6 DEF FormJobStands, Sent, AssignmentsOf, ResponsesTo
<1> QED BY <1>2, <1>3, <1>4, <1>5, <1>7 DEF FormsInv

\* Handlers that are idle stand on nothing.
LEMMA IdleStep ==
  ASSUME FormsTypeOK', FormsFit', \A h \in FormHandler : formHandler'[h] = NoJob,
         FormsInv, formHandler' \in [FormHandler -> FormJob]
  PROVE  FormsInv'
<1>1. OneFormHandler' BY DEF OneFormHandler
<1>2. \A h \in FormHandler : FormJobStands(formHandler[h])'
  BY DEF FormJobStands, NoJob
<1> QED BY <1>1, <1>2 DEF FormsInv

\* A handler that ends was the only one.
LEMMA LastHandlerEnds ==
  ASSUME FormsInv, NEW h \in FormHandler, NEW op \in {"update", "publish", "assign", "submit"},
         FormHandlerEnds(h, op)
  PROVE  /\ formHandler[h] \in FormJob /\ formHandler[h].op = op /\ FormJobStands(formHandler[h])
         /\ \A g \in FormHandler : formHandler'[g] = NoJob
         /\ formHandler' \in [FormHandler -> FormJob]
<1>1. formHandler[h].op = op /\ formHandler' = [formHandler EXCEPT ![h] = NoJob]
  BY DEF FormHandlerEnds
<1>2. formHandler[h] # NoJob BY <1>1 DEF NoJob
<1>3. \A g \in FormHandler : formHandler'[g] = NoJob
  BY <1>1, <1>2 DEF FormsInv, OneFormHandler
<1>4. formHandler' \in [FormHandler -> FormJob] BY <1>1 DEF FormsInv, FormJob
<1> QED BY <1>1, <1>3, <1>4 DEF FormsInv

\* A form is written and keeps its edition, or had no responses.
LEMMA FormWritten ==
  ASSUME FormsInv, NEW f \in FormId, NEW row \in FormRow, form[f] # NoForm,
         form' = [form EXCEPT ![f] = row], UNCHANGED <<assigned, response>>,
         row.several => row.everSeveral, form[f].everSeveral => row.everSeveral,
         \/ row.edition = form[f].edition
         \/ \A a \in AssignmentsOf(f) : ResponsesTo(a) = {}
  PROVE  FormsTypeOK' /\ FormsFit'
<1>1. /\ form'[f] = row /\ row # NoForm /\ \A g \in FormId \ {f} : form'[g] = form[g]
  BY NoFormIsNoRow DEF FormsInv, FormsTypeOK
<1>2. \A g \in FormId : form'[g] = NoForm <=> form[g] = NoForm BY <1>1
<1>3. \A a \in FormAssignmentId : Sent(a) => assigned[a] \in FormAssignmentRow /\ assigned[a].form \in FormId
  BY DEF FormsInv, FormsTypeOK, Sent, FormAssignmentRow
<1>4. \A r \in ResponseId : response[r] # NoForm =>
        /\ response[r].assignment \in FormAssignmentId /\ Sent(response[r].assignment)
  BY DEF FormsInv, FormsTypeOK, Sent, ResponseRow
<1>5. FormsTypeOK'
  <2>1. form' \in [FormId -> FormRow \cup {NoForm}] BY DEF FormsInv, FormsTypeOK
  <2> QED BY <1>2, <1>3, <2>1 DEF FormsInv, FormsTypeOK, Sent
<1>6. \A g \in FormId : form'[g] # NoForm /\ form'[g].several => form'[g].everSeveral
  BY <1>1 DEF FormsInv, FormsFit
<1>7. ASSUME NEW r \in ResponseId PROVE AnswersItsForm(r)'
  <2> SUFFICES ASSUME response[r] # NoForm
               PROVE  response[r].edition = form'[assigned[response[r].assignment].form].edition
    BY DEF AnswersItsForm
  <2> DEFINE a == response[r].assignment
  <2>1. a \in FormAssignmentId /\ Sent(a) /\ assigned[a].form \in FormId BY <1>3, <1>4
  <2>2. r \in ResponsesTo(a) BY DEF ResponsesTo
  <2>3. response[r].edition = form[assigned[a].form].edition BY DEF FormsInv, FormsFit, AnswersItsForm
  <2>4. CASE assigned[a].form = f
    <3>1. a \in AssignmentsOf(f) BY <2>1, <2>4 DEF AssignmentsOf, Sent
    <3>2. row.edition = form[f].edition BY <2>2, <3>1
    <3> QED BY <1>1, <2>3, <2>4, <3>2
  <2>5. CASE assigned[a].form # f BY <1>1, <2>1, <2>3, <2>5
  <2> QED BY <2>4, <2>5
<1>8. \A a, b \in FormAssignmentId : OneOfTarget(a, b)'
  BY DEF FormsInv, FormsFit, OneOfTarget, Sent
<1>9. ASSUME NEW a \in FormAssignmentId PROVE Responded(a)'
  <2> SUFFICES ASSUME Sent(a)
               PROVE  /\ ~form'[assigned[a].form].everSeveral => Cardinality(ResponsesTo(a)) <= 1
                      /\ ResponsesTo(a) # {} <=> assigned[a].status = "SUBMITTED"
    BY DEF Responded, Sent, ResponsesTo
  <2>1. Responded(a) BY DEF FormsInv, FormsFit
  <2>2. form[assigned[a].form].everSeveral => form'[assigned[a].form].everSeveral
    BY <1>1, <1>3
  <2> QED BY <2>1, <2>2 DEF Responded
<1> QED BY <1>5, <1>6, <1>7, <1>8, <1>9 DEF FormsFit

LEMMA CommitUpdateStep ==
  ASSUME FormsInv, NEW h \in FormHandler, CommitUpdate(h)
  PROVE  FormsInv'
<1> DEFINE job == formHandler[h]
           f == job.form
           row == [status |-> job.patch.status, several |-> job.patch.several, closed |-> job.patch.closed,
                   everSeveral |-> form[f].everSeveral \/ job.patch.several,
                   edition |-> NextEdition(f, job.questions)]
<1>1. /\ FormHandlerEnds(h, "update") /\ NextEdition(f, job.questions) <= MaxEdition
      /\ form' = [form EXCEPT ![f] = row] /\ UNCHANGED <<assigned, response>>
  BY DEF CommitUpdate
<1>2. /\ job \in FormJob /\ job.op = "update" /\ FormJobStands(job)
      /\ \A g \in FormHandler : formHandler'[g] = NoJob
      /\ formHandler' \in [FormHandler -> FormJob]
  BY <1>1, LastHandlerEnds
<1>3. /\ f \in FormId /\ job.patch \in Patches /\ job.questions \in {"keep", "none", "new"}
      /\ form[f] # NoForm
  BY <1>2 DEF FormJob, NoJob, FormJobStands
<1>4. form[f] \in FormRow BY <1>3 DEF FormsInv, FormsTypeOK
<1>5. /\ NextEdition(f, job.questions) \in 0 .. MaxEdition
      /\ job.questions = "keep" => NextEdition(f, job.questions) = form[f].edition
  BY <1>1, <1>3, <1>4, FormsAssumption DEF NextEdition, FormRow
<1>6. row \in FormRow BY <1>3, <1>4, <1>5 DEF FormRow, Patches
<1>7. row.several => row.everSeveral OBVIOUS
<1>8. form[f].everSeveral => row.everSeveral OBVIOUS
<1>9. row.edition = form[f].edition \/ \A a \in AssignmentsOf(f) : ResponsesTo(a) = {}
  BY <1>2, <1>5 DEF FormJobStands
<1> HIDE DEF row, job, f
<1>10. FormsTypeOK' /\ FormsFit'
  BY <1>1, <1>3, <1>6, <1>7, <1>8, <1>9, FormWritten
<1> QED BY <1>2, <1>10, IdleStep

LEMMA CommitPublishStep ==
  ASSUME FormsInv, NEW h \in FormHandler, CommitPublish(h)
  PROVE  FormsInv'
<1> DEFINE f == formHandler[h].form
           row == [form[f] EXCEPT !.status = "PUBLISHED"]
<1>1. /\ FormHandlerEnds(h, "publish")
      /\ form' = [form EXCEPT ![f].status = "PUBLISHED"] /\ UNCHANGED <<assigned, response>>
  BY DEF CommitPublish
<1>2. /\ formHandler[h] \in FormJob /\ formHandler[h].op = "publish" /\ FormJobStands(formHandler[h])
      /\ \A g \in FormHandler : formHandler'[g] = NoJob
      /\ formHandler' \in [FormHandler -> FormJob]
  BY <1>1, LastHandlerEnds
<1>3. f \in FormId /\ form[f] # NoForm BY <1>2 DEF FormJob, NoJob, FormJobStands
<1>4. form[f] \in FormRow BY <1>3 DEF FormsInv, FormsTypeOK
<1>5. /\ row \in FormRow /\ row.several = form[f].several /\ row.everSeveral = form[f].everSeveral
      /\ row.edition = form[f].edition
  BY <1>4 DEF FormRow, FormStatus
<1>6. form' = [form EXCEPT ![f] = row] BY <1>1
<1>7. row.several => row.everSeveral BY <1>3, <1>5 DEF FormsInv, FormsFit
<1>8. form[f].everSeveral => row.everSeveral BY <1>5
<1>9. row.edition = form[f].edition \/ \A a \in AssignmentsOf(f) : ResponsesTo(a) = {} BY <1>5
<1> HIDE DEF row, f
<1>10. FormsTypeOK' /\ FormsFit'
  BY <1>1, <1>3, <1>5, <1>6, <1>7, <1>8, <1>9, FormWritten
<1> QED BY <1>2, <1>10, IdleStep

\* An assignment is new, and the only one of its target, or is what it was.
LEMMA CommitAssignStep ==
  ASSUME FormsInv, NEW h \in FormHandler, CommitAssign(h)
  PROVE  FormsInv'
<1> DEFINE n == formHandler[h].id
           row == formHandler[h].row
<1>1. /\ FormHandlerEnds(h, "assign")
      /\ assigned' = [assigned EXCEPT ![n] = row] /\ UNCHANGED <<form, response>>
  BY DEF CommitAssign
<1>2. /\ formHandler[h] \in FormJob /\ formHandler[h].op = "assign" /\ FormJobStands(formHandler[h])
      /\ \A g \in FormHandler : formHandler'[g] = NoJob
      /\ formHandler' \in [FormHandler -> FormJob]
  BY <1>1, LastHandlerEnds
<1>3. n \in FormAssignmentId /\ row \in FormAssignmentRow /\ form[row.form] # NoForm
  BY <1>2 DEF FormJob, NoJob, FormJobStands
<1>4. /\ row # NoForm /\ assigned'[n] = row
      /\ \A a \in FormAssignmentId \ {n} : assigned'[a] = assigned[a]
  BY <1>1, <1>3, NoFormIsNoRow DEF FormsInv, FormsTypeOK
<1>5. \/ assigned[n] = row
      \/ /\ ~Sent(n) /\ row.status = "ASSIGNED"
         /\ \A a \in AssignmentsOf(row.form) : assigned[a].target # row.target
  BY <1>2 DEF FormJobStands
<1> HIDE DEF n, row
<1>6. CASE assigned[n] = row
  <2>1. assigned' = assigned BY <1>1, <1>3, <1>6 DEF FormsInv, FormsTypeOK
  <2>2. FormsTypeOK' BY <1>1, <2>1 DEF FormsInv, FormsTypeOK
  <2>3. FormsFit'
    <3>1. UNCHANGED <<form, assigned, response>> BY <1>1, <2>1
    <3>2. FormsFit BY DEF FormsInv
    <3> QED BY <3>1, <3>2 DEF FormsFit, AnswersItsForm, OneOfTarget, Responded, Sent, ResponsesTo
  <2> QED BY <1>2, <2>2, <2>3, IdleStep
<1>7. CASE /\ ~Sent(n) /\ row.status = "ASSIGNED"
           /\ \A a \in AssignmentsOf(row.form) : assigned[a].target # row.target
  <2>1. FormsTypeOK'
    <3>1. assigned' \in [FormAssignmentId -> FormAssignmentRow \cup {NoForm}]
      BY <1>1, <1>3 DEF FormsInv, FormsTypeOK
    <3>2. \A a \in FormAssignmentId : assigned'[a] # NoForm => form[assigned'[a].form] # NoForm
      BY <1>3, <1>4 DEF FormsInv, FormsTypeOK
    <3>3. \A r \in ResponseId : response[r] # NoForm => assigned'[response[r].assignment] # NoForm
      BY <1>4 DEF FormsInv, FormsTypeOK, ResponseRow
    <3> QED BY <1>1, <3>1, <3>2, <3>3 DEF FormsInv, FormsTypeOK
  <2>2. ResponsesTo(n) = {}
    BY <1>7 DEF ResponsesTo, FormsInv, FormsTypeOK, Sent
  <2>3. ASSUME NEW r \in ResponseId PROVE AnswersItsForm(r)'
    <3> SUFFICES ASSUME response[r] # NoForm
                 PROVE  response[r].edition = form[assigned'[response[r].assignment].form].edition
      BY <1>1 DEF AnswersItsForm
    <3>1. response[r].assignment \in FormAssignmentId /\ response[r].assignment # n
      BY <1>7 DEF FormsInv, FormsTypeOK, Sent, ResponseRow
    <3> QED BY <1>4, <3>1 DEF FormsInv, FormsFit, AnswersItsForm
  <2>4. ASSUME NEW a \in FormAssignmentId, NEW b \in FormAssignmentId PROVE OneOfTarget(a, b)'
    <3>1. OneOfTarget(a, b) BY DEF FormsInv, FormsFit
    <3>2. \A c \in FormAssignmentId :
            Sent(c) /\ assigned[c].form = row.form => assigned[c].target # row.target
      BY <1>7 DEF AssignmentsOf, Sent
    <3> QED BY <1>4, <3>1, <3>2 DEF OneOfTarget, Sent
  <2>5. ASSUME NEW a \in FormAssignmentId PROVE Responded(a)'
    <3>1. ResponsesTo(a)' = ResponsesTo(a) BY <1>1 DEF ResponsesTo
    <3>2. CASE a = n
      <4>1. Cardinality({}) = 0 BY FS_EmptySet
      <4>2. ResponsesTo(a)' = {} BY <2>2, <3>1, <3>2
      <4> QED BY <1>4, <1>7, <3>2, <4>1, <4>2 DEF Responded
    <3>3. CASE a # n
      <4>1. assigned'[a] = assigned[a] BY <1>4, <3>3
      <4>2. Responded(a) BY DEF FormsInv, FormsFit
      <4> QED BY <1>1, <3>1, <4>1, <4>2 DEF Responded, Sent
    <3> QED BY <3>2, <3>3
  <2>6. FormsFit' BY <1>1, <2>3, <2>4, <2>5 DEF FormsInv, FormsFit
  <2> QED BY <1>2, <2>1, <2>6, IdleStep
<1> QED BY <1>5, <1>6, <1>7

LEMMA CommitSubmitStep ==
  ASSUME FormsInv, NEW h \in FormHandler, CommitSubmit(h)
  PROVE  FormsInv'
<1> DEFINE r == formHandler[h].id
           row == formHandler[h].row
           a == row.assignment
           sub == [assigned[a] EXCEPT !.status = "SUBMITTED"]
<1>1. /\ FormHandlerEnds(h, "submit")
      /\ response' = [response EXCEPT ![r] = row]
      /\ assigned' = [assigned EXCEPT ![a].status = "SUBMITTED"] /\ form' = form
  BY DEF CommitSubmit
<1>2. /\ formHandler[h] \in FormJob /\ formHandler[h].op = "submit" /\ FormJobStands(formHandler[h])
      /\ \A g \in FormHandler : formHandler'[g] = NoJob
      /\ formHandler' \in [FormHandler -> FormJob]
  BY <1>1, LastHandlerEnds
<1>3. /\ r \in ResponseId /\ row \in ResponseRow /\ a \in FormAssignmentId
      /\ response[r] = NoForm /\ Sent(a) /\ form[assigned[a].form].edition = row.edition
      /\ assigned[a].status = "SUBMITTED" => form[assigned[a].form].several
  BY <1>2 DEF FormJob, NoJob, FormJobStands, ResponseRow
<1>4. assigned[a] \in FormAssignmentRow /\ assigned[a].form \in FormId /\ form[assigned[a].form] # NoForm
  BY <1>3 DEF FormsInv, FormsTypeOK, Sent, FormAssignmentRow
<1>5. /\ sub \in FormAssignmentRow /\ sub # NoForm /\ sub.form = assigned[a].form
      /\ sub.target = assigned[a].target /\ sub.status = "SUBMITTED"
  BY <1>4, NoFormIsNoRow DEF FormAssignmentRow
<1>6. assigned' = [assigned EXCEPT ![a] = sub] BY <1>1
<1> HIDE DEF sub
<1>7. /\ assigned'[a] = sub /\ \A b \in FormAssignmentId \ {a} : assigned'[b] = assigned[b]
      /\ assigned' \in [FormAssignmentId -> FormAssignmentRow \cup {NoForm}]
  BY <1>3, <1>5, <1>6 DEF FormsInv, FormsTypeOK
<1> HIDE DEF a
<1>8. /\ response'[r] = row /\ row # NoForm /\ row.assignment = a
      /\ \A q \in ResponseId \ {r} : response'[q] = response[q]
      /\ response' \in [ResponseId -> ResponseRow \cup {NoForm}]
  BY <1>1, <1>3, NoFormIsNoRow DEF FormsInv, FormsTypeOK, a
<1> HIDE DEF r, row
<1>9. \A b \in FormAssignmentId :
        /\ Sent(b)' <=> Sent(b)
        /\ Sent(b) => assigned'[b].form = assigned[b].form /\ assigned'[b].target = assigned[b].target
  BY <1>3, <1>5, <1>7 DEF Sent
<1>10. FormsTypeOK'
  <2>1. \A b \in FormAssignmentId : assigned'[b] # NoForm => form[assigned'[b].form] # NoForm
    BY <1>9 DEF FormsInv, FormsTypeOK, Sent
  <2>2. ASSUME NEW q \in ResponseId, response'[q] # NoForm
        PROVE  assigned'[response'[q].assignment] # NoForm
    <3>1. CASE q = r BY <1>5, <1>7, <1>8, <3>1
    <3>2. CASE q # r
      <4>1. response'[q] = response[q] BY <1>8, <3>2
      <4>2. response[q].assignment \in FormAssignmentId /\ Sent(response[q].assignment)
        BY <2>2, <4>1 DEF FormsInv, FormsTypeOK, ResponseRow, Sent
      <4> QED BY <1>9, <4>1, <4>2 DEF Sent
    <3> QED BY <3>1, <3>2
  <2> QED BY <1>1, <1>7, <1>8, <2>1, <2>2 DEF FormsInv, FormsTypeOK
<1>11. ASSUME NEW q \in ResponseId PROVE AnswersItsForm(q)'
  <2> SUFFICES ASSUME response'[q] # NoForm
               PROVE  response'[q].edition = form[assigned'[response'[q].assignment].form].edition
    BY <1>1 DEF AnswersItsForm
  <2>1. CASE q = r BY <1>3, <1>5, <1>7, <1>8, <2>1
  <2>2. CASE q # r
    <3>1. response'[q] = response[q] BY <1>8, <2>2
    <3>2. response[q].assignment \in FormAssignmentId /\ Sent(response[q].assignment)
      BY <3>1 DEF FormsInv, FormsTypeOK, ResponseRow, Sent
    <3>3. AnswersItsForm(q) BY DEF FormsInv, FormsFit
    <3> QED BY <1>9, <3>1, <3>2, <3>3 DEF AnswersItsForm
  <2> QED BY <2>1, <2>2
<1>12. ASSUME NEW b \in FormAssignmentId, NEW c \in FormAssignmentId PROVE OneOfTarget(b, c)'
  <2>1. OneOfTarget(b, c) BY DEF FormsInv, FormsFit
  <2> QED BY <1>9, <2>1 DEF OneOfTarget
<1>13. ASSUME NEW b \in FormAssignmentId PROVE Responded(b)'
  <2>1. Responded(b) BY DEF FormsInv, FormsFit
  <2>2. CASE b = a
    <3>1. ResponsesTo(b)' = ResponsesTo(b) \cup {r}
      BY <1>3, <1>8, <2>2 DEF ResponsesTo
    <3>2. ~form[assigned[a].form].everSeveral => ResponsesTo(b) = {}
      <4>1. form[assigned[a].form].several => form[assigned[a].form].everSeveral
        BY <1>4 DEF FormsInv, FormsFit
      <4>2. ~form[assigned[a].form].everSeveral => assigned[a].status # "SUBMITTED" BY <1>3, <4>1
      <4> QED BY <1>3, <2>1, <2>2, <4>2 DEF Responded
    <3>3. Cardinality({r}) = 1
      <4>1. IsFiniteSet({}) /\ Cardinality({}) = 0 /\ r \notin {} BY FS_EmptySet
      <4>2. Cardinality({} \cup {r}) = Cardinality({}) + 1 BY <4>1, FS_AddElement
      <4>3. {} \cup {r} = {r} OBVIOUS
      <4> QED BY <4>1, <4>2, <4>3
    <3>4. ~form[assigned[a].form].everSeveral => Cardinality(ResponsesTo(b)') <= 1
      <4> SUFFICES ASSUME ~form[assigned[a].form].everSeveral PROVE Cardinality(ResponsesTo(b)') <= 1
        OBVIOUS
      <4>1. ResponsesTo(b)' = {r} BY <3>1, <3>2
      <4>2. Cardinality(ResponsesTo(b)') = 1 BY <3>3, <4>1
      <4> QED BY <4>2
    <3>5. ResponsesTo(b)' # {} BY <3>1
    <3>6. assigned'[b] = sub BY <1>7, <2>2
    <3> QED BY <1>1, <1>5, <2>2, <3>4, <3>5, <3>6 DEF Responded
  <2>3. CASE b # a
    <3>1. ResponsesTo(b)' = ResponsesTo(b)
      BY <1>3, <1>8, <2>3 DEF ResponsesTo
    <3>2. assigned'[b] = assigned[b] BY <1>7, <2>3
    <3> QED BY <1>1, <2>1, <3>1, <3>2 DEF Responded, Sent
  <2> QED BY <2>2, <2>3
<1>14. FormsFit' BY <1>1, <1>11, <1>12, <1>13 DEF FormsInv, FormsFit
<1> QED BY <1>2, <1>10, <1>14, IdleStep

\* Time, which closes a form, whoever is in between.
LEMMA FormClosesStep ==
  ASSUME FormsInv, NEW f \in FormId, FormCloses(f)
  PROVE  FormsInv'
<1> DEFINE row == [form[f] EXCEPT !.closed = TRUE]
<1>1. /\ form[f] # NoForm /\ form' = [form EXCEPT ![f].closed = TRUE]
      /\ UNCHANGED <<assigned, response>> /\ formHandler' = formHandler
  BY DEF FormCloses
<1>2. form[f] \in FormRow BY <1>1 DEF FormsInv, FormsTypeOK
<1>3. /\ row \in FormRow /\ row.several = form[f].several /\ row.everSeveral = form[f].everSeveral
      /\ row.edition = form[f].edition /\ row # NoForm
  BY <1>2, NoFormIsNoRow DEF FormRow
<1>4. form' = [form EXCEPT ![f] = row] BY <1>1
<1>5. row.several => row.everSeveral BY <1>1, <1>3 DEF FormsInv, FormsFit
<1>6. form[f].everSeveral => row.everSeveral BY <1>3
<1>7. row.edition = form[f].edition \/ \A a \in AssignmentsOf(f) : ResponsesTo(a) = {} BY <1>3
<1> HIDE DEF row
<1>8. FormsTypeOK' /\ FormsFit'
  BY <1>1, <1>3, <1>4, <1>5, <1>6, <1>7, FormWritten
<1>9. \A g \in FormId :
        /\ form'[g] = NoForm <=> form[g] = NoForm
        /\ form[g] # NoForm => form'[g].edition = form[g].edition /\ form'[g].several = form[g].several
  BY <1>1, <1>3, <1>4 DEF FormsInv, FormsTypeOK
<1>10. ASSUME NEW h \in FormHandler PROVE FormJobStands(formHandler[h])'
  <2> DEFINE job == formHandler[h]
  <2>1. job \in FormJob /\ FormJobStands(job) BY DEF FormsInv
  <2>2. job.op \in {"update", "publish"} => job.form \in FormId BY <2>1 DEF FormJob, NoJob
  <2>3. job.op = "assign" => job.row.form \in FormId BY <2>1 DEF FormJob, NoJob, FormAssignmentRow
  <2>4. job.op = "submit" =>
          /\ job.row.assignment \in FormAssignmentId
          /\ assigned[job.row.assignment].form \in FormId
          /\ form[assigned[job.row.assignment].form] # NoForm
    <3> SUFFICES ASSUME job.op = "submit"
                 PROVE  /\ job.row.assignment \in FormAssignmentId
                        /\ assigned[job.row.assignment].form \in FormId
                        /\ form[assigned[job.row.assignment].form] # NoForm
      OBVIOUS
    <3>1. job.row \in ResponseRow BY <2>1 DEF FormJob, NoJob
    <3>2. job.row.assignment \in FormAssignmentId /\ assigned[job.row.assignment] # NoForm
      BY <2>1, <3>1 DEF FormJobStands, Sent, ResponseRow
    <3> QED BY <3>2 DEF FormsInv, FormsTypeOK, FormAssignmentRow
  <2>5. /\ \A a : ResponsesTo(a)' = ResponsesTo(a) /\ AssignmentsOf(a)' = AssignmentsOf(a)
        /\ \A a : Sent(a)' <=> Sent(a)
    BY <1>1 DEF ResponsesTo, AssignmentsOf, Sent
  <2>6. FormJobStands(job)'
    BY <1>1, <1>9, <2>1, <2>2, <2>3, <2>4, <2>5 DEF FormJobStands
  <2> QED BY <2>6
<1>11. OneFormHandler' /\ formHandler' \in [FormHandler -> FormJob]
  BY <1>1 DEF FormsInv, OneFormHandler
<1> QED BY <1>8, <1>10, <1>11 DEF FormsInv

\* createForm and archiveForm, which come when nobody is in between.
LEMMA OneStatementStep ==
  ASSUME FormsInv, FormsTakeTurns, FormsTurn, NEW f \in FormId,
         \/ \E status \in FormStatus, edition \in {0, 1}, several \in BOOLEAN :
              CreateForm(f, status, edition, several)
         \/ ArchiveForm(f)
  PROVE  FormsInv'
<1>1. formHandler' = formHandler /\ \A h \in FormHandler : formHandler'[h] = NoJob
  BY DEF CreateForm, ArchiveForm, FormsTurn
<1>2. formHandler' \in [FormHandler -> FormJob] BY <1>1 DEF FormsInv
<1>3. ASSUME NEW status \in FormStatus, NEW edition \in {0, 1}, NEW several \in BOOLEAN,
             CreateForm(f, status, edition, several)
      PROVE  FormsTypeOK' /\ FormsFit'
  <2> DEFINE row == [status |-> status, edition |-> edition, several |-> several,
                     everSeveral |-> several, closed |-> FALSE]
  <2>1. form[f] = NoForm /\ form' = [form EXCEPT ![f] = row] /\ UNCHANGED <<assigned, response>>
    BY <1>3 DEF CreateForm
  <2>2. row \in FormRow /\ row # NoForm /\ (row.several => row.everSeveral)
    <3>1. edition \in 0 .. MaxEdition BY FormsAssumption
    <3>2. row \in FormRow BY <3>1 DEF FormRow
    <3> QED BY <3>2, NoFormIsNoRow
  <2> HIDE DEF row
  <2>3. form'[f] = row /\ \A g \in FormId \ {f} : form'[g] = form[g]
    BY <2>1 DEF FormsInv, FormsTypeOK
  <2>4. \A a \in FormAssignmentId : Sent(a) => assigned[a].form \in FormId \ {f}
    BY <2>1 DEF FormsInv, FormsTypeOK, Sent, FormAssignmentRow
  <2>5. FormsTypeOK'
    <3>1. form' \in [FormId -> FormRow \cup {NoForm}] BY <2>1, <2>2 DEF FormsInv, FormsTypeOK
    <3>2. \A a \in FormAssignmentId : assigned[a] # NoForm => form'[assigned[a].form] # NoForm
      BY <2>3, <2>4 DEF FormsInv, FormsTypeOK, Sent
    <3> QED BY <2>1, <3>1, <3>2 DEF FormsInv, FormsTypeOK
  <2>6. \A g \in FormId : form'[g] # NoForm /\ form'[g].several => form'[g].everSeveral
    BY <2>2, <2>3 DEF FormsInv, FormsFit
  <2>7. \A r \in ResponseId : response[r] # NoForm =>
          response[r].assignment \in FormAssignmentId /\ Sent(response[r].assignment)
    BY DEF FormsInv, FormsTypeOK, ResponseRow, Sent
  <2>8. \A r \in ResponseId : AnswersItsForm(r)'
    BY <2>1, <2>3, <2>4, <2>7 DEF FormsInv, FormsFit, AnswersItsForm
  <2>9. \A a, b \in FormAssignmentId : OneOfTarget(a, b)'
    BY <2>1 DEF FormsInv, FormsFit, OneOfTarget, Sent
  <2>10. ASSUME NEW a \in FormAssignmentId PROVE Responded(a)'
    <3>1. Responded(a) BY DEF FormsInv, FormsFit
    <3>2. ResponsesTo(a)' = ResponsesTo(a) /\ (Sent(a)' <=> Sent(a)) /\ assigned' = assigned
      BY <2>1 DEF ResponsesTo, Sent
    <3> QED BY <2>3, <2>4, <3>1, <3>2 DEF Responded
  <2> QED BY <2>5, <2>6, <2>8, <2>9, <2>10 DEF FormsFit
<1>4. ASSUME ArchiveForm(f) PROVE FormsTypeOK' /\ FormsFit'
  <2> DEFINE row == [form[f] EXCEPT !.status = "ARCHIVED"]
  <2>1. /\ form[f] # NoForm /\ form' = [form EXCEPT ![f].status = "ARCHIVED"]
        /\ UNCHANGED <<assigned, response>>
    BY <1>4 DEF ArchiveForm
  <2>2. form[f] \in FormRow BY <2>1 DEF FormsInv, FormsTypeOK
  <2>3. /\ row \in FormRow /\ row.several = form[f].several /\ row.everSeveral = form[f].everSeveral
        /\ row.edition = form[f].edition
    BY <2>2 DEF FormRow, FormStatus
  <2>4. form' = [form EXCEPT ![f] = row] BY <2>1
  <2>5. row.several => row.everSeveral BY <2>1, <2>3 DEF FormsInv, FormsFit
  <2>6. form[f].everSeveral => row.everSeveral BY <2>3
  <2>7. row.edition = form[f].edition \/ \A a \in AssignmentsOf(f) : ResponsesTo(a) = {} BY <2>3
  <2> HIDE DEF row
  <2> QED BY <2>1, <2>3, <2>4, <2>5, <2>6, <2>7, FormWritten
<1>5. FormsTypeOK' /\ FormsFit' BY <1>3, <1>4
<1> QED BY <1>1, <1>2, <1>5, IdleStep

\* What the handlers read, they may stand on.
LEMMA FormsReadStep ==
  ASSUME FormsInv, FormsTakeTurns, FormsTurn, NEW h \in FormHandler,
         \/ \E f \in FormId :
              \/ \E patch \in Patches, questions \in {"keep", "none", "new"} :
                   UpdateForm(h, f, patch, questions)
              \/ PublishForm(h, f)
              \/ \E target \in FormTarget : AssignForm(h, f, target)
         \/ \E a \in FormAssignmentId, r \in ResponseId : SubmitMyResponse(h, a, r)
  PROVE  FormsInv'
<1>1. ASSUME NEW f \in FormId, NEW patch \in Patches, NEW questions \in {"keep", "none", "new"},
             UpdateForm(h, f, patch, questions)
      PROVE  FormsInv'
  <2> DEFINE job == [op |-> "update", form |-> f, patch |-> patch, questions |-> questions]
  <2>1. /\ form[f] # NoForm
        /\ questions # "keep" => \A a \in AssignmentsOf(f) : ResponsesTo(a) = {}
        /\ Takes(h, job)
    BY <1>1 DEF UpdateForm
  <2>2. job \in FormJob BY DEF FormJob
  <2>3. FormJobStands(job) BY <2>1 DEF FormJobStands
  <2> HIDE DEF job
  <2> QED BY <2>1, <2>2, <2>3, TakesStep
<1>2. ASSUME NEW f \in FormId, PublishForm(h, f) PROVE FormsInv'
  <2> DEFINE job == [op |-> "publish", form |-> f]
  <2>1. form[f] # NoForm /\ Takes(h, job) BY <1>2 DEF PublishForm
  <2>2. job \in FormJob BY DEF FormJob
  <2>3. FormJobStands(job) BY <2>1 DEF FormJobStands
  <2> HIDE DEF job
  <2> QED BY <2>1, <2>2, <2>3, TakesStep
<1>3. ASSUME NEW f \in FormId, NEW target \in FormTarget, AssignForm(h, f, target) PROVE FormsInv'
  <2> DEFINE found == {a \in AssignmentsOf(f) : assigned[a].target = target}
  <2>1. PICK a \in IF found = {} THEN {x \in FormAssignmentId : assigned[x] = NoForm} ELSE found :
          Takes(h, [op |-> "assign", id |-> a,
                    row |-> [form |-> f, target |-> target,
                             status |-> IF found = {} THEN "ASSIGNED" ELSE assigned[a].status]])
    BY <1>3 DEF AssignForm
  <2> DEFINE row == [form |-> f, target |-> target,
                     status |-> IF found = {} THEN "ASSIGNED" ELSE assigned[a].status]
             job == [op |-> "assign", id |-> a, row |-> row]
  <2>2. form[f] # NoForm BY <1>3 DEF AssignForm, Open
  <2>3. CASE found = {}
    <3>1. a \in FormAssignmentId /\ ~Sent(a) /\ row = [form |-> f, target |-> target, status |-> "ASSIGNED"]
      BY <2>1, <2>3 DEF Sent
    <3>2. row \in FormAssignmentRow BY <3>1 DEF FormAssignmentRow
    <3>3. \A b \in AssignmentsOf(f) : assigned[b].target # target BY <2>3
    <3> HIDE DEF row
    <3>4. job \in FormJob BY <3>1, <3>2 DEF FormJob
    <3>5. FormJobStands(job) BY <2>2, <3>1, <3>3 DEF FormJobStands
    <3>6. Takes(h, job) BY <2>1 DEF row
    <3> HIDE DEF job
    <3> QED BY <3>4, <3>5, <3>6, TakesStep
  <2>4. CASE found # {}
    <3>1. a \in found BY <2>1, <2>4
    <3>2. /\ a \in FormAssignmentId /\ Sent(a) /\ assigned[a].form = f /\ assigned[a].target = target
          /\ assigned[a] \in FormAssignmentRow
      BY <3>1 DEF AssignmentsOf, Sent, FormsInv, FormsTypeOK
    <3>3. row = assigned[a]
      <4>1. row = [form |-> f, target |-> target, status |-> assigned[a].status] BY <2>4
      <4> HIDE DEF row, found
      <4> QED BY <3>2, <4>1 DEF FormAssignmentRow
    <3>4. Takes(h, job) BY <2>1
    <3> HIDE DEF row
    <3>5. job \in FormJob BY <3>2, <3>3 DEF FormJob
    <3>6. FormJobStands(job) BY <2>2, <3>2, <3>3 DEF FormJobStands
    <3> HIDE DEF job
    <3> QED BY <3>4, <3>5, <3>6, TakesStep
  <2> QED BY <2>3, <2>4
<1>4. ASSUME NEW a \in FormAssignmentId, NEW r \in ResponseId, SubmitMyResponse(h, a, r) PROVE FormsInv'
  <2> DEFINE row == [assignment |-> a, edition |-> form[assigned[a].form].edition]
             job == [op |-> "submit", id |-> r, row |-> row]
  <2>1. /\ assigned[a] # NoForm /\ form[assigned[a].form] # NoForm /\ response[r] = NoForm
        /\ assigned[a].status = "SUBMITTED" => form[assigned[a].form].several
        /\ Takes(h, job)
    BY <1>4 DEF SubmitMyResponse, Open
  <2>2. form[assigned[a].form] \in FormRow
    BY <2>1 DEF FormsInv, FormsTypeOK, FormAssignmentRow
  <2>3. row \in ResponseRow BY <2>2 DEF ResponseRow, FormRow
  <2>4. row.assignment = a /\ row.edition = form[assigned[a].form].edition OBVIOUS
  <2> HIDE DEF row
  <2>5. job \in FormJob BY <2>3 DEF FormJob
  <2>6. FormJobStands(job) BY <2>1, <2>4 DEF FormJobStands, Sent
  <2> HIDE DEF job
  <2> QED BY <2>1, <2>5, <2>6, TakesStep
<1> QED BY <1>1, <1>2, <1>3, <1>4

LEMMA FormStopsStep ==
  ASSUME FormsInv, NEW h \in FormHandler, FormHandlerStops(h)
  PROVE  FormsInv'
<1>1. /\ formHandler[h] # NoJob /\ formHandler' = [formHandler EXCEPT ![h] = NoJob]
      /\ UNCHANGED <<form, assigned, response>>
  BY DEF FormHandlerStops
<1>2. \A g \in FormHandler : formHandler'[g] = NoJob
  BY <1>1 DEF FormsInv, OneFormHandler
<1>3. formHandler' \in [FormHandler -> FormJob] BY <1>1 DEF FormsInv, FormJob
<1>4. FormsTypeOK' BY <1>1 DEF FormsInv, FormsTypeOK
<1>5. FormsFit' BY <1>1 DEF FormsInv, FormsFit, AnswersItsForm, OneOfTarget, Responded, Sent, ResponsesTo
<1> QED BY <1>2, <1>3, <1>4, <1>5, IdleStep

LEMMA FormsStep ==
  ASSUME FormsTakeTurns, FormsInv, [FormsNext]_formVars
  PROVE  FormsInv'
<1>1. CASE UNCHANGED formVars
  <2>1. UNCHANGED <<form, assigned, response>> /\ formHandler' = formHandler BY <1>1 DEF formVars
  <2>2. FormsTypeOK' BY <2>1 DEF FormsInv, FormsTypeOK
  <2>3. FormsFit' BY <2>1 DEF FormsInv, FormsFit, AnswersItsForm, OneOfTarget, Responded, Sent, ResponsesTo
  <2>4. formHandler' \in [FormHandler -> FormJob] /\ OneFormHandler'
    BY <2>1 DEF FormsInv, OneFormHandler
  <2>5. \A h \in FormHandler : FormJobStands(formHandler[h])'
    BY <2>1 DEF FormsInv, FormJobStands, Sent, AssignmentsOf, ResponsesTo
  <2> QED BY <2>2, <2>3, <2>4, <2>5 DEF FormsInv
<1>2. ASSUME NEW f \in FormId, FormCloses(f) PROVE FormsInv'
  BY <1>2, FormClosesStep
<1>3. ASSUME FormsTurn, NEW f \in FormId,
             \/ \E status \in FormStatus, edition \in {0, 1}, several \in BOOLEAN :
                  CreateForm(f, status, edition, several)
             \/ ArchiveForm(f)
      PROVE  FormsInv'
  BY <1>3, OneStatementStep
<1>4. ASSUME FormsTurn, NEW h \in FormHandler,
             \/ \E f \in FormId :
                  \/ \E patch \in Patches, questions \in {"keep", "none", "new"} :
                       UpdateForm(h, f, patch, questions)
                  \/ PublishForm(h, f)
                  \/ \E target \in FormTarget : AssignForm(h, f, target)
             \/ \E a \in FormAssignmentId, r \in ResponseId : SubmitMyResponse(h, a, r)
      PROVE  FormsInv'
  BY <1>4, FormsReadStep
<1>5. ASSUME NEW h \in FormHandler,
             \/ CommitUpdate(h) \/ CommitPublish(h)
             \/ CommitAssign(h) \/ CommitSubmit(h) \/ FormHandlerStops(h)
      PROVE  FormsInv'
  BY <1>5, CommitUpdateStep, CommitPublishStep, CommitAssignStep, CommitSubmitStep, FormStopsStep
<1>6. CASE FormsNext BY <1>2, <1>3, <1>4, <1>5, <1>6 DEF FormsNext
<1> QED BY <1>1, <1>6

\* ResponsesFitForm, of updateForm, assignForm and submitMyResponse that take
\* turns: however often a form is written, published, archived and sent again,
\* the responses to it answer its questions, a target has one assignment of it
\* and what allows one response has one.
THEOREM ResponsesAlwaysFit == FormsSpec => []ResponsesFitForm
<1>1. CASE FormsTakeTurns
  <2>1. FormsInit => FormsInv
    <3> SUFFICES ASSUME FormsInit PROVE FormsInv OBVIOUS
    <3>1. \A h \in FormHandler : formHandler[h] = NoJob BY DEF FormsInit
    <3>2. formHandler \in [FormHandler -> FormJob] BY DEF FormsInit, FormJob
    <3>3. FormsTypeOK BY DEF FormsInit, FormsTypeOK
    <3>4. FormsFit BY DEF FormsInit, FormsFit, AnswersItsForm, OneOfTarget, Responded, Sent
    <3>5. OneFormHandler BY <3>1 DEF OneFormHandler
    <3>6. \A h \in FormHandler : FormJobStands(formHandler[h])
      BY <3>1 DEF FormJobStands, NoJob
    <3> QED BY <3>2, <3>3, <3>4, <3>5, <3>6 DEF FormsInv
  <2>2. FormsInv /\ [FormsNext]_formVars => FormsInv' BY <1>1, FormsStep
  <2>3. FormsInv => ResponsesFitForm
    <3> SUFFICES ASSUME FormsInv PROVE ResponsesFitForm OBVIOUS
    <3>1. \A r \in ResponseId : AnswersItsForm(r) BY DEF FormsInv, FormsFit
    <3>2. \A f \in FormId : \A a \in AssignmentsOf(f) :
            a \in FormAssignmentId /\ Sent(a) /\ assigned[a].form = f
      BY DEF AssignmentsOf, Sent
    <3>3. \A a, b \in FormAssignmentId : OneOfTarget(a, b) BY DEF FormsInv, FormsFit
    <3>4. \A a \in FormAssignmentId : Responded(a) BY DEF FormsInv, FormsFit
    <3>5. ASSUME NEW f \in FormId, NEW a \in AssignmentsOf(f)
          PROVE  /\ \A b \in AssignmentsOf(f) : assigned[a].target = assigned[b].target => a = b
                 /\ ~form[f].everSeveral => Cardinality(ResponsesTo(a)) <= 1
                 /\ (ResponsesTo(a) # {}) = (assigned[a].status = "SUBMITTED")
      <4>1. a \in FormAssignmentId /\ Sent(a) /\ assigned[a].form = f BY <3>2
      <4>2. Responded(a) BY <3>4, <4>1
      <4>3. \A b \in AssignmentsOf(f) : assigned[a].target = assigned[b].target => a = b
        BY <3>2, <3>3, <4>1 DEF OneOfTarget
      <4> QED BY <4>1, <4>2, <4>3 DEF Responded
    <3> QED BY <3>1, <3>5 DEF ResponsesFitForm, AnswersItsForm
  <2> QED BY <2>1, <2>2, <2>3, PTL DEF FormsSpec
<1>2. CASE ~FormsTakeTurns
  <2>1. ResponsesFitForm BY <1>2 DEF ResponsesFitForm
  <2> QED BY <2>1, PTL
<1> QED BY <1>1, <1>2

----------------------------------------------------------------------------
(* Lifecycle plans and offboarding cases *)

OfficerJob ==
  [op : {"template"}, plan : PlanId, tasks : SUBSET TaskId]
  \cup [op : {"newTask"}, plan : PlanId, task : TaskId, reopen : BOOLEAN]
  \cup [op : {"task"}, task : TaskId, status : TaskStatus]
  \cup [op : {"taskWritten"}, task : TaskId, status : TaskStatus,
        plan : {"KEEP", "COMPLETED", "ACTIVE"}]
  \cup [op : {"start"}, exit : ExitId, plan : PlanId \cup {NoPlan}, tasks : SUBSET TaskId,
        scopes : UNION {[I -> Scope \cup {"none"}] : I \in SUBSET ItemId}]
  \cup [op : {"finish"}, exit : ExitId, clearance : [Scope -> ClearanceStatus]]
  \cup [op : {"item"}, item : ItemId, isNew : BOOLEAN, row : ItemRow]
  \cup [op : {"itemWritten"}, item : ItemId, row : ItemRow,
        exit : [clearance : [Scope -> ClearanceStatus], status : {"KEEP", "READY_FOR_SEPARATION"}]]
  \cup {Waiting}

\* What a handler has read, and derived, is still so.
OfficerStands(job) ==
  /\ job.op = "newTask" =>
       /\ plan[job.plan] \notin {"NONE", "CANCELLED", "ARCHIVED"}
       /\ job.reopen = (plan[job.plan] = "COMPLETED")
  /\ job.op \in {"task", "taskWritten"} => task[job.task] # NoRow
  /\ job.op = "taskWritten" =>
       job.plan = RefreshedPlan(task[job.task].plan, [task EXCEPT ![job.task].status = job.status])
  /\ job.op = "start" => OpenCases = {} /\ DOMAIN job.scopes # {} /\ (job.plan = NoPlan => job.tasks = {})
  /\ job.op = "finish" =>
       /\ exit[job.exit] # NoRow /\ \A i \in ItemsOf(job.exit, item) : item[i].status \in ItemDone
       /\ job.clearance = Clearance(job.exit, item)
  /\ job.op \in {"item", "itemWritten"} => exit[job.row.exit] # NoRow
  /\ job.op = "item" => job.isNew \/ item[job.item].exit = job.row.exit
  /\ job.op = "itemWritten" =>
       /\ item[job.item] # NoRow => item[job.item].exit = job.row.exit
       /\ job.exit = RefreshedExit(job.row.exit, [item EXCEPT ![job.item] = job.row])

OneOfficer == \A g, h \in Officer : officer[g] # Waiting /\ officer[h] # Waiting => g = h

PlanAgrees(p) ==
  p \notin edited /\ TasksOf(p, task) # {} /\ plan[p] \notin {"CANCELLED", "ARCHIVED"} =>
    (plan[p] = "COMPLETED" <=> \A t \in TasksOf(p, task) : task[t].status \in TaskDone)

CaseAgrees(c) ==
  c \notin edited /\ exit[c] # NoRow =>
    /\ exit[c].clearance = Clearance(c, item)
    /\ exit[c].status = "ACTIVE" => ~AllClear(c, item)

StatusesAgree ==
  /\ \A p \in PlanId : PlanAgrees(p)
  /\ \A c \in ExitId : CaseAgrees(c)
  /\ \A c, d \in OpenCases \ handled : c = d

LifecycleInv ==
  /\ LifecycleTypeOK /\ officer \in [Officer -> OfficerJob]
  /\ OneOfficer /\ StatusesAgree
  /\ \A h \in Officer, job \in OfficerJob : officer[h] = job => OfficerStands(job)

----------------------------------------------------------------------------

LEMMA AggregateIsStatus ==
  ASSUME NEW S \in SUBSET ClearanceStatus
  PROVE  Aggregate(S) \in ClearanceStatus
<1>1. CASE S = {} BY <1>1 DEF Aggregate, ClearanceStatus
<1>2. CASE "BLOCKED" \in S BY <1>2 DEF Aggregate, ClearanceStatus, ItemDone
<1>3. CASE "BLOCKED" \notin S /\ "IN_PROGRESS" \in S BY <1>3 DEF Aggregate, ClearanceStatus, ItemDone
<1>4. CASE S # {} /\ S \cap {"BLOCKED", "IN_PROGRESS"} = {} /\ "OPEN" \in S
  BY <1>4 DEF Aggregate, ClearanceStatus, ItemDone
<1>5. CASE S = {"CLEARED"} BY <1>5 DEF Aggregate, ClearanceStatus, ItemDone
<1>6. CASE S \subseteq ItemDone /\ S \notin {{}, {"CLEARED"}}
  BY <1>6 DEF Aggregate, ClearanceStatus, ItemDone
<1>7. S # {} /\ S \cap {"BLOCKED", "IN_PROGRESS"} = {} /\ "OPEN" \notin S => S \subseteq ItemDone
  BY DEF ClearanceStatus, ItemDone
<1> QED BY <1>1, <1>2, <1>3, <1>4, <1>5, <1>6, <1>7

LEMMA OpenAggregate ==
  ASSUME NEW S, S \subseteq {"OPEN"}
  PROVE  Aggregate(S) = "OPEN"
<1>1. CASE S = {} BY <1>1 DEF Aggregate
<1>2. CASE S = {"OPEN"}
  <2>1. /\ S # {} /\ "BLOCKED" \notin S /\ "IN_PROGRESS" \notin S /\ S # {"CLEARED"}
        /\ ~(S \subseteq ItemDone) /\ "OPEN" \in S /\ S \cap {"BLOCKED", "IN_PROGRESS"} = {}
    BY <1>2 DEF ItemDone
  <2> QED BY <2>1 DEF Aggregate
<1> QED BY <1>1, <1>2

LEMMA ClearanceIsTyped ==
  ASSUME NEW c, NEW rows \in [ItemId -> ItemRow \cup {NoRow}]
  PROVE  Clearance(c, rows) \in [Scope -> ClearanceStatus]
<1>1. ASSUME NEW s \in Scope
      PROVE  {rows[i].status : i \in {j \in ItemsOf(c, rows) : rows[j].scope = s}} \in SUBSET ClearanceStatus
  BY DEF ItemsOf, ItemRow
<1> QED BY <1>1, AggregateIsStatus DEF Clearance

\* A case shows what its own items make of it.
LEMMA CaseSeesItsItems ==
  ASSUME NEW c, NEW rows, NEW rows2, \A i \in ItemsOf(c, rows) : rows2[i] = rows[i],
         ItemsOf(c, rows2) = ItemsOf(c, rows)
  PROVE  Clearance(c, rows2) = Clearance(c, rows) /\ (AllClear(c, rows2) <=> AllClear(c, rows))
<1>1. ASSUME NEW s \in Scope
      PROVE  {rows2[i].status : i \in {j \in ItemsOf(c, rows2) : rows2[j].scope = s}}
               = {rows[i].status : i \in {j \in ItemsOf(c, rows) : rows[j].scope = s}}
  OBVIOUS
<1>2. Clearance(c, rows2) = Clearance(c, rows) BY <1>1 DEF Clearance
<1>3. AllClear(c, rows2) <=> AllClear(c, rows) BY DEF AllClear
<1> QED BY <1>2, <1>3

LEMMA NothingWritten ==
  ASSUME StatusesAgree, UNCHANGED <<plan, task, exit, item, edited, handled>>
  PROVE  StatusesAgree'
<1>1. OpenCases' = OpenCases BY DEF OpenCases
<1>2. ASSUME NEW p \in PlanId PROVE PlanAgrees(p)' BY DEF StatusesAgree, PlanAgrees
<1>3. ASSUME NEW c \in ExitId PROVE CaseAgrees(c)' BY DEF StatusesAgree, CaseAgrees
<1> QED BY <1>1, <1>2, <1>3 DEF StatusesAgree

\* A handler that is alone reads or writes, and others do not see it.
LEMMA OfficerMoves ==
  ASSUME LifecycleInv, NEW h \in Officer, NEW job \in OfficerJob, OfficerStands(job),
         \A g \in Officer \ {h} : officer[g] = Waiting,
         officer' = [officer EXCEPT ![h] = job],
         UNCHANGED <<plan, task, exit, item, edited, handled>>
  PROVE  LifecycleInv'
<1>2. LifecycleTypeOK' BY DEF LifecycleInv, LifecycleTypeOK
<1>3. officer' \in [Officer -> OfficerJob] BY DEF LifecycleInv
<1>4. OneOfficer' BY DEF LifecycleInv, OneOfficer
<1>5. StatusesAgree' BY NothingWritten DEF LifecycleInv
<1>6. OfficerStands(job)'
  <2>1. OpenCases' = OpenCases BY DEF OpenCases
  <2>2. ASSUME NEW p, NEW rows
        PROVE  /\ RefreshedPlan(p, rows)' = RefreshedPlan(p, rows)
               /\ RefreshedExit(p, rows)' = RefreshedExit(p, rows)
    BY DEF RefreshedPlan, RefreshedExit
  <2> QED BY <2>1, <2>2 DEF OfficerStands
<1>7. \A g \in Officer, j \in OfficerJob : officer'[g] = j => OfficerStands(j)'
  <2>1. \A g \in Officer : officer'[g] = IF g = h THEN job ELSE Waiting BY DEF LifecycleInv
  <2>2. OfficerStands(Waiting)' BY DEF OfficerStands, Waiting
  <2> QED BY <1>6, <2>1, <2>2
<1> QED BY <1>2, <1>3, <1>4, <1>5, <1>7 DEF LifecycleInv

LEMMA TakesOnStep ==
  ASSUME LifecycleInv, OfficersTakeTurns, OfficerTurn, NEW h \in Officer, NEW job \in OfficerJob,
         TakesOn(h, job), OfficerStands(job)
  PROVE  LifecycleInv'
<1>1. /\ officer' = [officer EXCEPT ![h] = job]
      /\ UNCHANGED <<plan, task, exit, item, edited, handled>>
      /\ \A g \in Officer \ {h} : officer[g] = Waiting
  BY DEF TakesOn, OfficerTurn
<1> QED BY <1>1, OfficerMoves

LEMMA AllWait ==
  ASSUME LifecycleInv, LifecycleTypeOK', StatusesAgree', \A h \in Officer : officer'[h] = Waiting,
         officer' \in [Officer -> OfficerJob]
  PROVE  LifecycleInv'
<1>1. OneOfficer' BY DEF OneOfficer
<1>2. OfficerStands(Waiting)' BY DEF OfficerStands, Waiting
<1> QED BY <1>1, <1>2 DEF LifecycleInv

LEMMA LastOfficerDone ==
  ASSUME LifecycleInv, NEW h \in Officer, officer[h] # Waiting, Done(h)
  PROVE  /\ officer[h] \in OfficerJob /\ OfficerStands(officer[h])
         /\ \A g \in Officer : officer'[g] = Waiting
         /\ officer' \in [Officer -> OfficerJob]
<1>1. officer' = [officer EXCEPT ![h] = Waiting] BY DEF Done
<1>2. \A g \in Officer : officer'[g] = Waiting BY <1>1 DEF LifecycleInv, OneOfficer
<1>3. officer' \in [Officer -> OfficerJob] BY <1>1 DEF LifecycleInv, OfficerJob
<1> QED BY <1>2, <1>3 DEF LifecycleInv

\* What happens to the tasks of one plan, when all others are left as they are.
LEMMA PlanWritten ==
  ASSUME LifecycleInv, NEW p, p \in PlanId => PlanAgrees(p)',
         \A q \in PlanId \ {p} : plan'[q] = plan[q] /\ (q \in edited => q \in edited'),
         \A t \in TaskId : task'[t] # task[t] =>
           /\ task[t] # NoRow => task[t].plan = p
           /\ task'[t] # NoRow /\ task'[t].plan = p
  PROVE  \A q \in PlanId : PlanAgrees(q)'
<1> SUFFICES ASSUME NEW q \in PlanId \ {p} PROVE PlanAgrees(q)'
  OBVIOUS
<1>1. PlanAgrees(q) BY DEF LifecycleInv, StatusesAgree
<1>2. TasksOf(q, task)' = TasksOf(q, task) BY DEF TasksOf
<1>3. \A t \in TasksOf(q, task) : task'[t] = task[t] BY DEF TasksOf
<1> QED BY <1>1, <1>2, <1>3 DEF PlanAgrees

\* The same for the items of one case.
LEMMA CaseWritten ==
  ASSUME LifecycleInv, NEW c \in ExitId, CaseAgrees(c)',
         \A d \in ExitId \ {c} : exit'[d] = exit[d] /\ (d \in edited => d \in edited'),
         \A i \in ItemId : item'[i] # item[i] =>
           /\ item[i] # NoRow => item[i].exit = c
           /\ item'[i] # NoRow /\ item'[i].exit = c
  PROVE  \A d \in ExitId : CaseAgrees(d)'
<1> SUFFICES ASSUME NEW d \in ExitId \ {c} PROVE CaseAgrees(d)'
  OBVIOUS
<1>1. CaseAgrees(d) BY DEF LifecycleInv, StatusesAgree
<1>2. ItemsOf(d, item') = ItemsOf(d, item) BY DEF ItemsOf
<1>3. \A i \in ItemsOf(d, item) : item'[i] = item[i] BY DEF ItemsOf
<1>4. Clearance(d, item') = Clearance(d, item) /\ (AllClear(d, item') <=> AllClear(d, item))
  BY <1>2, <1>3, CaseSeesItsItems
<1> QED BY <1>1, <1>4 DEF CaseAgrees

\* Plans without cases.
LEMMA CasesLeftAlone ==
  ASSUME LifecycleInv, UNCHANGED <<exit, item, handled>>,
         \A c \in ExitId : c \in edited => c \in edited',
         \A p \in PlanId : PlanAgrees(p)'
  PROVE  StatusesAgree'
<1>1. OpenCases' = OpenCases BY DEF OpenCases
<1>2. ASSUME NEW c \in ExitId PROVE CaseAgrees(c)'
  <2>1. CaseAgrees(c) BY DEF LifecycleInv, StatusesAgree
  <2> QED BY <2>1 DEF CaseAgrees
<1> QED BY <1>1, <1>2 DEF StatusesAgree, LifecycleInv

LEMMA PlansLeftAlone ==
  ASSUME LifecycleInv, UNCHANGED <<plan, task>>,
         \A p \in PlanId : p \in edited => p \in edited'
  PROVE  \A p \in PlanId : PlanAgrees(p)'
<1> SUFFICES ASSUME NEW p \in PlanId PROVE PlanAgrees(p)' OBVIOUS
<1>1. PlanAgrees(p) BY DEF LifecycleInv, StatusesAgree
<1> QED BY <1>1 DEF PlanAgrees

\* New tasks are open.
LEMMA NewTasksFacts ==
  ASSUME LifecycleInv, NEW T \in SUBSET TaskId, NEW p, p \in PlanId \/ T = {},
         \A t \in T : task[t] = NoRow, task' = NewTasks(T, p)
  PROVE  /\ task' \in [TaskId -> TaskRow \cup {NoRow}]
         /\ \A t \in T : task'[t] # NoRow /\ task'[t].plan = p /\ task'[t].status \notin TaskDone
         /\ \A t \in TaskId \ T : task'[t] = task[t]
         /\ \A t \in TaskId : task'[t] # task[t] =>
              /\ task[t] # NoRow => task[t].plan = p
              /\ task'[t] # NoRow /\ task'[t].plan = p
<1> DEFINE row == [plan |-> p, status |-> "OPEN"]
<1>1. T # {} => row \in TaskRow /\ row # NoRow BY NoRowIsNoRow DEF TaskRow, TaskStatus
<1>2. row.plan = p /\ row.status \notin TaskDone BY DEF TaskDone
<1>3. task' = [t \in TaskId |-> IF t \in T THEN row ELSE task[t]] BY DEF NewTasks
<1> HIDE DEF row
<1>4. task' \in [TaskId -> TaskRow \cup {NoRow}] BY <1>1, <1>3 DEF LifecycleInv, LifecycleTypeOK
<1>5. \A t \in T : task'[t] = row BY <1>3
<1>6. \A t \in TaskId \ T : task'[t] = task[t] BY <1>3
<1>7. \A t \in T : task'[t] # NoRow /\ task'[t].plan = p /\ task'[t].status \notin TaskDone
  BY <1>1, <1>2, <1>5
<1> QED BY <1>4, <1>6, <1>7

LEMMA CommitTaskStep ==
  ASSUME LifecycleInv, NEW h \in Officer, CommitTask(h)
  PROVE  LifecycleInv'
<1> DEFINE t == officer[h].task
           row == [task[t] EXCEPT !.status = officer[h].status]
<1>1. officer[h].op = "taskWritten" /\ Done(h) BY DEF CommitTask, Doing
<1>2. /\ officer[h] \in OfficerJob /\ OfficerStands(officer[h])
      /\ \A g \in Officer : officer'[g] = Waiting
      /\ officer' \in [Officer -> OfficerJob]
  <2>1. officer[h] # Waiting BY <1>1 DEF Waiting
  <2> QED BY <1>1, <2>1, LastOfficerDone
<1>3. /\ t \in TaskId /\ officer[h].status \in TaskStatus
      /\ officer[h].plan \in {"KEEP", "COMPLETED", "ACTIVE"} /\ task[t] # NoRow
      /\ officer[h].plan = RefreshedPlan(task[t].plan, [task EXCEPT ![t].status = officer[h].status])
  BY <1>1, <1>2 DEF OfficerJob, Waiting, OfficerStands
<1>a. task[t] \in TaskRow BY <1>3 DEF LifecycleInv, LifecycleTypeOK
<1>b. PICK p \in PlanId : p = task[t].plan BY <1>a DEF TaskRow
<1> DEFINE now == Kept(officer[h].plan, plan[p])
<1>4. /\ task' = [task EXCEPT ![t].status = officer[h].status]
      /\ plan' = [plan EXCEPT ![p] = now]
      /\ edited' = edited \ {p} /\ UNCHANGED <<exit, item, handled>>
      /\ plan[p] \in PlanStatus
  BY <1>3, <1>b DEF CommitTask, LifecycleInv, LifecycleTypeOK
<1>5. row \in TaskRow /\ row.plan = p /\ row # NoRow BY <1>3, <1>a, <1>b, NoRowIsNoRow DEF TaskRow
<1>6. task' = [task EXCEPT ![t] = row] BY <1>4
<1>7. officer[h].plan = RefreshedPlan(p, task') BY <1>3, <1>4, <1>b
<1>8. now \in PlanStatus BY <1>3, <1>4 DEF Kept, PlanStatus
<1> HIDE DEF row
<1>9. /\ task'[t] = row /\ \A u \in TaskId \ {t} : task'[u] = task[u]
      /\ task' \in [TaskId -> TaskRow \cup {NoRow}]
  BY <1>3, <1>5, <1>6 DEF LifecycleInv, LifecycleTypeOK
<1>10. t \in TasksOf(p, task') BY <1>3, <1>5, <1>9 DEF TasksOf
<1>11. plan'[p] = now /\ \A q \in PlanId \ {p} : plan'[q] = plan[q]
  BY <1>4 DEF LifecycleInv, LifecycleTypeOK
<1>12. plan' \in [PlanId -> PlanStatus \cup {"NONE"}] BY <1>4, <1>8 DEF LifecycleInv, LifecycleTypeOK
<1>13. LifecycleTypeOK'
  <2>1. \A u \in TaskId : task'[u] # NoRow => plan'[task'[u].plan] # "NONE"
    <3>1. \A q \in PlanId : plan[q] # "NONE" => plan'[q] # "NONE" BY <1>8, <1>11 DEF PlanStatus
    <3>2. plan[p] # "NONE" BY <1>4 DEF PlanStatus
    <3>3. \A u \in TaskId : task[u] # NoRow => task[u].plan \in PlanId /\ plan[task[u].plan] # "NONE"
      BY DEF LifecycleInv, LifecycleTypeOK, TaskRow
    <3> QED BY <1>4, <1>5, <1>9, <3>1, <3>2, <3>3
  <2> QED BY <1>4, <1>9, <1>12, <2>1 DEF LifecycleInv, LifecycleTypeOK
<1>14. PlanAgrees(p)'
  <2> DEFINE done == \A u \in TasksOf(p, task') : task'[u].status \in TaskDone
  <2>1. RefreshedPlan(p, task') =
          IF \/ TasksOf(p, task') = {} \/ plan[p] \in {"CANCELLED", "ARCHIVED"}
             \/ done = (plan[p] = "COMPLETED")
          THEN "KEEP" ELSE IF done THEN "COMPLETED" ELSE "ACTIVE"
    BY DEF RefreshedPlan
  <2> HIDE DEF done
  <2>2. done \in BOOLEAN BY DEF done
  <2>3. now \notin {"CANCELLED", "ARCHIVED"} => (now = "COMPLETED" <=> done)
    BY <1>7, <1>10, <2>1, <2>2 DEF Kept
  <2> QED BY <1>11, <2>3 DEF PlanAgrees, done
<1>15. \A q \in PlanId : PlanAgrees(q)'
  <2>1. \A u \in TaskId : task'[u] # task[u] =>
          /\ task[u] # NoRow => task[u].plan = p
          /\ task'[u] # NoRow /\ task'[u].plan = p
    BY <1>5, <1>9, <1>b
  <2>2. \A q \in PlanId \ {p} : plan'[q] = plan[q] /\ (q \in edited => q \in edited')
    BY <1>4, <1>11
  <2> QED BY <1>14, <2>1, <2>2, PlanWritten
<1>16. \A c \in ExitId : c \in edited => c \in edited' BY <1>4, PlansAreNoCases
<1>17. StatusesAgree' BY <1>4, <1>15, <1>16, CasesLeftAlone
<1> QED BY <1>2, <1>13, <1>17, AllWait

LEMMA CommitNewTaskStep ==
  ASSUME LifecycleInv, NEW h \in Officer, CommitNewTask(h)
  PROVE  LifecycleInv'
<1> DEFINE t == officer[h].task
<1>1. officer[h].op = "newTask" /\ Done(h) /\ task[t] = NoRow BY DEF CommitNewTask, Doing
<1>2. /\ officer[h] \in OfficerJob /\ OfficerStands(officer[h])
      /\ \A g \in Officer : officer'[g] = Waiting
      /\ officer' \in [Officer -> OfficerJob]
  <2>1. officer[h] # Waiting BY <1>1 DEF Waiting
  <2> QED BY <1>1, <2>1, LastOfficerDone
<1>3. /\ t \in TaskId /\ officer[h].plan \in PlanId
      /\ plan[officer[h].plan] \notin {"NONE", "CANCELLED", "ARCHIVED"}
      /\ officer[h].reopen = (plan[officer[h].plan] = "COMPLETED")
  BY <1>1, <1>2 DEF OfficerJob, Waiting, OfficerStands
<1>4. PICK p \in PlanId : p = officer[h].plan BY <1>3
<1>5. /\ task' = NewTasks({t}, p)
      /\ plan' = IF officer[h].reopen THEN [plan EXCEPT ![p] = "ACTIVE"] ELSE plan
      /\ edited' = edited \ {p} /\ UNCHANGED <<exit, item, handled>>
  BY <1>4 DEF CommitNewTask
<1>6. /\ task' \in [TaskId -> TaskRow \cup {NoRow}]
      /\ task'[t] # NoRow /\ task'[t].plan = p /\ task'[t].status \notin TaskDone
      /\ \A u \in TaskId \ {t} : task'[u] = task[u]
      /\ \A u \in TaskId : task'[u] # task[u] =>
           /\ task[u] # NoRow => task[u].plan = p
           /\ task'[u] # NoRow /\ task'[u].plan = p
  <2> DEFINE T == {t}
  <2>1. T \in SUBSET TaskId /\ (\A u \in T : task[u] = NoRow) /\ task' = NewTasks(T, p)
    BY <1>1, <1>3, <1>5
  <2>2. t \in T /\ TaskId \ T = TaskId \ {t} OBVIOUS
  <2> HIDE DEF T
  <2> QED BY <2>1, <2>2, NewTasksFacts
<1>7. /\ plan' \in [PlanId -> PlanStatus \cup {"NONE"}]
      /\ plan'[p] \notin {"NONE", "COMPLETED"}
      /\ \A q \in PlanId \ {p} : plan'[q] = plan[q]
  BY <1>3, <1>4, <1>5 DEF LifecycleInv, LifecycleTypeOK, PlanStatus
<1>8. LifecycleTypeOK'
  <2>1. \A u \in TaskId : task'[u] # NoRow => plan'[task'[u].plan] # "NONE"
    <3>1. \A u \in TaskId : task[u] # NoRow => task[u].plan \in PlanId /\ plan[task[u].plan] # "NONE"
      BY DEF LifecycleInv, LifecycleTypeOK, TaskRow
    <3> QED BY <1>6, <1>7, <3>1
  <2> QED BY <1>5, <1>6, <1>7, <2>1 DEF LifecycleInv, LifecycleTypeOK
<1>9. PlanAgrees(p)'
  <2>1. t \in TasksOf(p, task') BY <1>3, <1>6 DEF TasksOf
  <2> QED BY <1>6, <1>7, <2>1 DEF PlanAgrees
<1>10. \A q \in PlanId \ {p} : plan'[q] = plan[q] /\ (q \in edited => q \in edited')
  BY <1>5, <1>7
<1>11. \A q \in PlanId : PlanAgrees(q)' BY <1>6, <1>9, <1>10, PlanWritten
<1>12. \A c \in ExitId : c \in edited => c \in edited' BY <1>5, PlansAreNoCases
<1>13. StatusesAgree' BY <1>5, <1>11, <1>12, CasesLeftAlone
<1> QED BY <1>2, <1>8, <1>13, AllWait

\* A plan that is new, with open tasks or none.
LEMMA PlanStarted ==
  ASSUME LifecycleInv, NEW p, NEW T \in SUBSET TaskId,
         p \in PlanId => plan[p] = "NONE", p \in PlanId \/ T = {}, \A t \in T : task[t] = NoRow,
         task' = NewTasks(T, p), plan' = [q \in PlanId |-> IF q = p THEN "ACTIVE" ELSE plan[q]],
         edited' = edited
  PROVE  /\ \A q \in PlanId : PlanAgrees(q)'
         /\ plan' \in [PlanId -> PlanStatus \cup {"NONE"}]
         /\ task' \in [TaskId -> TaskRow \cup {NoRow}]
         /\ \A t \in TaskId : task'[t] # NoRow => plan'[task'[t].plan] # "NONE"
<1>1. /\ task' \in [TaskId -> TaskRow \cup {NoRow}]
      /\ \A t \in T : task'[t] # NoRow /\ task'[t].plan = p /\ task'[t].status \notin TaskDone
      /\ \A t \in TaskId \ T : task'[t] = task[t]
      /\ \A t \in TaskId : task'[t] # task[t] =>
           /\ task[t] # NoRow => task[t].plan = p
           /\ task'[t] # NoRow /\ task'[t].plan = p
  BY NewTasksFacts
<1>2. plan' \in [PlanId -> PlanStatus \cup {"NONE"}]
  BY DEF LifecycleInv, LifecycleTypeOK, PlanStatus
<1>3. \A t \in TaskId : task[t] # NoRow => task[t].plan \in PlanId /\ plan[task[t].plan] # "NONE"
  BY DEF LifecycleInv, LifecycleTypeOK, TaskRow
<1>4. \A t \in TaskId : task'[t] # NoRow => plan'[task'[t].plan] # "NONE"
  BY <1>1, <1>3
<1>5. p \in PlanId => PlanAgrees(p)'
  <2> SUFFICES ASSUME p \in PlanId PROVE PlanAgrees(p)' OBVIOUS
  <2>1. \A t \in TasksOf(p, task') : t \in T BY <1>1, <1>3 DEF TasksOf
  <2>2. \A t \in TasksOf(p, task') : task'[t].status \notin TaskDone BY <1>1, <2>1
  <2>3. plan'[p] = "ACTIVE" OBVIOUS
  <2> QED BY <2>2, <2>3 DEF PlanAgrees
<1>6. \A q \in PlanId \ {p} : plan'[q] = plan[q] /\ (q \in edited => q \in edited') OBVIOUS
<1>7. \A q \in PlanId : PlanAgrees(q)' BY <1>1, <1>5, <1>6, PlanWritten
<1> QED BY <1>1, <1>2, <1>4, <1>7

LEMMA CommitTemplateStep ==
  ASSUME LifecycleInv, NEW h \in Officer, CommitTemplate(h)
  PROVE  LifecycleInv'
<1>1. officer[h].op = "template" /\ Done(h) BY DEF CommitTemplate, Doing
<1>2. /\ officer[h] \in OfficerJob
      /\ \A g \in Officer : officer'[g] = Waiting
      /\ officer' \in [Officer -> OfficerJob]
  <2>1. officer[h] # Waiting BY <1>1 DEF Waiting
  <2> QED BY <1>1, <2>1, LastOfficerDone
<1>3. officer[h].tasks \in SUBSET TaskId /\ officer[h].plan \in PlanId
  BY <1>1, <1>2 DEF OfficerJob, Waiting
<1>4. PICK p \in PlanId : p = officer[h].plan BY <1>3
<1>5. PICK T \in SUBSET TaskId : T = officer[h].tasks BY <1>3
<1>6. /\ plan[p] = "NONE" /\ (\A t \in T : task[t] = NoRow)
      /\ task' = NewTasks(T, p) /\ plan' = [plan EXCEPT ![p] = "ACTIVE"]
      /\ UNCHANGED <<exit, item, edited, handled>>
  BY <1>4, <1>5 DEF CommitTemplate
<1>7. plan' = [q \in PlanId |-> IF q = p THEN "ACTIVE" ELSE plan[q]]
  BY <1>6 DEF LifecycleInv, LifecycleTypeOK
<1>8. /\ \A q \in PlanId : PlanAgrees(q)'
      /\ plan' \in [PlanId -> PlanStatus \cup {"NONE"}]
      /\ task' \in [TaskId -> TaskRow \cup {NoRow}]
      /\ \A t \in TaskId : task'[t] # NoRow => plan'[task'[t].plan] # "NONE"
  <2>1. (p \in PlanId => plan[p] = "NONE") /\ (p \in PlanId \/ T = {}) BY <1>6
  <2>2. (\A t \in T : task[t] = NoRow) /\ task' = NewTasks(T, p) /\ edited' = edited BY <1>6
  <2> QED BY <1>7, <2>1, <2>2, PlanStarted
<1>9. LifecycleTypeOK' BY <1>6, <1>8 DEF LifecycleInv, LifecycleTypeOK
<1>10. StatusesAgree' BY <1>6, <1>8, CasesLeftAlone
<1> QED BY <1>2, <1>9, <1>10, AllWait

\* A case is new, with open items.
LEMMA CommitStartStep ==
  ASSUME LifecycleInv, NEW h \in Officer, CommitStart(h)
  PROVE  LifecycleInv'
<1>1. officer[h].op = "start" /\ Done(h) BY DEF CommitStart, Doing
<1>2. /\ officer[h] \in OfficerJob /\ OfficerStands(officer[h])
      /\ \A g \in Officer : officer'[g] = Waiting
      /\ officer' \in [Officer -> OfficerJob]
  <2>1. officer[h] # Waiting BY <1>1 DEF Waiting
  <2> QED BY <1>1, <2>1, LastOfficerDone
<1>3. /\ officer[h].tasks \in SUBSET TaskId /\ officer[h].plan \in PlanId \cup {NoPlan}
      /\ officer[h].exit \in ExitId
      /\ \E I \in SUBSET ItemId : officer[h].scopes \in [I -> Scope \cup {"none"}]
      /\ OpenCases = {} /\ DOMAIN officer[h].scopes # {}
      /\ officer[h].plan = NoPlan => officer[h].tasks = {}
  BY <1>1, <1>2 DEF OfficerJob, Waiting, OfficerStands
<1>4. PICK p \in PlanId \cup {NoPlan} : p = officer[h].plan BY <1>3
<1>5. PICK T \in SUBSET TaskId : T = officer[h].tasks BY <1>3
<1>6. PICK c \in ExitId : c = officer[h].exit BY <1>3
<1>7. PICK I \in SUBSET ItemId : officer[h].scopes \in [I -> Scope \cup {"none"}] BY <1>3
<1>8. PICK scopes \in [I -> Scope \cup {"none"}] : scopes = officer[h].scopes BY <1>7
<1>9. DOMAIN scopes = I /\ I # {} BY <1>3, <1>8
<1> DEFINE opened == [status |-> "ACTIVE", clearance |-> [s \in Scope |-> "OPEN"], plan |-> p]
           fresh(i) == [exit |-> c, scope |-> scopes[i], status |-> "OPEN"]
<1>10. /\ exit[c] = NoRow /\ (\A i \in I : item[i] = NoRow)
       /\ p # NoPlan => plan[p] = "NONE" /\ \A t \in T : task[t] = NoRow
       /\ exit' = [exit EXCEPT ![c] = opened]
       /\ item' = [i \in ItemId |-> IF i \in I THEN fresh(i) ELSE item[i]]
       /\ plan' = [q \in PlanId |-> IF q = p THEN "ACTIVE" ELSE plan[q]]
       /\ task' = NewTasks(T, p)
       /\ UNCHANGED <<edited, handled>>
  BY <1>4, <1>5, <1>6, <1>8, <1>9 DEF CommitStart
<1>11. /\ \A q \in PlanId : PlanAgrees(q)'
       /\ plan' \in [PlanId -> PlanStatus \cup {"NONE"}]
       /\ task' \in [TaskId -> TaskRow \cup {NoRow}]
       /\ \A t \in TaskId : task'[t] # NoRow => plan'[task'[t].plan] # "NONE"
  <2>1. p \in PlanId => plan[p] = "NONE" BY <1>10, PlansAreNoCases
  <2>2. p \in PlanId \/ T = {} BY <1>3, <1>4, <1>5
  <2>3. \A t \in T : task[t] = NoRow BY <1>10, <2>2, PlansAreNoCases
  <2> QED BY <1>10, <2>1, <2>2, <2>3, PlanStarted
<1>12. opened \in ExitRow /\ opened # NoRow /\ opened.status = "ACTIVE"
       /\ opened.clearance = [s \in Scope |-> "OPEN"]
  <2>1. [s \in Scope |-> "OPEN"] \in [Scope -> ClearanceStatus] BY DEF ClearanceStatus
  <2>2. opened \in ExitRow BY <2>1 DEF ExitRow, ExitStatus
  <2> QED BY <2>2, NoRowIsNoRow
<1>13. \A i \in I : /\ fresh(i) \in ItemRow /\ fresh(i) # NoRow
                    /\ fresh(i).exit = c /\ fresh(i).status = "OPEN"
  BY NoRowIsNoRow DEF ItemRow, ClearanceStatus
<1> HIDE DEF opened, fresh
<1>14. /\ exit'[c] = opened /\ \A d \in ExitId \ {c} : exit'[d] = exit[d]
       /\ exit' \in [ExitId -> ExitRow \cup {NoRow}]
  BY <1>10, <1>12 DEF LifecycleInv, LifecycleTypeOK
<1>15. /\ \A i \in I : /\ item'[i] \in ItemRow /\ item'[i] # NoRow
                      /\ item'[i].exit = c /\ item'[i].status = "OPEN"
       /\ \A i \in ItemId \ I : item'[i] = item[i]
       /\ item' \in [ItemId -> ItemRow \cup {NoRow}]
  BY <1>10, <1>13 DEF LifecycleInv, LifecycleTypeOK
<1>16. \A i \in ItemId : item[i] # NoRow => item[i].exit \in ExitId \ {c} /\ exit[item[i].exit] # NoRow
  BY <1>10 DEF LifecycleInv, LifecycleTypeOK, ItemRow
<1>17. LifecycleTypeOK'
  <2>1. \A i \in ItemId : item'[i] # NoRow => exit'[item'[i].exit] # NoRow
    BY <1>12, <1>14, <1>15, <1>16
  <2> QED BY <1>10, <1>11, <1>14, <1>15, <2>1 DEF LifecycleInv, LifecycleTypeOK
<1>18. CaseAgrees(c)'
  <2>1. ItemsOf(c, item') = I BY <1>15, <1>16 DEF ItemsOf
  <2>2. ASSUME NEW s \in Scope
        PROVE  Aggregate({item'[i].status : i \in {j \in ItemsOf(c, item') : item'[j].scope = s}}) = "OPEN"
    <3>1. {item'[i].status : i \in {j \in ItemsOf(c, item') : item'[j].scope = s}} \subseteq {"OPEN"}
      BY <1>15, <2>1
    <3> QED BY <3>1, OpenAggregate
  <2>3. Clearance(c, item') = [s \in Scope |-> "OPEN"] BY <2>2 DEF Clearance
  <2>4. ~AllClear(c, item') BY <1>9, <1>15, <2>1 DEF AllClear, ItemDone
  <2> QED BY <1>12, <1>14, <2>3, <2>4 DEF CaseAgrees
<1>19. \A d \in ExitId : CaseAgrees(d)'
  <2>1. \A i \in ItemId : item'[i] # item[i] =>
          /\ item[i] # NoRow => item[i].exit = c
          /\ item'[i] # NoRow /\ item'[i].exit = c
    BY <1>10, <1>15
  <2>2. \A d \in ExitId \ {c} : exit'[d] = exit[d] /\ (d \in edited => d \in edited')
    BY <1>10, <1>14
  <2> QED BY <1>18, <2>1, <2>2, CaseWritten
<1>20. \A d, e \in OpenCases' \ handled' : d = e
  <2>1. OpenCases' \subseteq {c} BY <1>3, <1>14 DEF OpenCases
  <2> QED BY <2>1
<1>21. StatusesAgree' BY <1>11, <1>19, <1>20 DEF StatusesAgree
<1> QED BY <1>2, <1>17, <1>21, AllWait

LEMMA CommitItemStep ==
  ASSUME LifecycleInv, NEW h \in Officer, CommitItem(h)
  PROVE  LifecycleInv'
<1>1. officer[h].op = "itemWritten" /\ Done(h) BY DEF CommitItem, Doing
<1>2. /\ officer[h] \in OfficerJob /\ OfficerStands(officer[h])
      /\ \A g \in Officer : officer'[g] = Waiting
      /\ officer' \in [Officer -> OfficerJob]
  <2>1. officer[h] # Waiting BY <1>1 DEF Waiting
  <2> QED BY <1>1, <2>1, LastOfficerDone
<1> DEFINE i == officer[h].item
           row == officer[h].row
           found == officer[h].exit
<1>3. /\ i \in ItemId /\ row \in ItemRow
      /\ found \in [clearance : [Scope -> ClearanceStatus], status : {"KEEP", "READY_FOR_SEPARATION"}]
      /\ exit[row.exit] # NoRow
      /\ item[i] # NoRow => item[i].exit = row.exit
      /\ found = RefreshedExit(row.exit, [item EXCEPT ![i] = row])
  BY <1>1, <1>2 DEF OfficerJob, Waiting, OfficerStands
<1>4. PICK c \in ExitId : c = row.exit BY <1>3 DEF ItemRow
<1> DEFINE now == [exit[c] EXCEPT !.clearance = found.clearance, !.status = Kept(found.status, exit[c].status)]
<1>5. /\ item' = [item EXCEPT ![i] = row]
      /\ exit' = [exit EXCEPT ![c].clearance = found.clearance, ![c].status = Kept(found.status, @)]
      /\ edited' = edited \ {c} /\ UNCHANGED <<plan, task, handled>>
  BY <1>4 DEF CommitItem
<1>6. exit' = [exit EXCEPT ![c] = now]
  BY <1>5 DEF LifecycleInv, LifecycleTypeOK
<1>7. exit[c] \in ExitRow /\ exit[c].status \in ExitStatus
  BY <1>3, <1>4 DEF LifecycleInv, LifecycleTypeOK, ExitRow
<1>8. /\ now \in ExitRow /\ now # NoRow /\ now.clearance = found.clearance
      /\ now.status = Kept(found.status, exit[c].status)
  <2>1. Kept(found.status, exit[c].status) \in ExitStatus BY <1>3, <1>7 DEF Kept, ExitStatus
  <2>2. found.clearance \in [Scope -> ClearanceStatus] BY <1>3
  <2>3. now \in ExitRow BY <1>7, <2>1, <2>2 DEF ExitRow
  <2>4. now.clearance = found.clearance /\ now.status = Kept(found.status, exit[c].status)
    BY <1>7 DEF ExitRow
  <2> QED BY <2>3, <2>4, NoRowIsNoRow
<1>9. /\ found.clearance = Clearance(c, item')
      /\ found.status = IF AllClear(c, item') /\ exit[c].status = "ACTIVE"
                        THEN "READY_FOR_SEPARATION" ELSE "KEEP"
  BY <1>3, <1>4, <1>5 DEF RefreshedExit
<1> HIDE DEF now, found
<1>10. /\ exit'[c] = now /\ \A d \in ExitId \ {c} : exit'[d] = exit[d]
       /\ exit' \in [ExitId -> ExitRow \cup {NoRow}]
  BY <1>6, <1>8 DEF LifecycleInv, LifecycleTypeOK
<1>11. /\ item'[i] = row /\ \A j \in ItemId \ {i} : item'[j] = item[j]
       /\ item' \in [ItemId -> ItemRow \cup {NoRow}] /\ row # NoRow
  BY <1>3, <1>5, NoRowIsNoRow DEF LifecycleInv, LifecycleTypeOK
<1>12. LifecycleTypeOK'
  <2>1. \A j \in ItemId : item[j] # NoRow => item[j].exit \in ExitId /\ exit[item[j].exit] # NoRow
    BY DEF LifecycleInv, LifecycleTypeOK, ItemRow
  <2>2. \A j \in ItemId : item'[j] # NoRow => exit'[item'[j].exit] # NoRow
    BY <1>4, <1>8, <1>10, <1>11, <2>1
  <2> QED BY <1>5, <1>10, <1>11, <2>2 DEF LifecycleInv, LifecycleTypeOK
<1>13. CaseAgrees(c)'
  <2>1. exit'[c].status = "ACTIVE" => ~AllClear(c, item')
    BY <1>8, <1>9, <1>10 DEF Kept
  <2> QED BY <1>8, <1>9, <1>10, <2>1 DEF CaseAgrees
<1>14. \A d \in ExitId : CaseAgrees(d)'
  <2>1. \A j \in ItemId : item'[j] # item[j] =>
          /\ item[j] # NoRow => item[j].exit = c
          /\ item'[j] # NoRow /\ item'[j].exit = c
    BY <1>3, <1>4, <1>11
  <2>2. \A d \in ExitId \ {c} : exit'[d] = exit[d] /\ (d \in edited => d \in edited')
    BY <1>5, <1>10
  <2> QED BY <1>13, <2>1, <2>2, CaseWritten
<1>15. \A p \in PlanId : PlanAgrees(p)'
  <2>1. \A p \in PlanId : p \in edited => p \in edited' BY <1>5, PlansAreNoCases
  <2> QED BY <1>5, <2>1, PlansLeftAlone
<1>16. OpenCases' = OpenCases
  <2>1. now.status \in {"DRAFT", "ACTIVE", "READY_FOR_SEPARATION"}
          <=> exit[c].status \in {"DRAFT", "ACTIVE", "READY_FOR_SEPARATION"}
    BY <1>8, <1>9 DEF Kept
  <2>2. \A d \in ExitId : d \in OpenCases' <=> d \in OpenCases
    BY <1>3, <1>4, <1>8, <1>10, <2>1 DEF OpenCases
  <2> QED BY <2>2 DEF OpenCases
<1>17. StatusesAgree' BY <1>5, <1>14, <1>15, <1>16 DEF LifecycleInv, StatusesAgree
<1> QED BY <1>2, <1>12, <1>17, AllWait

LEMMA CommitFinishStep ==
  ASSUME LifecycleInv, NEW h \in Officer, CommitFinish(h)
  PROVE  LifecycleInv'
<1>1. officer[h].op = "finish" /\ Done(h) BY DEF CommitFinish, Doing
<1>2. /\ officer[h] \in OfficerJob /\ OfficerStands(officer[h])
      /\ \A g \in Officer : officer'[g] = Waiting
      /\ officer' \in [Officer -> OfficerJob]
  <2>1. officer[h] # Waiting BY <1>1 DEF Waiting
  <2> QED BY <1>1, <2>1, LastOfficerDone
<1>3. /\ officer[h].exit \in ExitId /\ officer[h].clearance \in [Scope -> ClearanceStatus]
      /\ exit[officer[h].exit] # NoRow
      /\ officer[h].clearance = Clearance(officer[h].exit, item)
  BY <1>1, <1>2 DEF OfficerJob, Waiting, OfficerStands
<1>4. PICK c \in ExitId : c = officer[h].exit BY <1>3
<1>5. PICK shown \in [Scope -> ClearanceStatus] : shown = officer[h].clearance BY <1>3
<1> DEFINE now == [exit[c] EXCEPT !.status = "COMPLETED", !.clearance = shown]
<1>6. /\ exit' = [exit EXCEPT ![c].status = "COMPLETED", ![c].clearance = shown]
      /\ edited' = edited \ {c} /\ UNCHANGED <<plan, task, item, handled>>
  BY <1>4, <1>5 DEF CommitFinish
<1>7. exit' = [exit EXCEPT ![c] = now] BY <1>6 DEF LifecycleInv, LifecycleTypeOK
<1>8. exit[c] \in ExitRow BY <1>3, <1>4 DEF LifecycleInv, LifecycleTypeOK
<1>9. now \in ExitRow /\ now # NoRow /\ now.clearance = shown /\ now.status = "COMPLETED"
  BY <1>8, NoRowIsNoRow DEF ExitRow, ExitStatus
<1> HIDE DEF now
<1>10. /\ exit'[c] = now /\ \A d \in ExitId \ {c} : exit'[d] = exit[d]
       /\ exit' \in [ExitId -> ExitRow \cup {NoRow}]
  BY <1>7, <1>9 DEF LifecycleInv, LifecycleTypeOK
<1>11. LifecycleTypeOK'
  <2>1. \A j \in ItemId : item[j] # NoRow => item[j].exit \in ExitId /\ exit[item[j].exit] # NoRow
    BY DEF LifecycleInv, LifecycleTypeOK, ItemRow
  <2>2. \A j \in ItemId : item[j] # NoRow => exit'[item[j].exit] # NoRow BY <1>9, <1>10, <2>1
  <2> QED BY <1>6, <1>10, <2>2 DEF LifecycleInv, LifecycleTypeOK
<1>12. CaseAgrees(c)'
  <2>1. item' = item /\ shown = Clearance(c, item) BY <1>3, <1>4, <1>5, <1>6
  <2> QED BY <1>9, <1>10, <2>1 DEF CaseAgrees
<1>13. \A d \in ExitId : CaseAgrees(d)'
  <2>1. \A j \in ItemId : item'[j] # item[j] =>
          /\ item[j] # NoRow => item[j].exit = c
          /\ item'[j] # NoRow /\ item'[j].exit = c
    BY <1>6
  <2>2. \A d \in ExitId \ {c} : exit'[d] = exit[d] /\ (d \in edited => d \in edited')
    BY <1>6, <1>10
  <2> QED BY <1>12, <2>1, <2>2, CaseWritten
<1>14. \A p \in PlanId : PlanAgrees(p)'
  <2>1. \A p \in PlanId : p \in edited => p \in edited' BY <1>6, PlansAreNoCases
  <2> QED BY <1>6, <2>1, PlansLeftAlone
<1>15. OpenCases' \subseteq OpenCases BY <1>9, <1>10 DEF OpenCases
<1>16. StatusesAgree' BY <1>6, <1>13, <1>14, <1>15 DEF LifecycleInv, StatusesAgree
<1> QED BY <1>2, <1>11, <1>16, AllWait

----------------------------------------------------------------------------
\* A handler that is alone writes its row and derives from it.

LEMMA AloneInHere ==
  ASSUME LifecycleInv, NEW h \in Officer, officer[h] # Waiting
  PROVE  /\ officer[h] \in OfficerJob /\ OfficerStands(officer[h])
         /\ \A g \in Officer \ {h} : officer[g] = Waiting
BY DEF LifecycleInv, OneOfficer

LEMMA WriteTaskStep ==
  ASSUME LifecycleInv, NEW h \in Officer, WriteTask(h)
  PROVE  LifecycleInv'
<1>1. officer[h].op = "task" /\ UNCHANGED <<plan, task, exit, item, edited, handled>>
  BY DEF WriteTask, Doing
<1>2. /\ officer[h] \in OfficerJob /\ OfficerStands(officer[h])
      /\ \A g \in Officer \ {h} : officer[g] = Waiting
  <2>1. officer[h] # Waiting BY <1>1 DEF Waiting
  <2> QED BY <2>1, AloneInHere
<1>3. officer[h].task \in TaskId /\ officer[h].status \in TaskStatus /\ task[officer[h].task] # NoRow
  BY <1>1, <1>2 DEF OfficerJob, Waiting, OfficerStands
<1>4. PICK t \in TaskId, status \in TaskStatus : t = officer[h].task /\ status = officer[h].status
  BY <1>3
<1> DEFINE found == RefreshedPlan(task[t].plan, [task EXCEPT ![t].status = status])
<1>5. officer' = [officer EXCEPT ![h] = [op |-> "taskWritten", task |-> t, status |-> status, plan |-> found]]
  BY <1>4 DEF WriteTask
<1>6. found \in {"KEEP", "COMPLETED", "ACTIVE"} BY DEF RefreshedPlan
<1> HIDE DEF found
<1>7. [op |-> "taskWritten", task |-> t, status |-> status, plan |-> found] \in OfficerJob
  BY <1>6 DEF OfficerJob
<1>8. PICK job \in OfficerJob : job = [op |-> "taskWritten", task |-> t, status |-> status, plan |-> found]
  BY <1>7
<1>9. OfficerStands(job)
  <2>1. /\ job.op = "taskWritten" /\ job.task = t /\ job.status = status /\ job.plan = found
    BY <1>8
  <2>2. task[t] # NoRow BY <1>3, <1>4
  <2> QED BY <2>1, <2>2 DEF OfficerStands, found
<1> QED BY <1>1, <1>2, <1>5, <1>8, <1>9, OfficerMoves

LEMMA WriteItemStep ==
  ASSUME LifecycleInv, NEW h \in Officer, WriteItem(h)
  PROVE  LifecycleInv'
<1>1. officer[h].op = "item" /\ UNCHANGED <<plan, task, exit, item, edited, handled>>
  BY DEF WriteItem, Doing
<1>2. /\ officer[h] \in OfficerJob /\ OfficerStands(officer[h])
      /\ \A g \in Officer \ {h} : officer[g] = Waiting
  <2>1. officer[h] # Waiting BY <1>1 DEF Waiting
  <2> QED BY <2>1, AloneInHere
<1>3. /\ officer[h].item \in ItemId /\ officer[h].row \in ItemRow /\ exit[officer[h].row.exit] # NoRow
      /\ officer[h].isNew \/ item[officer[h].item].exit = officer[h].row.exit
      /\ officer[h].isNew = (item[officer[h].item] = NoRow)
  BY <1>1, <1>2 DEF OfficerJob, Waiting, OfficerStands, WriteItem
<1>4. PICK i \in ItemId, row \in ItemRow : i = officer[h].item /\ row = officer[h].row BY <1>3
<1> DEFINE found == RefreshedExit(row.exit, [item EXCEPT ![i] = row])
<1>5. officer' = [officer EXCEPT ![h] = [op |-> "itemWritten", item |-> i, row |-> row, exit |-> found]]
  BY <1>4 DEF WriteItem
<1>6. found \in [clearance : [Scope -> ClearanceStatus], status : {"KEEP", "READY_FOR_SEPARATION"}]
  <2>1. [item EXCEPT ![i] = row] \in [ItemId -> ItemRow \cup {NoRow}]
    BY DEF LifecycleInv, LifecycleTypeOK
  <2>2. Clearance(row.exit, [item EXCEPT ![i] = row]) \in [Scope -> ClearanceStatus]
    BY <2>1, ClearanceIsTyped
  <2> QED BY <2>2 DEF RefreshedExit
<1> HIDE DEF found
<1>7. [op |-> "itemWritten", item |-> i, row |-> row, exit |-> found] \in OfficerJob
  BY <1>6 DEF OfficerJob
<1>8. PICK job \in OfficerJob : job = [op |-> "itemWritten", item |-> i, row |-> row, exit |-> found]
  BY <1>7
<1>9. OfficerStands(job)
  <2>1. /\ job.op = "itemWritten" /\ job.item = i /\ job.row = row /\ job.exit = found
    BY <1>8
  <2>2. exit[row.exit] # NoRow /\ (item[i] # NoRow => item[i].exit = row.exit) BY <1>3, <1>4
  <2> QED BY <2>1, <2>2 DEF OfficerStands, found
<1> QED BY <1>1, <1>2, <1>5, <1>8, <1>9, OfficerMoves

----------------------------------------------------------------------------
\* What the handlers read, they may stand on.

LEMMA PlanReadStep ==
  ASSUME LifecycleInv, OfficersTakeTurns, OfficerTurn, NEW h \in Officer,
         \/ \E p \in PlanId : \/ \E T \in SUBSET TaskId : InstantiateTemplate(h, p, T)
                              \/ \E t \in TaskId : CreateTask(h, p, t)
         \/ \E t \in TaskId, status \in TaskStatus :
              UpdateTask(h, t, status) \/ CompleteOrBlockTask(h, t, status)
  PROVE  LifecycleInv'
<1>1. ASSUME NEW p \in PlanId, NEW T \in SUBSET TaskId, InstantiateTemplate(h, p, T)
      PROVE  LifecycleInv'
  <2> DEFINE job == [op |-> "template", plan |-> p, tasks |-> T]
  <2>1. TakesOn(h, job) BY <1>1 DEF InstantiateTemplate
  <2>2. job \in OfficerJob BY DEF OfficerJob
  <2>3. OfficerStands(job) BY DEF OfficerStands
  <2> HIDE DEF job
  <2> QED BY <2>1, <2>2, <2>3, TakesOnStep
<1>2. ASSUME NEW p \in PlanId, NEW t \in TaskId, CreateTask(h, p, t)
      PROVE  LifecycleInv'
  <2>1. PICK again \in BOOLEAN : again = (plan[p] = "COMPLETED") OBVIOUS
  <2> DEFINE job == [op |-> "newTask", plan |-> p, task |-> t, reopen |-> again]
  <2>2. TakesOn(h, job) /\ plan[p] \notin {"NONE", "CANCELLED", "ARCHIVED"} BY <1>2, <2>1 DEF CreateTask
  <2>3. job \in OfficerJob BY DEF OfficerJob
  <2>4. OfficerStands(job) BY <2>1, <2>2 DEF OfficerStands
  <2> HIDE DEF job
  <2> QED BY <2>2, <2>3, <2>4, TakesOnStep
<1>3. ASSUME NEW t \in TaskId, NEW status \in TaskStatus,
             UpdateTask(h, t, status) \/ CompleteOrBlockTask(h, t, status)
      PROVE  LifecycleInv'
  <2> DEFINE job == [op |-> "task", task |-> t, status |-> status]
  <2>1. TakesOn(h, job) /\ task[t] # NoRow BY <1>3 DEF UpdateTask, CompleteOrBlockTask
  <2>2. job \in OfficerJob BY DEF OfficerJob
  <2>3. OfficerStands(job) BY <2>1 DEF OfficerStands
  <2> HIDE DEF job
  <2> QED BY <2>1, <2>2, <2>3, TakesOnStep
<1> QED BY <1>1, <1>2, <1>3

LEMMA CaseReadStep ==
  ASSUME LifecycleInv, OfficersTakeTurns, OfficerTurn, NEW h \in Officer,
         \/ \E c \in ExitId :
              \/ \E p \in PlanId \cup {NoPlan}, T \in SUBSET TaskId, I \in SUBSET ItemId :
                   \E scopes \in [I -> Scope \cup {"none"}] : StartOffboarding(h, c, p, T, scopes)
              \/ CompleteExit(h, c)
              \/ \E i \in ItemId, scope \in Scope \cup {"none"} : CreateItem(h, c, i, scope)
         \/ \E i \in ItemId, status \in ClearanceStatus : UpdateItem(h, i, status)
  PROVE  LifecycleInv'
<1>1. ASSUME NEW c \in ExitId, NEW p \in PlanId \cup {NoPlan}, NEW T \in SUBSET TaskId,
             NEW I \in SUBSET ItemId, NEW scopes \in [I -> Scope \cup {"none"}],
             StartOffboarding(h, c, p, T, scopes)
      PROVE  LifecycleInv'
  <2> DEFINE job == [op |-> "start", exit |-> c, plan |-> p, tasks |-> T, scopes |-> scopes]
  <2>1. /\ TakesOn(h, job) /\ OpenCases = {} /\ DOMAIN scopes # {} /\ (p = NoPlan => T = {})
    BY <1>1 DEF StartOffboarding
  <2>2. scopes \in UNION {[J -> Scope \cup {"none"}] : J \in SUBSET ItemId} OBVIOUS
  <2>3. job \in OfficerJob BY <2>2 DEF OfficerJob
  <2>4. OfficerStands(job) BY <2>1 DEF OfficerStands
  <2> HIDE DEF job
  <2> QED BY <2>1, <2>3, <2>4, TakesOnStep
<1>2. ASSUME NEW c \in ExitId, CompleteExit(h, c) PROVE LifecycleInv'
  <2>1. Clearance(c, item) \in [Scope -> ClearanceStatus]
    BY ClearanceIsTyped DEF LifecycleInv, LifecycleTypeOK
  <2>2. PICK shown \in [Scope -> ClearanceStatus] : shown = Clearance(c, item) BY <2>1
  <2> DEFINE job == [op |-> "finish", exit |-> c, clearance |-> shown]
  <2>3. /\ TakesOn(h, job) /\ exit[c] # NoRow
        /\ \A i \in ItemsOf(c, item) : item[i].status \in ItemDone
    BY <1>2, <2>2 DEF CompleteExit
  <2>4. job \in OfficerJob BY DEF OfficerJob
  <2>5. OfficerStands(job) BY <2>2, <2>3 DEF OfficerStands
  <2> HIDE DEF job
  <2> QED BY <2>3, <2>4, <2>5, TakesOnStep
<1>3. ASSUME NEW i \in ItemId, NEW row \in ItemRow, NEW isNew \in BOOLEAN,
             TakesOn(h, [op |-> "item", item |-> i, isNew |-> isNew, row |-> row]),
             exit[row.exit] # NoRow, isNew \/ item[i].exit = row.exit
      PROVE  LifecycleInv'
  <2> DEFINE job == [op |-> "item", item |-> i, isNew |-> isNew, row |-> row]
  <2>1. TakesOn(h, job) BY <1>3
  <2>2. job \in OfficerJob BY DEF OfficerJob
  <2>3. OfficerStands(job) BY <1>3 DEF OfficerStands
  <2> HIDE DEF job
  <2> QED BY <2>1, <2>2, <2>3, TakesOnStep
<1>4. ASSUME NEW c \in ExitId, NEW i \in ItemId, NEW scope \in Scope \cup {"none"},
             CreateItem(h, c, i, scope)
      PROVE  LifecycleInv'
  <2> DEFINE row == [exit |-> c, scope |-> scope, status |-> "OPEN"]
  <2>1. TakesOn(h, [op |-> "item", item |-> i, isNew |-> TRUE, row |-> row]) /\ exit[row.exit] # NoRow
    BY <1>4 DEF CreateItem
  <2>2. row \in ItemRow BY DEF ItemRow, ClearanceStatus
  <2> HIDE DEF row
  <2> QED BY <1>3, <2>1, <2>2
<1>5. ASSUME NEW i \in ItemId, NEW status \in ClearanceStatus, UpdateItem(h, i, status)
      PROVE  LifecycleInv'
  <2>1. item[i] \in ItemRow /\ exit[item[i].exit] # NoRow
    BY <1>5 DEF UpdateItem, LifecycleInv, LifecycleTypeOK
  <2>2. [item[i] EXCEPT !.status = status] \in ItemRow BY <2>1 DEF ItemRow
  <2>3. PICK row \in ItemRow : row = [item[i] EXCEPT !.status = status] BY <2>2
  <2>4. row.exit = item[i].exit BY <2>1, <2>3 DEF ItemRow
  <2>5. TakesOn(h, [op |-> "item", item |-> i, isNew |-> FALSE, row |-> row])
    BY <1>5, <2>3 DEF UpdateItem
  <2> QED BY <1>3, <2>1, <2>4, <2>5
<1> QED BY <1>1, <1>2, <1>4, <1>5

----------------------------------------------------------------------------
\* One statement, which comes when nobody is in between.

LEMMA OnePlanStatement ==
  ASSUME LifecycleInv, OfficersTakeTurns, OfficerTurn, NEW p \in PlanId, NEW status \in PlanStatus,
         CreatePlan(p, status) \/ UpdatePlan(p, status)
  PROVE  LifecycleInv'
<1>1. /\ plan' = [plan EXCEPT ![p] = status] /\ UNCHANGED <<task, exit, item, handled>>
      /\ officer' = officer /\ \A h \in Officer : officer'[h] = Waiting
      /\ edited \subseteq edited' /\ edited' \subseteq PlanId \cup ExitId
      /\ plan[p] = "NONE" \/ p \in edited'
  BY DEF CreatePlan, UpdatePlan, OfficerTurn, LifecycleInv, LifecycleTypeOK
<1>2. /\ plan' \in [PlanId -> PlanStatus \cup {"NONE"}] /\ plan'[p] # "NONE"
      /\ \A q \in PlanId \ {p} : plan'[q] = plan[q]
  BY <1>1 DEF LifecycleInv, LifecycleTypeOK, PlanStatus
<1>3. \A t \in TaskId : task[t] # NoRow => task[t].plan \in PlanId /\ plan[task[t].plan] # "NONE"
  BY DEF LifecycleInv, LifecycleTypeOK, TaskRow
<1>4. LifecycleTypeOK'
  <2>1. \A t \in TaskId : task[t] # NoRow => plan'[task[t].plan] # "NONE" BY <1>2, <1>3
  <2> QED BY <1>1, <1>2, <2>1 DEF LifecycleInv, LifecycleTypeOK
<1>5. PlanAgrees(p)'
  <2>1. plan[p] = "NONE" => TasksOf(p, task) = {} BY <1>3 DEF TasksOf
  <2> QED BY <1>1, <2>1 DEF PlanAgrees
<1>6. \A q \in PlanId : PlanAgrees(q)'
  <2>1. \A q \in PlanId \ {p} : plan'[q] = plan[q] /\ (q \in edited => q \in edited') BY <1>1, <1>2
  <2>2. \A t \in TaskId : task'[t] # task[t] =>
          /\ task[t] # NoRow => task[t].plan = p
          /\ task'[t] # NoRow /\ task'[t].plan = p
    BY <1>1
  <2> QED BY <1>5, <2>1, <2>2, PlanWritten
<1>7. \A c \in ExitId : c \in edited => c \in edited' BY <1>1
<1>8. StatusesAgree' BY <1>1, <1>6, <1>7, CasesLeftAlone
<1>9. officer' \in [Officer -> OfficerJob] BY <1>1 DEF LifecycleInv
<1> QED BY <1>1, <1>4, <1>8, <1>9, AllWait

LEMMA UpdateExitStep ==
  ASSUME LifecycleInv, OfficersTakeTurns, OfficerTurn, NEW c \in ExitId, NEW status \in ExitStatus,
         NEW s \in Scope, NEW clearance \in ClearanceStatus, UpdateExit(c, status, s, clearance)
  PROVE  LifecycleInv'
<1> DEFINE now == [exit[c] EXCEPT !.status = status, !.clearance[s] = clearance]
<1>1. /\ exit[c] # NoRow
      /\ exit' = [exit EXCEPT ![c].status = status, ![c].clearance[s] = clearance]
      /\ edited' = edited \cup {c} /\ UNCHANGED <<plan, task, item>>
      /\ handled' = IF status = exit[c].status THEN handled ELSE handled \cup {c}
      /\ officer' = officer /\ \A h \in Officer : officer'[h] = Waiting
  BY DEF UpdateExit, OfficerTurn
<1>2. exit[c] \in ExitRow BY <1>1 DEF LifecycleInv, LifecycleTypeOK
<1>3. exit' = [exit EXCEPT ![c] = now] BY <1>1 DEF LifecycleInv, LifecycleTypeOK
<1>4. now \in ExitRow /\ now # NoRow /\ now.status = status
  BY <1>2, NoRowIsNoRow DEF ExitRow
<1> HIDE DEF now
<1>5. /\ exit'[c] = now /\ \A d \in ExitId \ {c} : exit'[d] = exit[d]
      /\ exit' \in [ExitId -> ExitRow \cup {NoRow}]
  BY <1>3, <1>4 DEF LifecycleInv, LifecycleTypeOK
<1>6. LifecycleTypeOK'
  <2>1. \A j \in ItemId : item[j] # NoRow => item[j].exit \in ExitId /\ exit[item[j].exit] # NoRow
    BY DEF LifecycleInv, LifecycleTypeOK, ItemRow
  <2>2. \A j \in ItemId : item[j] # NoRow => exit'[item[j].exit] # NoRow BY <1>4, <1>5, <2>1
  <2>3. edited' \subseteq PlanId \cup ExitId /\ handled' \subseteq ExitId
    BY <1>1 DEF LifecycleInv, LifecycleTypeOK
  <2> QED BY <1>1, <1>5, <2>2, <2>3 DEF LifecycleInv, LifecycleTypeOK
<1>7. CaseAgrees(c)' BY <1>1 DEF CaseAgrees
<1>8. \A d \in ExitId : CaseAgrees(d)'
  <2>1. \A j \in ItemId : item'[j] # item[j] =>
          /\ item[j] # NoRow => item[j].exit = c
          /\ item'[j] # NoRow /\ item'[j].exit = c
    BY <1>1
  <2>2. \A d \in ExitId \ {c} : exit'[d] = exit[d] /\ (d \in edited => d \in edited')
    BY <1>1, <1>5
  <2> QED BY <1>7, <2>1, <2>2, CaseWritten
<1>9. \A p \in PlanId : PlanAgrees(p)'
  <2>1. \A p \in PlanId : p \in edited => p \in edited' BY <1>1
  <2> QED BY <1>1, <2>1, PlansLeftAlone
<1>10. OpenCases' \ handled' \subseteq OpenCases \ handled
  BY <1>1, <1>4, <1>5 DEF OpenCases
<1>11. StatusesAgree' BY <1>8, <1>9, <1>10 DEF LifecycleInv, StatusesAgree
<1>12. officer' \in [Officer -> OfficerJob] BY <1>1 DEF LifecycleInv
<1> QED BY <1>1, <1>6, <1>11, <1>12, AllWait

LEMMA OfficerStopsStep ==
  ASSUME LifecycleInv, NEW h \in Officer, OfficerStops(h)
  PROVE  LifecycleInv'
<1>1. officer[h] # Waiting /\ Done(h) /\ UNCHANGED <<plan, task, exit, item, edited, handled>>
  BY DEF OfficerStops
<1>2. (\A g \in Officer : officer'[g] = Waiting) /\ officer' \in [Officer -> OfficerJob]
  BY <1>1, LastOfficerDone
<1>3. LifecycleTypeOK' BY <1>1 DEF LifecycleInv, LifecycleTypeOK
<1>4. StatusesAgree' BY <1>1, NothingWritten DEF LifecycleInv
<1> QED BY <1>2, <1>3, <1>4, AllWait

LEMMA AtMostOne ==
  ASSUME NEW S, \A c, d \in S : c = d
  PROVE  Cardinality(S) <= 1
<1>1. IsFiniteSet({}) /\ Cardinality({}) = 0 BY FS_EmptySet
<1>2. CASE S = {} BY <1>1, <1>2
<1>3. CASE S # {}
  <2>1. PICK c : S = {} \cup {c} BY <1>3
  <2>2. Cardinality({} \cup {c}) = Cardinality({}) + 1 BY <1>1, FS_AddElement
  <2>3. Cardinality(S) = 1 BY <1>1, <2>1, <2>2
  <2> QED BY <2>3
<1> QED BY <1>2, <1>3

LEMMA LifecycleStep ==
  ASSUME OfficersTakeTurns, LifecycleInv, [LifecycleNext]_lifecycleVars
  PROVE  LifecycleInv'
<1>1. CASE UNCHANGED lifecycleVars
  <2>1. UNCHANGED <<plan, task, exit, item, edited, handled>> /\ officer' = officer
    BY <1>1 DEF lifecycleVars
  <2>2. LifecycleTypeOK' BY <2>1 DEF LifecycleInv, LifecycleTypeOK
  <2>3. StatusesAgree' BY <2>1, NothingWritten DEF LifecycleInv
  <2>4. officer' \in [Officer -> OfficerJob] /\ OneOfficer' BY <2>1 DEF LifecycleInv, OneOfficer
  <2>5. ASSUME NEW h \in Officer, NEW job \in OfficerJob, officer'[h] = job PROVE OfficerStands(job)'
    <3>1. OfficerStands(job) BY <2>1, <2>5 DEF LifecycleInv
    <3>2. OpenCases' = OpenCases BY <2>1 DEF OpenCases
    <3>3. ASSUME NEW p, NEW rows
          PROVE  /\ RefreshedPlan(p, rows)' = RefreshedPlan(p, rows)
                 /\ RefreshedExit(p, rows)' = RefreshedExit(p, rows)
      BY <2>1 DEF RefreshedPlan, RefreshedExit
    <3> QED BY <2>1, <3>1, <3>2, <3>3 DEF OfficerStands
  <2> QED BY <2>2, <2>3, <2>4, <2>5 DEF LifecycleInv
<1>2. CASE PlanNext
  <2>1. ASSUME OfficerTurn, NEW p \in PlanId, NEW status \in PlanStatus,
               CreatePlan(p, status) \/ UpdatePlan(p, status)
        PROVE  LifecycleInv'
    BY <2>1, OnePlanStatement
  <2>2. ASSUME OfficerTurn, NEW h \in Officer,
               \/ \E p \in PlanId : \/ \E T \in SUBSET TaskId : InstantiateTemplate(h, p, T)
                                    \/ \E t \in TaskId : CreateTask(h, p, t)
               \/ \E t \in TaskId, status \in TaskStatus :
                    UpdateTask(h, t, status) \/ CompleteOrBlockTask(h, t, status)
        PROVE  LifecycleInv'
    BY <2>2, PlanReadStep
  <2>3. ASSUME NEW h \in Officer, WriteTask(h) \/ CommitTask(h) \/ CommitNewTask(h) \/ CommitTemplate(h)
        PROVE  LifecycleInv'
    BY <2>3, WriteTaskStep, CommitTaskStep, CommitNewTaskStep, CommitTemplateStep
  <2> QED BY <1>2, <2>1, <2>2, <2>3 DEF PlanNext
<1>3. CASE ExitNext
  <2>1. ASSUME OfficerTurn, NEW c \in ExitId, NEW status \in ExitStatus, NEW s \in Scope,
               NEW clearance \in ClearanceStatus, UpdateExit(c, status, s, clearance)
        PROVE  LifecycleInv'
    BY <2>1, UpdateExitStep
  <2>2. ASSUME OfficerTurn, NEW h \in Officer,
         \/ \E c \in ExitId :
              \/ \E p \in PlanId \cup {NoPlan}, T \in SUBSET TaskId, I \in SUBSET ItemId :
                   \E scopes \in [I -> Scope \cup {"none"}] : StartOffboarding(h, c, p, T, scopes)
              \/ CompleteExit(h, c)
              \/ \E i \in ItemId, scope \in Scope \cup {"none"} : CreateItem(h, c, i, scope)
         \/ \E i \in ItemId, status \in ClearanceStatus : UpdateItem(h, i, status)
        PROVE  LifecycleInv'
    BY <2>2, CaseReadStep
  <2>3. ASSUME NEW h \in Officer, WriteItem(h) \/ CommitStart(h) \/ CommitItem(h) \/ CommitFinish(h)
        PROVE  LifecycleInv'
    BY <2>3, WriteItemStep, CommitStartStep, CommitItemStep, CommitFinishStep
  <2> QED BY <1>3, <2>1, <2>2, <2>3 DEF ExitNext
<1>4. CASE LifecycleNext BY <1>2, <1>3, <1>4, OfficerStopsStep DEF LifecycleNext
<1> QED BY <1>1, <1>4

\* DerivedStatusesAgree, of handlers that take turns: for any number of plans,
\* tasks, cases and items, no derivation is forgotten, whichever of the
\* handlers writes a row or sets a status by hand in between.
THEOREM DerivedStatusesAlwaysAgree == LifecycleSpec => []DerivedStatusesAgree
<1>1. CASE OfficersTakeTurns
  <2>1. LifecycleInit => LifecycleInv
    <3> SUFFICES ASSUME LifecycleInit PROVE LifecycleInv OBVIOUS
    <3>1. \A h \in Officer : officer[h] = Waiting BY DEF LifecycleInit
    <3>2. officer \in [Officer -> OfficerJob] BY DEF LifecycleInit, OfficerJob
    <3>3. LifecycleTypeOK BY DEF LifecycleInit, LifecycleTypeOK
    <3>4. StatusesAgree
      BY DEF LifecycleInit, StatusesAgree, PlanAgrees, CaseAgrees, TasksOf, OpenCases
    <3>5. OneOfficer BY <3>1 DEF OneOfficer
    <3>6. OfficerStands(Waiting) BY DEF OfficerStands, Waiting
    <3> QED BY <3>1, <3>2, <3>3, <3>4, <3>5, <3>6 DEF LifecycleInv
  <2>2. LifecycleInv /\ [LifecycleNext]_lifecycleVars => LifecycleInv' BY <1>1, LifecycleStep
  <2>3. LifecycleInv => DerivedStatusesAgree
    <3> SUFFICES ASSUME LifecycleInv PROVE DerivedStatusesAgree OBVIOUS
    <3>1. (\A p \in PlanId : PlanAgrees(p)) /\ (\A c \in ExitId : CaseAgrees(c))
      BY DEF LifecycleInv, StatusesAgree
    <3>2. Cardinality(OpenCases \ handled) <= 1
      <4>1. \A c, d \in OpenCases \ handled : c = d BY DEF LifecycleInv, StatusesAgree
      <4> QED BY <4>1, AtMostOne
    <3> QED BY <3>1, <3>2 DEF DerivedStatusesAgree, PlanAgrees, CaseAgrees
  <2> QED BY <2>1, <2>2, <2>3, PTL DEF LifecycleSpec
<1>2. CASE ~OfficersTakeTurns
  <2>1. DerivedStatusesAgree BY <1>2 DEF DerivedStatusesAgree
  <2> QED BY <2>1, PTL
<1> QED BY <1>1, <1>2
----------------------------------------------------------------------------
(* Employee import *)

Over == {"COMPLETED", "PARTIAL", "FAILED"}
Work == {"load", "rows", "failed", "count", "finalize"}

\* What a worker that is not idle or down has in hand: jobs, the first of which
\* it works on; lines nobody has imported; the outcome it is about to write.
Stage(s) ==
  /\ s.at \in {"idle", "down", "claim"} \cup Work
  /\ s.at \notin {"idle", "down"} => s.jobs \in Seq(ImportJob) /\ s.jobs # <<>>
  /\ s.at \in {"rows", "failed"} => s.rows \subseteq Lines(Head(s.jobs), "PENDING")
  /\ s.at = "finalize" =>
       /\ Lines(Head(s.jobs), "PENDING") = {} /\ s.created = Lines(Head(s.jobs), "CREATED")
       /\ s.status = Outcome(Cardinality(Lines(Head(s.jobs), "CREATED")),
                             Cardinality(Lines(Head(s.jobs), "FAILED")))

\* A job that a worker holds is locked and not over; one that is over says what
\* became of its lines, of which those with an employee are CREATED.
ImportJobStands(j) ==
  /\ \A w \in Worker : Holds(w, j) => importJob[j].status = "PROCESSING" /\ importJob[j].lock = "fresh"
  /\ j \in checked => importJob[j].status = "NONE"
  /\ importJob[j].completed <=> importJob[j].status \in Over
  /\ \A l \in Line : hired[j][l] = IF importRow[j][l] = "CREATED" THEN 1 ELSE 0
  /\ announced[j] = IF importJob[j].completed THEN <<Lines(j, "CREATED")>> ELSE <<>>
  /\ importJob[j].completed =>
       /\ Lines(j, "PENDING") = {}
       /\ importJob[j].status = Outcome(Cardinality(Lines(j, "CREATED")), Cardinality(Lines(j, "FAILED")))

ImportShape ==
  /\ importJob \in [ImportJob -> JobRow]
  /\ importRow \in [ImportJob -> [Line -> {"PENDING", "CREATED", "FAILED"}]]
  /\ hired \in [ImportJob -> [Line -> Nat]]
  /\ announced = [j \in ImportJob |-> announced[j]]
  /\ checked \subseteq ImportJob
  /\ worker = [w \in Worker |-> worker[w]]

ImportInv ==
  /\ ImportShape
  /\ \A w \in Worker : Stage(worker[w])
  /\ \A w, v \in Worker, j \in ImportJob : Holds(w, j) /\ Holds(v, j) => w = v
  /\ \A j \in ImportJob : ImportJobStands(j)

LEMMA ImportInitInv == ImportInit => ImportInv
<1> SUFFICES ASSUME ImportInit PROVE ImportInv
  OBVIOUS
<1>1. ImportShape
  BY DEF ImportInit, ImportShape, JobRow, JobStatus
<1>2. \A w \in Worker : worker[w].at = "idle"
  BY DEF ImportInit, Idle
<1>3. \A w \in Worker : Stage(worker[w])
  BY <1>2 DEF Stage, Work
<1>4. \A w \in Worker, j \in ImportJob : ~Holds(w, j)
  BY <1>2 DEF Holds
<1>5. ASSUME NEW j \in ImportJob PROVE ImportJobStands(j)
  BY <1>4 DEF ImportInit, ImportJobStands, Over
<1> QED
  BY <1>1, <1>3, <1>4, <1>5 DEF ImportInv

\* An outcome is one of three, and tells a job that is over.
LEMMA OutcomeIsOver ==
  ASSUME NEW created, NEW failed PROVE Outcome(created, failed) \in Over
BY DEF Outcome, Over

\* What a job says of its lines stays true while its row, its lines, its
\* employees and its events stay.
JobKept(j) ==
  /\ importJob'[j] = importJob[j] /\ importRow'[j] = importRow[j]
  /\ hired'[j] = hired[j] /\ announced'[j] = announced[j]

LEMMA LinesKept ==
  ASSUME NEW j, importRow'[j] = importRow[j] PROVE \A st : Lines(j, st)' = Lines(j, st)
BY DEF Lines

LEMMA ImportJobStandsOn ==
  ASSUME NEW j, ImportJobStands(j), JobKept(j), j \in checked' => j \in checked,
         \A w \in Worker : Holds(w, j)' => Holds(w, j)
  PROVE  ImportJobStands(j)'
<1>1. \A st : Lines(j, st)' = Lines(j, st)
  BY LinesKept DEF JobKept
<1> QED
  BY <1>1 DEF ImportJobStands, JobKept

\* A worker that holds a job, or nothing, after its step: the others stay.
LEMMA OneWorkerMoves ==
  ASSUME ImportShape, NEW w \in Worker, NEW stage, Goes(w, stage)
  PROVE  /\ worker' = [v \in Worker |-> worker'[v]] /\ worker'[w] = stage
         /\ \A v \in Worker \ {w} : worker'[v] = worker[v]
BY DEF Goes, ImportShape

\* A stage of another worker stays true while the lines of its job stay, which
\* are those of the job it holds.
LEMMA StageKept ==
  ASSUME NEW v \in Worker, Stage(worker[v]), worker'[v] = worker[v],
         \A j \in ImportJob : Holds(v, j) => importRow'[j] = importRow[j]
  PROVE  Stage(worker[v])' /\ \A j : Holds(v, j)' = Holds(v, j)
<1>1. \A j : Holds(v, j)' = Holds(v, j)
  BY DEF Holds
<1> DEFINE j == Head(worker[v].jobs)
<1>2. CASE worker[v].at \in {"idle", "down", "claim"}
  BY <1>1, <1>2 DEF Stage, Work
<1>3. CASE worker[v].at \in Work
  <2>1. j \in ImportJob /\ Holds(v, j)
    BY <1>3 DEF Stage, Holds, Work
  <2>2. \A st : {l \in Line : importRow'[j][l] = st} = Lines(j, st)
    BY <2>1 DEF Lines
  <2>3. \A st : Lines(Head(worker[v].jobs), st)' = Lines(j, st)
    BY <2>2 DEF Lines
  <2> QED
    BY <1>1, <1>3, <2>3 DEF Stage, Work
<1> QED
  BY <1>1, <1>2, <1>3 DEF Stage, Work

\* A step of a worker that takes no new job and writes no rows.
LEMMA WorkerMoves ==
  ASSUME ImportInv, NEW w \in Worker, NEW stage, Goes(w, stage), Stage(worker[w])',
         \A j \in ImportJob : Holds(w, j)' => Holds(w, j),
         UNCHANGED <<importRow, hired, announced, checked>>,
         importJob' = importJob
  PROVE  ImportInv'
<1>1. /\ worker' = [v \in Worker |-> worker'[v]] /\ worker'[w] = stage
      /\ \A v \in Worker \ {w} : worker'[v] = worker[v]
  BY OneWorkerMoves DEF ImportInv
<1>2. ASSUME NEW v \in Worker \ {w} PROVE Stage(worker[v])' /\ \A j : Holds(v, j)' = Holds(v, j)
  BY <1>1, StageKept DEF ImportInv
<1>3. \A v \in Worker, j \in ImportJob : Holds(v, j)' => Holds(v, j)
  BY <1>2
<1>4. \A j \in ImportJob : ImportJobStands(j)'
  BY <1>3, ImportJobStandsOn DEF ImportInv, JobKept
<1>5. ImportShape'
  BY <1>1 DEF ImportInv, ImportShape
<1> QED
  BY <1>2, <1>3, <1>4, <1>5 DEF ImportInv

\* A step of a worker for the job that it holds, then or after it, and no other
\* worker does.
LEMMA HolderMoves ==
  ASSUME ImportInv, NEW w \in Worker, NEW stage, Goes(w, stage), Stage(worker[w])',
         NEW j \in ImportJob, ImportJobStands(j)', ImportShape', checked' = checked,
         \A i \in ImportJob : Holds(w, i)' => i = j,
         \A v \in Worker \ {w} : ~Holds(v, j),
         \A i \in ImportJob \ {j} : JobKept(i)
  PROVE  ImportInv'
<1>1. \A v \in Worker \ {w} : worker'[v] = worker[v]
  BY OneWorkerMoves DEF ImportInv
<1>2. ASSUME NEW v \in Worker \ {w} PROVE Stage(worker[v])' /\ \A i : Holds(v, i)' = Holds(v, i)
  BY <1>1, StageKept DEF ImportInv, JobKept
<1>3. ASSUME NEW i \in ImportJob \ {j} PROVE ImportJobStands(i)'
  BY <1>2, ImportJobStandsOn DEF ImportInv
<1> QED
  BY <1>2, <1>3 DEF ImportInv

\* What a worker at work holds, and what a row in its hands is.
LEMMA AtWork ==
  ASSUME ImportInv, NEW w \in Worker, worker[w].at \in Work, NEW j, j = Head(worker[w].jobs)
  PROVE  /\ j \in ImportJob /\ Holds(w, j) /\ \A v \in Worker \ {w} : ~Holds(v, j)
         /\ worker[w].jobs \in Seq(ImportJob) /\ worker[w].jobs # <<>>
         /\ importJob[j].status = "PROCESSING" /\ importJob[j].lock = "fresh"
         /\ ~importJob[j].completed
<1>1. worker[w].jobs \in Seq(ImportJob) /\ worker[w].jobs # <<>>
  BY DEF ImportInv, Stage, Work
<1>2. j \in ImportJob /\ Holds(w, j)
  BY <1>1 DEF Holds, Work
<1> QED
  BY <1>1, <1>2 DEF ImportInv, ImportJobStands, Over

LEMMA TailOfMany ==
  ASSUME NEW S, NEW s \in Seq(S), Len(s) > 1 PROVE Tail(s) \in Seq(S) /\ Tail(s) # <<>>
<1>1. Tail(s) \in Seq(S) /\ Len(Tail(s)) = Len(s) - 1 /\ Len(s) \in Nat
  OBVIOUS
<1>2. Len(Tail(s)) # 0 /\ Len(<<>>) = 0
  BY <1>1
<1> QED
  BY <1>1, <1>2

\* After a candidate a worker holds nothing.
LEMMA NextJobFacts ==
  ASSUME NEW w \in Worker, worker[w].jobs \in Seq(ImportJob), worker[w].jobs # <<>>,
         worker'[w] = NextJob(w)
  PROVE  Stage(worker[w])' /\ \A i : ~Holds(w, i)'
<1>1. CASE Len(worker[w].jobs) > 1
  <2>1. Tail(worker[w].jobs) \in Seq(ImportJob) /\ Tail(worker[w].jobs) # <<>>
    BY <1>1, TailOfMany
  <2>2. worker'[w].at = "claim" /\ worker'[w].jobs = Tail(worker[w].jobs)
    BY <1>1 DEF NextJob
  <2> QED
    BY <2>1, <2>2 DEF Stage, Holds
<1>2. CASE ~(Len(worker[w].jobs) > 1)
  <2>1. worker'[w].at = "idle"
    BY <1>2 DEF NextJob, Idle
  <2> QED
    BY <2>1 DEF Stage, Holds
<1> QED
  BY <1>1, <1>2

\* A row is done: what is left of the batch is pending still.
LEMMA AfterRowFacts ==
  ASSUME ImportInv, NEW w \in Worker, NEW j, j = Head(worker[w].jobs),
         worker[w].at \in {"rows", "failed"}, NEW l \in Line,
         worker'[w] = AfterRow(w, l),
         \A k \in Line \ {l} : importRow'[j][k] = importRow[j][k]
  PROVE  Stage(worker[w])' /\ \A i : Holds(w, i)' => i = j
<1>1. /\ worker[w].jobs \in Seq(ImportJob) /\ worker[w].jobs # <<>>
      /\ worker[w].rows \subseteq Lines(j, "PENDING")
  BY DEF ImportInv, Stage
<1>2. /\ worker'[w].at \in {"rows", "load"} /\ worker'[w].jobs = worker[w].jobs
      /\ worker'[w].at = "rows" => worker'[w].rows = worker[w].rows \ {l}
  BY DEF AfterRow
<1>3. worker'[w].at = "rows" => worker'[w].rows \subseteq {k \in Line : importRow'[j][k] = "PENDING"}
  BY <1>1, <1>2 DEF Lines
<1>4. Head(worker'[w].jobs) = j
  BY <1>2
<1> QED
  BY <1>1, <1>2, <1>3, <1>4 DEF Stage, Holds, Lines, Work

----------------------------------------------------------------------------

LEMMA TickInv == ASSUME ImportInv, NEW w \in Worker, Tick(w) PROVE ImportInv'
<1>1. PICK jobs : /\ \E n \in 1 .. 3 : jobs \in [1 .. n -> ClaimableJobs]
                  /\ Goes(w, [at |-> "claim", jobs |-> jobs])
  BY DEF Tick
<1>2. jobs \in Seq(ImportJob) /\ jobs # <<>>
  BY <1>1 DEF ClaimableJobs
<1>3. worker'[w] = [at |-> "claim", jobs |-> jobs]
  BY <1>1, OneWorkerMoves DEF ImportInv
<1>4. Stage(worker[w])' /\ \A i : ~Holds(w, i)'
  BY <1>2, <1>3 DEF Stage, Holds
<1> QED
  BY <1>1, <1>4, WorkerMoves DEF Tick

LEMMA ClaimJobInv == ASSUME ImportInv, NEW w \in Worker, ClaimJob(w) PROVE ImportInv'
<1>0. PICK j : j = Head(worker[w].jobs)
  OBVIOUS
<1>1. /\ worker[w].jobs \in Seq(ImportJob) /\ worker[w].jobs # <<>> /\ j \in ImportJob
      /\ At(w, "claim") /\ UNCHANGED <<importRow, hired, announced, checked>>
  BY <1>0 DEF ClaimJob, At, ImportInv, Stage
<1>2. CASE j \in ClaimableJobs
  <2>1. /\ importJob' = [importJob EXCEPT ![j].status = "PROCESSING", ![j].lock = "fresh"]
        /\ Goes(w, [at |-> "load", jobs |-> worker[w].jobs])
    BY <1>0, <1>2 DEF ClaimJob
  <2>2. worker'[w] = [at |-> "load", jobs |-> worker[w].jobs]
    BY <2>1, OneWorkerMoves DEF ImportInv
  <2>3. Stage(worker[w])' /\ \A i : Holds(w, i)' => i = j
    BY <1>0, <1>1, <2>2 DEF Stage, Holds, Work
  <2>4. \A v \in Worker : ~Holds(v, j)
    BY <1>2 DEF ClaimableJobs, ImportInv, ImportJobStands
  <2>5. /\ importJob[j].status \in {"QUEUED", "PROCESSING"} /\ importJob' \in [ImportJob -> JobRow]
        /\ importJob'[j] = [importJob[j] EXCEPT !.status = "PROCESSING", !.lock = "fresh"]
        /\ \A i \in ImportJob \ {j} : importJob'[i] = importJob[i]
    BY <1>2, <2>1 DEF ClaimableJobs, ImportInv, ImportShape, JobRow, JobStatus
  <2>6. ImportJobStands(j)'
    <3>1. /\ importJob'[j].status = "PROCESSING" /\ importJob'[j].lock = "fresh"
          /\ importJob'[j].completed = importJob[j].completed
      BY <2>5 DEF ImportInv, ImportShape, JobRow
    <3>2. ~importJob[j].completed /\ j \notin checked
      BY <1>1, <2>5 DEF ImportInv, ImportJobStands, Over
    <3>3. \A st : Lines(j, st)' = Lines(j, st)
      BY <1>1, LinesKept
    <3> QED
      BY <1>1, <3>1, <3>2, <3>3 DEF ImportInv, ImportJobStands, Over
  <2>7. ImportShape'
    BY <1>1, <2>1, <2>5, OneWorkerMoves DEF ImportInv, ImportShape
  <2> QED
    BY <1>1, <2>1, <2>3, <2>4, <2>5, <2>6, <2>7, HolderMoves DEF JobKept
<1>3. CASE j \notin ClaimableJobs
  <2>1. Goes(w, NextJob(w)) /\ importJob' = importJob
    BY <1>0, <1>3 DEF ClaimJob
  <2>2. Stage(worker[w])' /\ \A i : ~Holds(w, i)'
    BY <1>1, <2>1, OneWorkerMoves, NextJobFacts DEF ImportInv
  <2> QED
    BY <1>1, <2>1, <2>2, WorkerMoves
<1> QED
  BY <1>2, <1>3

LEMMA LoadRowsInv == ASSUME ImportInv, NEW w \in Worker, LoadRows(w) PROVE ImportInv'
<1>0. PICK j : j = Head(worker[w].jobs)
  OBVIOUS
<1>1. /\ worker[w].at = "load" /\ UNCHANGED <<importRow, hired, announced, checked>>
      /\ j \in ImportJob /\ Holds(w, j) /\ \A v \in Worker \ {w} : ~Holds(v, j)
      /\ worker[w].jobs \in Seq(ImportJob) /\ worker[w].jobs # <<>>
      /\ importJob[j].status = "PROCESSING" /\ importJob[j].lock = "fresh"
      /\ ~importJob[j].completed
  BY <1>0, AtWork DEF LoadRows, At, Work
<1>2. \A i \in ImportJob : importRow'[i] = importRow[i]
  BY <1>1
<1>3. CASE Lines(j, "PENDING") = {}
  <2>1. Goes(w, [at |-> "count", jobs |-> worker[w].jobs]) /\ importJob' = importJob
    BY <1>0, <1>3 DEF LoadRows
  <2>2. worker'[w] = [at |-> "count", jobs |-> worker[w].jobs]
    BY <2>1, OneWorkerMoves DEF ImportInv
  <2>3. Stage(worker[w])' /\ \A i : Holds(w, i)' => Holds(w, i)
    BY <1>0, <1>1, <2>2 DEF Stage, Holds, Work
  <2> QED
    BY <1>1, <2>1, <2>3, WorkerMoves
<1>4. CASE Lines(j, "PENDING") # {}
  <2>1. /\ importJob' = [importJob EXCEPT ![j].lock = "fresh"]
        /\ Goes(w, [at |-> "rows", jobs |-> worker[w].jobs, rows |-> Batch(Lines(j, "PENDING"))])
    BY <1>0, <1>4 DEF LoadRows
  <2>2. worker'[w] = [at |-> "rows", jobs |-> worker[w].jobs, rows |-> Batch(Lines(j, "PENDING"))]
    BY <2>1, OneWorkerMoves DEF ImportInv
  <2>3. Batch(Lines(j, "PENDING")) \subseteq {l \in Line : importRow'[j][l] = "PENDING"}
    BY <1>1, <1>2 DEF Batch, Lines
  <2>4. Stage(worker[w])' /\ \A i : Holds(w, i)' => Holds(w, i)
    BY <1>0, <1>1, <2>2, <2>3 DEF Stage, Holds, Work, Lines
  <2>5. importJob' = importJob
    BY <1>1, <2>1 DEF ImportInv, ImportShape, JobRow
  <2> QED
    BY <1>1, <2>1, <2>4, <2>5, WorkerMoves
<1> QED
  BY <1>3, <1>4

\* A pending line of the job a worker holds gets an employee, or fails.
LEMMA LineDone ==
  ASSUME ImportInv, NEW w \in Worker, worker[w].at \in {"rows", "failed"}, NEW l \in Line,
         NEW j, j = Head(worker[w].jobs), NextLine(w, l), Goes(w, AfterRow(w, l)),
         NEW st \in {"CREATED", "FAILED"}, importRow' = [importRow EXCEPT ![j][l] = st],
         hired' = IF st = "CREATED" THEN [hired EXCEPT ![j][l] = @ + 1] ELSE hired,
         UNCHANGED <<importJob, announced, checked>>
  PROVE  ImportInv'
<1>1. /\ j \in ImportJob /\ \A v \in Worker \ {w} : ~Holds(v, j)
      /\ importJob[j].status = "PROCESSING" /\ importJob[j].lock = "fresh"
      /\ ~importJob[j].completed
  BY AtWork DEF Work
<1>2. importRow[j][l] = "PENDING"
  BY DEF NextLine, ImportInv, Stage, Lines
<1>3. /\ importRow' \in [ImportJob -> [Line -> {"PENDING", "CREATED", "FAILED"}]]
      /\ importRow'[j][l] = st /\ \A k \in Line \ {l} : importRow'[j][k] = importRow[j][k]
      /\ \A i \in ImportJob \ {j} : importRow'[i] = importRow[i]
  BY <1>1 DEF ImportInv, ImportShape
<1>4. /\ hired' \in [ImportJob -> [Line -> Nat]]
      /\ hired'[j][l] = IF st = "CREATED" THEN hired[j][l] + 1 ELSE hired[j][l]
      /\ \A k \in Line \ {l} : hired'[j][k] = hired[j][k]
      /\ \A i \in ImportJob \ {j} : hired'[i] = hired[i]
  BY <1>1 DEF ImportInv, ImportShape
<1>5. worker'[w] = AfterRow(w, l)
  BY OneWorkerMoves DEF ImportInv
<1>6. Stage(worker[w])' /\ \A i : Holds(w, i)' => i = j
  BY <1>3, <1>5, AfterRowFacts
<1>7. ImportJobStands(j)'
  <2>1. hired[j][l] = 0
    BY <1>1, <1>2 DEF ImportInv, ImportJobStands
  <2>2. \A k \in Line : hired'[j][k] = IF importRow'[j][k] = "CREATED" THEN 1 ELSE 0
    <3>1. \A k \in Line : hired[j][k] = IF importRow[j][k] = "CREATED" THEN 1 ELSE 0
      BY <1>1 DEF ImportInv, ImportJobStands
    <3>2. hired'[j][l] = IF importRow'[j][l] = "CREATED" THEN 1 ELSE 0
      BY <1>3, <1>4, <2>1
    <3>3. ASSUME NEW k \in Line \ {l}
          PROVE  hired'[j][k] = IF importRow'[j][k] = "CREATED" THEN 1 ELSE 0
      <4>1. importRow'[j][k] = importRow[j][k] /\ hired'[j][k] = hired[j][k]
        BY <1>3, <1>4
      <4> QED
        BY <3>1, <4>1
    <3> QED
      BY <3>2, <3>3
  <2> QED
    BY <1>1, <2>2 DEF ImportInv, ImportJobStands, Over
<1>8. ImportShape'
  BY <1>3, <1>4, OneWorkerMoves DEF ImportInv, ImportShape
<1> QED
  BY <1>1, <1>3, <1>4, <1>6, <1>7, <1>8, HolderMoves DEF JobKept

LEMMA ImportRowInv == ASSUME ImportInv, NEW w \in Worker, ImportRow(w) PROVE ImportInv'
<1>0. PICK j : j = Head(worker[w].jobs)
  OBVIOUS
<1>1. PICK l \in Line : /\ NextLine(w, l) /\ hired' = [hired EXCEPT ![j][l] = @ + 1]
                        /\ importRow' = [importRow EXCEPT ![j][l] = "CREATED"]
                        /\ Goes(w, AfterRow(w, l))
  BY <1>0 DEF ImportRow
<1> QED
  BY <1>0, <1>1, LineDone DEF ImportRow, At

LEMMA RecordFailureInv == ASSUME ImportInv, NEW w \in Worker, RecordFailure(w) PROVE ImportInv'
<1>0. PICK j : j = Head(worker[w].jobs)
  OBVIOUS
<1>1. PICK l \in Line : /\ NextLine(w, l) /\ Goes(w, AfterRow(w, l))
                        /\ importRow' = [importRow EXCEPT ![j][l] = "FAILED"]
  BY <1>0 DEF RecordFailure
<1> QED
  BY <1>0, <1>1, LineDone DEF RecordFailure, At

LEMMA ImportRowFailsInv == ASSUME ImportInv, NEW w \in Worker, ImportRowFails(w) PROVE ImportInv'
<1>1. /\ worker[w].at = "rows" /\ worker[w].jobs \in Seq(ImportJob) /\ worker[w].jobs # <<>>
      /\ worker[w].rows \subseteq Lines(Head(worker[w].jobs), "PENDING")
      /\ UNCHANGED <<importJob, importRow, hired, announced, checked>>
      /\ Goes(w, [at |-> "failed", jobs |-> worker[w].jobs, rows |-> worker[w].rows])
  BY DEF ImportRowFails, At, ImportInv, Stage
<1>2. worker'[w] = [at |-> "failed", jobs |-> worker[w].jobs, rows |-> worker[w].rows]
  BY <1>1, OneWorkerMoves DEF ImportInv
<1>3. Stage(worker[w])' /\ \A i : Holds(w, i)' => Holds(w, i)
  BY <1>1, <1>2 DEF Stage, Holds, Work, Lines
<1> QED
  BY <1>1, <1>3, WorkerMoves

LEMMA CountRowsInv == ASSUME ImportInv, NEW w \in Worker, CountRows(w) PROVE ImportInv'
<1>0. PICK j : j = Head(worker[w].jobs)
  OBVIOUS
<1>1. /\ worker[w].at = "count" /\ UNCHANGED <<importJob, importRow, hired, announced, checked>>
      /\ j \in ImportJob /\ Holds(w, j) /\ ~importJob[j].completed
      /\ worker[w].jobs \in Seq(ImportJob) /\ worker[w].jobs # <<>>
  BY <1>0, AtWork DEF CountRows, At, Work
<1>2. CASE Lines(j, "PENDING") # {}
  <2>1. Goes(w, NextJob(w))
    BY <1>0, <1>2 DEF CountRows
  <2>2. Stage(worker[w])' /\ \A i : ~Holds(w, i)'
    BY <1>1, <2>1, OneWorkerMoves, NextJobFacts DEF ImportInv
  <2> QED
    BY <1>1, <2>1, <2>2, WorkerMoves
<1>3. CASE Lines(j, "PENDING") = {}
  <2> DEFINE written == Outcome(Cardinality(Lines(j, "CREATED")), Cardinality(Lines(j, "FAILED")))
             stage == [at |-> "finalize", jobs |-> worker[w].jobs, created |-> Lines(j, "CREATED"),
                       status |-> written]
  <2>1. Goes(w, stage)
    BY <1>0, <1>1, <1>3 DEF CountRows
  <2>2. worker'[w] = stage
    BY <2>1, OneWorkerMoves DEF ImportInv
  <2>3. \A st : Lines(j, st)' = Lines(j, st)
    BY <1>1, LinesKept
  <2>4. /\ worker'[w].at = "finalize" /\ worker'[w].jobs = worker[w].jobs
        /\ worker'[w].created = Lines(j, "CREATED")' /\ Lines(j, "PENDING")' = {}
        /\ worker'[w].status = Outcome(Cardinality(Lines(j, "CREATED")'), Cardinality(Lines(j, "FAILED")'))
    BY <1>3, <2>2, <2>3
  <2>5. Stage(worker[w])' /\ \A i : Holds(w, i)' => Holds(w, i)
    BY <1>0, <1>1, <2>4 DEF Stage, Holds, Work
  <2> HIDE DEF stage
  <2> QED
    BY <1>1, <2>1, <2>5, WorkerMoves
<1> QED
  BY <1>2, <1>3

LEMMA FinalizeJobInv == ASSUME ImportInv, NEW w \in Worker, FinalizeJob(w) PROVE ImportInv'
<1>0. PICK j : j = Head(worker[w].jobs)
  OBVIOUS
<1>1. /\ worker[w].at = "finalize" /\ UNCHANGED <<importRow, hired, checked>>
      /\ j \in ImportJob /\ \A v \in Worker \ {w} : ~Holds(v, j)
      /\ worker[w].jobs \in Seq(ImportJob) /\ worker[w].jobs # <<>>
      /\ importJob[j].status = "PROCESSING" /\ ~importJob[j].completed
  BY <1>0, AtWork DEF FinalizeJob, At, Work
<1>2. /\ importJob' = [importJob EXCEPT
            ![j] = [status |-> worker[w].status, lock |-> "none", completed |-> TRUE]]
      /\ announced' = [announced EXCEPT ![j] = Append(@, worker[w].created)]
      /\ Goes(w, NextJob(w))
  BY <1>0 DEF FinalizeJob
<1>3. /\ Lines(j, "PENDING") = {} /\ worker[w].created = Lines(j, "CREATED")
      /\ worker[w].status = Outcome(Cardinality(Lines(j, "CREATED")), Cardinality(Lines(j, "FAILED")))
      /\ worker[w].status \in Over
  <2>1. Stage(worker[w])
    BY DEF ImportInv
  <2> QED
    BY <1>0, <1>1, <2>1, OutcomeIsOver DEF Stage
<1>4. Stage(worker[w])' /\ \A i : ~Holds(w, i)'
  BY <1>1, <1>2, OneWorkerMoves, NextJobFacts DEF ImportInv
<1>5. /\ importJob'[j] = [status |-> worker[w].status, lock |-> "none", completed |-> TRUE]
      /\ \A i \in ImportJob \ {j} : importJob'[i] = importJob[i]
      /\ importJob' \in [ImportJob -> JobRow]
  BY <1>1, <1>2, <1>3 DEF ImportInv, ImportShape, JobRow, JobStatus, Over
<1>6. /\ announced' = [i \in ImportJob |-> announced'[i]]
      /\ announced'[j] = <<Lines(j, "CREATED")>>
      /\ \A i \in ImportJob \ {j} : announced'[i] = announced[i]
  <2>1. announced[j] = <<>>
    BY <1>1 DEF ImportInv, ImportJobStands
  <2>2. Append(<<>>, Lines(j, "CREATED")) = <<Lines(j, "CREATED")>>
    OBVIOUS
  <2> QED
    BY <1>1, <1>2, <1>3, <2>1, <2>2 DEF ImportInv, ImportShape
<1>7. ImportJobStands(j)'
  <2>1. \A st : Lines(j, st)' = Lines(j, st)
    BY <1>1, LinesKept
  <2>2. \A v \in Worker : ~Holds(v, j)'
    <3>1. \A v \in Worker \ {w} : worker'[v] = worker[v]
      BY <1>2, OneWorkerMoves DEF ImportInv
    <3> QED
      BY <1>1, <1>4, <3>1 DEF Holds
  <2>3. j \notin checked
    BY <1>1 DEF ImportInv, ImportJobStands
  <2>4. \A l \in Line : hired'[j][l] = IF importRow'[j][l] = "CREATED" THEN 1 ELSE 0
    BY <1>1 DEF ImportInv, ImportJobStands
  <2> QED
    BY <1>1, <1>3, <1>5, <1>6, <2>1, <2>2, <2>3, <2>4 DEF ImportJobStands
<1>8. ImportShape'
  BY <1>1, <1>2, <1>5, <1>6, OneWorkerMoves DEF ImportInv, ImportShape
<1> QED
  BY <1>1, <1>2, <1>4, <1>5, <1>6, <1>7, <1>8, HolderMoves DEF JobKept

\* The steps that are not a worker's: one job's row, or its question, changes,
\* of a job no worker holds.
LEMMA JobRowMoves ==
  ASSUME ImportInv, NEW j \in ImportJob, ImportJobStands(j)', ImportShape',
         UNCHANGED <<importRow, hired, announced, worker>>,
         \A i \in ImportJob \ {j} : importJob'[i] = importJob[i] /\ (i \in checked' => i \in checked)
  PROVE  ImportInv'
<1>1. ASSUME NEW w \in Worker PROVE Stage(worker[w])' /\ \A i : Holds(w, i)' = Holds(w, i)
  BY StageKept DEF ImportInv
<1>2. ASSUME NEW i \in ImportJob \ {j} PROVE ImportJobStands(i)'
  BY <1>1, ImportJobStandsOn DEF ImportInv, JobKept
<1> QED
  BY <1>1, <1>2 DEF ImportInv

LEMMA ImportNextInv ==
  SlowWorkersKeepLock /\ ImportInv /\ [ImportNext]_importVars => ImportInv'
<1> SUFFICES ASSUME SlowWorkersKeepLock, ImportInv, [ImportNext]_importVars PROVE ImportInv'
  OBVIOUS
<1>1. ASSUME NEW j \in ImportJob, CommitImportRead(j) PROVE ImportInv'
  <2>1. ImportJobStands(j)'
    <3>1. \A st : Lines(j, st)' = Lines(j, st)
      BY <1>1, LinesKept DEF CommitImportRead
    <3> QED
      BY <1>1, <3>1 DEF CommitImportRead, ImportInv, ImportJobStands, Holds
  <2>2. ImportShape'
    BY <1>1 DEF CommitImportRead, ImportInv, ImportShape
  <2> QED
    BY <1>1, <2>1, <2>2, JobRowMoves DEF CommitImportRead
<1>2. ASSUME NEW j \in ImportJob, CommitImportWrite(j) PROVE ImportInv'
  <2>1. importJob' = [importJob EXCEPT ![j].status = "QUEUED"] /\ importJob[j].status = "NONE"
    BY <1>2 DEF CommitImportWrite, ImportInv, ImportJobStands
  <2>2. /\ importJob' \in [ImportJob -> JobRow] /\ importJob'[j].status = "QUEUED"
        /\ importJob'[j].completed = importJob[j].completed
        /\ \A i \in ImportJob \ {j} : importJob'[i] = importJob[i]
    BY <2>1 DEF ImportInv, ImportShape, JobRow, JobStatus
  <2>3. \A w \in Worker : ~Holds(w, j)
    BY <2>1 DEF ImportInv, ImportJobStands
  <2>4. ImportJobStands(j)'
    <3>1. \A st : Lines(j, st)' = Lines(j, st)
      BY <1>2, LinesKept DEF CommitImportWrite
    <3>2. ~importJob[j].completed
      BY <2>1 DEF ImportInv, ImportJobStands, Over
    <3> QED
      BY <1>2, <2>2, <2>3, <3>1, <3>2 DEF CommitImportWrite, ImportInv, ImportJobStands, Holds, Over
  <2>5. ImportShape'
    BY <1>2, <2>2 DEF CommitImportWrite, ImportInv, ImportShape
  <2> QED
    BY <1>2, <2>2, <2>4, <2>5, JobRowMoves DEF CommitImportWrite
<1>3. ASSUME NEW j \in ImportJob, LockGoesStale(j) PROVE ImportInv'
  <2>1. /\ importJob' = [importJob EXCEPT ![j].lock = "stale"]
        /\ \A w \in Worker : ~Holds(w, j)
    BY <1>3 DEF LockGoesStale
  <2>2. /\ importJob' \in [ImportJob -> JobRow] /\ importJob'[j].status = importJob[j].status
        /\ importJob'[j].completed = importJob[j].completed
        /\ \A i \in ImportJob \ {j} : importJob'[i] = importJob[i]
    BY <2>1 DEF ImportInv, ImportShape, JobRow, JobStatus
  <2>3. ImportJobStands(j)'
    <3>1. \A st : Lines(j, st)' = Lines(j, st)
      BY <1>3, LinesKept DEF LockGoesStale
    <3> QED
      BY <1>3, <2>1, <2>2, <3>1 DEF LockGoesStale, ImportInv, ImportJobStands, Holds
  <2>4. ImportShape'
    BY <1>3, <2>2 DEF LockGoesStale, ImportInv, ImportShape
  <2> QED
    BY <1>3, <2>2, <2>3, <2>4, JobRowMoves DEF LockGoesStale
<1>4. ASSUME UNCHANGED <<importJob, importRow, hired, announced, checked, worker>> PROVE ImportInv'
  <2>1. ASSUME NEW w \in Worker PROVE Stage(worker[w])' /\ \A i : Holds(w, i)' = Holds(w, i)
    BY <1>4, StageKept DEF ImportInv
  <2>2. ASSUME NEW j \in ImportJob PROVE ImportJobStands(j)'
    BY <1>4, <2>1, ImportJobStandsOn DEF ImportInv, JobKept
  <2> QED
    BY <1>4, <2>1, <2>2 DEF ImportInv, ImportShape
<1>5. ASSUME NEW j \in ImportJob, NEW blocked, RollbackImport(j, blocked) PROVE ImportInv'
  BY <1>4, <1>5 DEF RollbackImport
<1>6. ASSUME NEW w \in Worker, Goes(w, Idle) \/ Goes(w, Down),
             UNCHANGED <<importJob, importRow, hired, announced, checked>>
      PROVE  ImportInv'
  <2>1. worker'[w].at \in {"idle", "down"}
    BY <1>6, OneWorkerMoves DEF ImportInv, Idle, Down
  <2>2. Stage(worker[w])' /\ \A i : ~Holds(w, i)'
    BY <2>1 DEF Stage, Holds
  <2> QED
    BY <1>6, <2>2, WorkerMoves
<1>7. ASSUME NEW w \in Worker, WorkerGivesUp(w) \/ WorkerCrashes(w) \/ WorkerRestarts(w)
      PROVE  ImportInv'
  BY <1>6, <1>7 DEF WorkerGivesUp, WorkerCrashes, WorkerRestarts
<1>8. ASSUME NEW w \in Worker, WorkerStep(w) PROVE ImportInv'
  BY <1>8, TickInv, ClaimJobInv, LoadRowsInv, ImportRowInv, ImportRowFailsInv,
     RecordFailureInv, CountRowsInv, FinalizeJobInv DEF WorkerStep
<1>9. CASE UNCHANGED importVars
  BY <1>4, <1>9 DEF importVars
<1>10. CASE ImportNext
  BY <1>1, <1>2, <1>3, <1>5, <1>7, <1>8, <1>10 DEF ImportNext
<1> QED
  BY <1>9, <1>10

LEMMA ImportInvImports == ImportInv => ImportedOnce
<1> SUFFICES ASSUME ImportInv, NEW j \in ImportJob
             PROVE  /\ Len(announced[j]) <= 1 /\ \A l \in Line : hired[j][l] <= 1
                    /\ importJob[j].completed =>
                         LET made == {l \in Line : hired[j][l] = 1} IN
                         /\ announced[j] = <<made>> /\ Lines(j, "PENDING") = {}
                         /\ importJob[j].status = Outcome(Cardinality(made), Cardinality(Line \ made))
  BY DEF ImportedOnce
<1>1. ImportJobStands(j)
  BY DEF ImportInv
<1>2. Len(announced[j]) <= 1
  BY <1>1 DEF ImportJobStands
<1>3. \A l \in Line : hired[j][l] <= 1
  BY <1>1 DEF ImportJobStands
<1>4. {l \in Line : hired[j][l] = 1} = Lines(j, "CREATED")
  BY <1>1 DEF ImportJobStands, Lines
<1>5. ASSUME importJob[j].completed PROVE Line \ Lines(j, "CREATED") = Lines(j, "FAILED")
  BY <1>1, <1>5 DEF ImportJobStands, Lines, ImportInv, ImportShape
<1> QED
  BY <1>1, <1>2, <1>3, <1>4, <1>5 DEF ImportJobStands

\* A worker that is alive keeps its lock: then a line of a file is imported once,
\* for any number of jobs, lines and workers that die anywhere, and the outcome
\* and the event of a job name the lines that have an employee.
THEOREM LinesImportedOnce == ImportSpec => []ImportedOnce
<1>1. CASE SlowWorkersKeepLock
  BY <1>1, ImportInitInv, ImportNextInv, ImportInvImports, PTL DEF ImportSpec
<1>2. CASE ~SlowWorkersKeepLock
  <2>1. ImportedOnce
    BY <1>2 DEF ImportedOnce
  <2> QED
    BY <2>1, PTL
<1> QED
  BY <1>1, <1>2
=============================================================================
