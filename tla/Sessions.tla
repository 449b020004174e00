------------------------------- MODULE Sessions -------------------------------
(***************************************************************************)
(* Accounts, invitations and credentials: auth/auth.service.ts, and the    *)
(* account links of employees/employees.service.ts that invite.            *)
(*                                                                         *)
(* A credential is what issueCredentials writes: a session and a refresh    *)
(* token, each live, revoked or expired.  Hashes, cookies, devices and the  *)
(* login history are left out; a token is known by its row.  Two history    *)
(* variables: `login`, the credential that a chain of refreshes began with, *)
(* and `crossed`, the chains two refreshes of which were under way at once. *)
(* refresh, acceptInvitation and the link of an account ask first and write *)
(* in a later statement, without asking again, whatever is done meanwhile.  *)
(***************************************************************************)
EXTENDS Integers, FiniteSets

CONSTANTS Account,        \* users of one identity, one in each workspace
          Credential, Invitation,
          AuthHandler,    \* refresh, acceptInvitation and linkAccount between question and write
          NoCredential, Resting

VARIABLES account,     \* User.status; it has a password when it is ACTIVE
          invitation,  \* Invitation rows
          session,     \* Session.revokedAt and expiresAt
          refresh,     \* RefreshToken.revokedAt and expiresAt
          owner,       \* the account of a credential
          login,       \* the first credential of its chain
          crossed,     \* the chains whose refreshes have overlapped
          asking       \* what a handler has read

sessionVars == <<account, invitation, session, refresh, owner, login, crossed, asking>>

TokenState == {"none", "live", "revoked", "expired"}
InvitationStatus == {"NONE", "PENDING", "ACCEPTED", "EXPIRED", "REVOKED"}

SessionsTypeOK ==
  /\ account \in [Account -> {"INVITED", "ACTIVE"}]
  /\ invitation \in [Invitation -> [status : InvitationStatus, account : Account, expired : BOOLEAN]]
  /\ session \in [Credential -> TokenState] /\ refresh \in [Credential -> TokenState]
  /\ login \in [Credential -> Credential \cup {NoCredential}] /\ crossed \subseteq Credential
  /\ \A c \in Credential : refresh[c] = "none" <=> login[c] = NoCredential

\* The account of a row that is not there yet.
Nobody == CHOOSE u \in Account : TRUE

SessionsInit ==
  /\ account \in [Account -> {"INVITED", "ACTIVE"}]
  /\ invitation = [i \in Invitation |->
                     [status |-> "NONE", account |-> Nobody, expired |-> FALSE]]
  /\ session = [c \in Credential |-> "none"] /\ refresh = session
  /\ owner = [c \in Credential |-> Nobody]
  /\ login = [c \in Credential |-> NoCredential] /\ crossed = {}
  /\ asking = [h \in AuthHandler |-> Resting]

Asks(h, t) == asking[h] = Resting /\ asking' = [asking EXCEPT ![h] = t]
Has(h, op) == asking[h] # Resting /\ asking[h].op = op
Answers(h) == asking' = [asking EXCEPT ![h] = Resting]

RevokedIn(table, cs) ==
  [c \in Credential |-> IF c \in cs /\ table[c] \in {"live", "expired"} THEN "revoked" ELSE table[c]]

----------------------------------------------------------------------------
\* Accounts and invitations.

\* resendEmployeeAccountInvitation, and linkEmployeeAccount of an account that
\* has no password: what was pending is revoked.
InviteRead(h, u) ==
  /\ account[u] = "INVITED"
  /\ Asks(h, [op |-> "invite", account |-> u])
  /\ UNCHANGED <<account, invitation, session, refresh, owner, login, crossed>>

InviteCommit(h, i) ==
  /\ Has(h, "invite") /\ invitation[i].status = "NONE"
  /\ invitation' = [j \in Invitation |->
       IF j = i THEN [status |-> "PENDING", account |-> asking[h].account, expired |-> FALSE]
       ELSE IF invitation[j].status = "PENDING" /\ invitation[j].account = asking[h].account
       THEN [invitation[j] EXCEPT !.status = "REVOKED"] ELSE invitation[j]]
  /\ Answers(h)
  /\ UNCHANGED <<account, session, refresh, owner, login, crossed>>

AcceptInvitationRead(h, i) ==
  /\ invitation[i].status = "PENDING"
  /\ IF invitation[i].expired
     THEN invitation' = [invitation EXCEPT ![i].status = "EXPIRED"] /\ UNCHANGED asking
     ELSE Asks(h, [op |-> "accept", id |-> i]) /\ UNCHANGED invitation
  /\ UNCHANGED <<account, session, refresh, owner, login, crossed>>

AcceptInvitationCommit(h) ==
  /\ Has(h, "accept")
  /\ account' = [account EXCEPT ![invitation[asking[h].id].account] = "ACTIVE"]
  /\ invitation' = [invitation EXCEPT ![asking[h].id].status = "ACCEPTED"]
  /\ Answers(h)
  /\ UNCHANGED <<session, refresh, owner, login, crossed>>

InvitationExpires(i) ==
  /\ invitation[i].status = "PENDING"
  /\ invitation' = [invitation EXCEPT ![i].expired = TRUE]
  /\ UNCHANGED <<account, session, refresh, owner, login, crossed, asking>>

----------------------------------------------------------------------------
\* Credentials.

\* issueCredentials, for account u in the chain of `first`.  The tables are
\* those after what the same transaction has revoked.
IssueCredentials(c, u, first, sessions, refreshes) ==
  /\ refresh[c] = "none"
  /\ session' = [sessions EXCEPT ![c] = "live"]
  /\ refresh' = [refreshes EXCEPT ![c] = "live"]
  /\ owner' = [owner EXCEPT ![c] = u]
  /\ login' = [login EXCEPT ![c] = first]

Login(u, c) ==
  /\ account[u] = "ACTIVE"
  /\ IssueCredentials(c, u, c, session, refresh)
  /\ UNCHANGED <<account, invitation, crossed, asking>>

\* The refreshes of a chain that have passed the check and not yet written.
Refreshing(first) == {h \in AuthHandler : Has(h, "refresh") /\ login[asking[h].id] = first}

\* A token that is not live any more ends every credential of the identity; a
\* live one lets any number of refreshes through.
RefreshRead(h, c) ==
  /\ refresh[c] # "none"
  /\ IF refresh[c] # "live"
     THEN /\ session' = RevokedIn(session, Credential) /\ refresh' = RevokedIn(refresh, Credential)
          /\ UNCHANGED <<crossed, asking>>
     ELSE /\ account[owner[c]] = "ACTIVE"
          /\ Asks(h, [op |-> "refresh", id |-> c])
          /\ crossed' = IF Refreshing(login[c]) = {} THEN crossed ELSE crossed \cup {login[c]}
          /\ UNCHANGED <<session, refresh>>
  /\ UNCHANGED <<account, invitation, owner, login>>

\* Mutant: the token that was presented stays.
RefreshKeeping(h, new) ==
  /\ Has(h, "refresh")
  /\ LET c == asking[h].id IN IssueCredentials(new, owner[c], login[c], session, refresh)
  /\ Answers(h)
  /\ UNCHANGED <<account, invitation, crossed>>

\* The old token is revoked by id; its session runs on until it expires.
RefreshCommit(h, new) ==
  /\ Has(h, "refresh")
  /\ LET c == asking[h].id IN
     IssueCredentials(new, owner[c], login[c], session, RevokedIn(refresh, {c}))
  /\ Answers(h)
  /\ UNCHANGED <<account, invitation, crossed>>

\* A handler that fails, or whose process ends, writes nothing.
AuthStops(h) ==
  /\ asking[h] # Resting /\ Answers(h)
  /\ UNCHANGED <<account, invitation, session, refresh, owner, login, crossed>>

\* logout: of the session, the refresh token or both, as the cookies say.
Logout(withSession, withRefresh) ==
  /\ session' = RevokedIn(session, withSession) /\ refresh' = RevokedIn(refresh, withRefresh)
  /\ UNCHANGED <<account, invitation, owner, login, crossed, asking>>

LogoutAll ==
  /\ session' = RevokedIn(session, Credential) /\ refresh' = RevokedIn(refresh, Credential)
  /\ UNCHANGED <<account, invitation, owner, login, crossed, asking>>

RevokeSession(c) == Logout({c}, {})

\* The other sessions of the user, and the other refresh tokens when the
\* request brings one.
RevokeOtherSessions(c, withRefresh) ==
  LET others == {d \in Credential : d # c /\ owner[d] = owner[c]} IN
  /\ session[c] = "live"
  /\ Logout(others, IF withRefresh THEN others ELSE {})

\* switchWorkspace: the credentials that the request brings are revoked and
\* others are issued for the account in the other workspace.
SwitchWorkspace(c, u, withRefresh, new) ==
  /\ session[c] = "live" /\ account[owner[c]] = "ACTIVE" /\ account[u] = "ACTIVE"
  /\ IssueCredentials(new, u, new, RevokedIn(session, {c}),
                      RevokedIn(refresh, IF withRefresh THEN {c} ELSE {}))
  /\ UNCHANGED <<account, invitation, crossed, asking>>

TokenExpires(c) ==
  /\ \/ session[c] = "live" /\ session' = [session EXCEPT ![c] = "expired"] /\ UNCHANGED refresh
     \/ refresh[c] = "live" /\ refresh' = [refresh EXCEPT ![c] = "expired"] /\ UNCHANGED session
  /\ UNCHANGED <<account, invitation, owner, login, crossed, asking>>

SessionsNext ==
  \/ \E u \in Account, c \in Credential : Login(u, c)
  \/ \E h \in AuthHandler :
       \/ \E u \in Account : InviteRead(h, u)
       \/ \E i \in Invitation : InviteCommit(h, i) \/ AcceptInvitationRead(h, i)
       \/ AcceptInvitationCommit(h) \/ AuthStops(h)
       \/ \E c \in Credential : RefreshRead(h, c) \/ RefreshCommit(h, c)
  \/ \E i \in Invitation : InvitationExpires(i)
  \/ \E c \in Credential :
       \/ RevokeSession(c) \/ TokenExpires(c)
       \/ \E with \in {{}, {c}} : Logout(with, {c})
       \/ \E b \in BOOLEAN : RevokeOtherSessions(c, b)
       \/ \E u \in Account, b \in BOOLEAN, new \in Credential : SwitchWorkspace(c, u, b, new)
  \/ LogoutAll

SessionsSpec == SessionsInit /\ [][SessionsNext]_sessionVars

----------------------------------------------------------------------------
\* Properties.

\* Refresh token rotation: of a login and the refreshes that follow it, one
\* refresh token is live at most, whatever is revoked, switched or expires
\* meanwhile, unless two refreshes of it overlapped: for refresh looks whether
\* the token is live before the transaction that revokes it.
OneLiveTokenPerLogin ==
  \A c, d \in Credential :
    c # d /\ refresh[c] = "live" /\ refresh[d] = "live" /\ login[c] = login[d]
      => login[c] \in crossed
=============================================================================
