-------------------------------- MODULE Accounts --------------------------------
(***************************************************************************)
(* Accounts, the identities and memberships behind them, and the persons and *)
(* employments they are linked to: auth/auth.service.ts, the account links   *)
(* of employees/employees.service.ts, persons/persons.service.ts and the     *)
(* first administrator of tenants/tenants.service.ts.                        *)
(*                                                                         *)
(* Persons and employments are those of one tenant, an account Elsewhere is a *)
(* user of another one.  Accounts with one address share an identity.  What   *)
(* a handler reads of an account it writes into identity and membership      *)
(* later; everything else of a handler is one action.  Invitations and       *)
(* sessions are in Sessions.                                                *)
(***************************************************************************)
EXTENDS FiniteSets

CONSTANTS UserAccount, Elsewhere, Email,
          EmailOf(_),          \* the address of an account
          Human, Employment,
          HumanOf(_),          \* the person of an employment
          Linker,              \* handlers between reading an account and writing
          PersonsKeepAccounts, \* updatePerson takes no account away, and none an employee has
          NoAccount, NoHuman, NoEmployment, Idling

ASSUME AccountsAssumption ==
  /\ Elsewhere \subseteq UserAccount /\ PersonsKeepAccounts \in BOOLEAN
  /\ \A u \in UserAccount : EmailOf(u) \in Email
  /\ \A e \in Employment : HumanOf(e) \in Human

VARIABLES user,       \* User rows
          identity,   \* Identity rows, by email
          membership, \* TenantMembership.status, by user, or "NONE"
          human,      \* Person rows
          employment, \* Employee rows
          linker

accountVars == <<user, identity, membership, human, employment, linker>>

UserRow == [status : {"INVITED", "ACTIVE"}, password : BOOLEAN, linked : BOOLEAN]
IdentityRow == [status : {"INVITED", "ACTIVE"}, password : BOOLEAN]
HumanRow == [account : UserAccount \cup {NoAccount}, deleted : BOOLEAN]

ASSUME AbsenceIsNoRow ==
  /\ NoAccount \notin UserAccount /\ NoAccount \notin UserRow /\ NoAccount \notin IdentityRow
  /\ NoHuman \notin HumanRow /\ NoEmployment \notin HumanRow

AccountsTypeOK ==
  /\ user \in [UserAccount -> UserRow \cup {NoAccount}]
  /\ identity \in [Email -> IdentityRow \cup {NoAccount}]
  /\ membership \in [UserAccount -> {"NONE", "INVITED", "ACTIVE"}]
  /\ human \in [Human -> HumanRow \cup {NoHuman}]
  /\ employment \in [Employment -> HumanRow \cup {NoEmployment}]

\* Seeded accounts have a password and no identity yet.
AccountsInit ==
  /\ user \in [UserAccount -> {NoAccount, [status |-> "ACTIVE", password |-> TRUE, linked |-> FALSE]}]
  /\ identity = [m \in Email |-> NoAccount]
  /\ membership = [u \in UserAccount |-> "NONE"]
  /\ human = [h \in Human |-> NoHuman]
  /\ employment = [e \in Employment |-> NoEmployment]
  /\ linker = [l \in Linker |-> Idling]

Known(u) == user[u] # NoAccount
Present(h) == human[h] # NoHuman /\ ~human[h].deleted
Serving(e) == employment[e] # NoEmployment /\ ~employment[e].deleted

----------------------------------------------------------------------------
\* Identities and memberships.

\* Mutant: the identity takes over whatever the account is.
IdentityTakingOver(m, row) == [identity EXCEPT ![m] = [status |-> row.status, password |-> row.password]]

\* ensureAccountIdentityMembership: the upsert of an identity, which never goes
\* back; `row` is the account as it was read.
IdentityWith(m, row) ==
  [identity EXCEPT ![m] =
    IF @ = NoAccount THEN [status |-> row.status, password |-> row.password]
    ELSE [status |-> IF row.status = "ACTIVE" THEN "ACTIVE" ELSE @.status,
          password |-> @.password \/ row.password]]

\* createTenant: the first administrator, invited or with a password.
NewRow(password) ==
  [status |-> IF password THEN "ACTIVE" ELSE "INVITED", password |-> password, linked |-> TRUE]

CreateTenantAdmin(u, password) ==
  /\ u \in Elsewhere /\ ~Known(u)
  /\ user' = [user EXCEPT ![u] = NewRow(password)]
  /\ identity' = IdentityWith(EmailOf(u), NewRow(password))
  /\ membership' = [membership EXCEPT ![u] = NewRow(password).status]
  /\ UNCHANGED <<human, employment, linker>>

\* acceptInvitation, in its transaction.
AcceptInvitation(u) ==
  /\ Known(u) /\ user[u].status = "INVITED"
  /\ user' = [user EXCEPT ![u] = NewRow(TRUE)]
  /\ identity' = [identity EXCEPT ![EmailOf(u)] = [status |-> "ACTIVE", password |-> TRUE]]
  /\ membership' = [membership EXCEPT ![u] = "ACTIVE"]
  /\ UNCHANGED <<human, employment, linker>>

\* resolveLoginContext and validateAccessToken read the account, and ...
ResolveRead(l, u) ==
  /\ linker[l] = Idling /\ Known(u)
  /\ linker' = [linker EXCEPT ![l] = [op |-> "resolve", account |-> u, row |-> user[u]]]
  /\ UNCHANGED <<user, identity, membership, human, employment>>

\* ... ensureUserIdentityContext makes up for what is missing or differs.  Whether
\* the identity has a password is asked of it as it is now: none is taken away, and
\* one that is there is only written again.
ResolveWrite(l) ==
  /\ linker[l] # Idling /\ linker[l].op = "resolve"
  /\ LET u == linker[l].account
         row == linker[l].row
         m == EmailOf(u) IN
     /\ IF ~row.linked
        THEN identity' = IdentityWith(m, row) /\ user' = [user EXCEPT ![u].linked = TRUE]
        ELSE /\ identity' = IF row.password /\ ~identity[m].password THEN IdentityWith(m, row) ELSE identity
             /\ UNCHANGED user
     /\ membership' = [membership EXCEPT ![u] = row.status]
  /\ linker' = [linker EXCEPT ![l] = Idling]
  /\ UNCHANGED <<human, employment>>

----------------------------------------------------------------------------
\* Links.

\* The unique indexes on userId of Employee and Person count deleted rows too.
EmploymentIndex(e, u) ==
  \A f \in Employment \ {e} : u # NoAccount /\ employment[f] # NoEmployment => employment[f].account # u
HumanIndex(h, u) ==
  \A g \in Human \ {h} : u # NoAccount /\ human[g] # NoHuman => human[g].account # u

\* validateUserReference.
ValidUserReference(e, u) ==
  u # NoAccount => /\ human[HumanOf(e)].account \in {NoAccount, u}
                   /\ Known(u) /\ u \notin Elsewhere
                   /\ \A f \in Employment \ {e} : Serving(f) => employment[f].account # u

\* The employment gets the account, and the person if it has none.
Assigns(e, u) ==
  LET h == HumanOf(e) IN
  /\ EmploymentIndex(e, u)
  /\ employment' = [employment EXCEPT ![e] = [account |-> u, deleted |-> FALSE]]
  /\ IF u # NoAccount /\ human[h].account = NoAccount
     THEN HumanIndex(h, u) /\ human' = [human EXCEPT ![h].account = u]
     ELSE UNCHANGED human
  /\ UNCHANGED <<user, identity, membership, linker>>

\* assertNoConcurrentEmployment.
CreateEmployee(e, u) ==
  /\ employment[e] = NoEmployment /\ Present(HumanOf(e))
  /\ \A f \in Employment : Serving(f) => HumanOf(f) # HumanOf(e)
  /\ ValidUserReference(e, u) /\ Assigns(e, u)

UpdateEmployee(e, u) == Serving(e) /\ ValidUserReference(e, u) /\ Assigns(e, u)

ArchiveEmployee(e) ==
  /\ Serving(e) /\ employment' = [employment EXCEPT ![e].deleted = TRUE]
  /\ UNCHANGED <<user, identity, membership, human, linker>>

\* rehireEmployee asks neither for the account nor for the person.
RehireEmployee(e) ==
  /\ employment[e] # NoEmployment /\ employment[e].deleted
  /\ employment' = [employment EXCEPT ![e].deleted = FALSE]
  /\ UNCHANGED <<user, identity, membership, human, linker>>

\* linkEmployeeAccount, of an account that exists or is created with or without
\* a password (resolveEmployeeAccountUser).
LinkRead(l, e, u, password) ==
  /\ linker[l] = Idling /\ Serving(e) /\ u \notin Elsewhere
  /\ LET row == IF Known(u) THEN user[u] ELSE NewRow(password) IN
     linker' = [linker EXCEPT ![l] = [op |-> "link", account |-> u, row |-> row, employment |-> e,
                                    new |-> ~Known(u)]]
  /\ UNCHANGED <<user, identity, membership, human, employment>>

LinkWrite(l) ==
  /\ linker[l] # Idling /\ linker[l].op = "link"
  /\ LET u == linker[l].account
         row == linker[l].row
         e == linker[l].employment
         h == HumanOf(e) IN
     /\ linker[l].new => ~Known(u)
     /\ employment[e].account \in {NoAccount, u}
     /\ human[h].account \in {NoAccount, u}
     /\ EmploymentIndex(e, u) /\ HumanIndex(h, u)
     /\ employment' = [employment EXCEPT ![e].account = u]
     /\ human' = [human EXCEPT ![h].account = u]
     /\ identity' = IdentityWith(EmailOf(u), row)
     /\ user' = [user EXCEPT ![u] = IF @ = NoAccount THEN row ELSE [@ EXCEPT !.linked = TRUE]]
     /\ membership' = [membership EXCEPT ![u] = row.status]
  /\ linker' = [linker EXCEPT ![l] = Idling]

LinkerStops(l) ==
  /\ linker[l] # Idling /\ linker' = [linker EXCEPT ![l] = Idling]
  /\ UNCHANGED <<user, identity, membership, human, employment>>

----------------------------------------------------------------------------
\* Persons: validatePersonReferences asks whether the account is one of the
\* tenant, and for nothing else.
ValidPersonReference(u) == u # NoAccount => Known(u) /\ u \notin Elsewhere

CreateHuman(h, u) ==
  /\ human[h] = NoHuman /\ ValidPersonReference(u) /\ HumanIndex(h, u)
  /\ human' = [human EXCEPT ![h] = [account |-> u, deleted |-> FALSE]]
  /\ UNCHANGED <<user, identity, membership, employment, linker>>

UpdateHuman(h, u) ==
  /\ Present(h) /\ u # NoAccount /\ ValidPersonReference(u) /\ HumanIndex(h, u)
  /\ PersonsKeepAccounts => human[h].account = NoAccount
  /\ human' = [human EXCEPT ![h].account = u]
  /\ UNCHANGED <<user, identity, membership, employment, linker>>

DeleteHuman(h) ==
  /\ Present(h) /\ \A e \in Employment : Serving(e) => HumanOf(e) # h
  /\ human' = [human EXCEPT ![h].deleted = TRUE]
  /\ UNCHANGED <<user, identity, membership, employment, linker>>

----------------------------------------------------------------------------
AccountsNext ==
  \/ \E u \in UserAccount :
       \/ \E password \in BOOLEAN : CreateTenantAdmin(u, password)
       \/ AcceptInvitation(u)
       \/ \E l \in Linker : \/ ResolveRead(l, u)
                            \/ \E e \in Employment, password \in BOOLEAN : LinkRead(l, e, u, password)
  \/ \E l \in Linker : ResolveWrite(l) \/ LinkWrite(l) \/ LinkerStops(l)
  \/ \E u \in UserAccount \cup {NoAccount} :
       \/ \E e \in Employment : CreateEmployee(e, u) \/ UpdateEmployee(e, u)
       \/ \E h \in Human : CreateHuman(h, u) \/ UpdateHuman(h, u)
  \/ \E e \in Employment : ArchiveEmployee(e) \/ RehireEmployee(e)
  \/ \E h \in Human : DeleteHuman(h)

AccountsSpec == AccountsInit /\ [][AccountsNext]_accountVars

----------------------------------------------------------------------------
\* Properties.

\* selfEmployeeWhere finds the employees who act through an account by the
\* account of the employment or of the person: all are one person, however
\* links, persons and employments came about, if persons keep their accounts.
ActingThrough(u) == {e \in Employment : Serving(e) /\ u \in {employment[e].account, human[HumanOf(e)].account}}

AccountIsOnePerson ==
  PersonsKeepAccounts => \A u \in UserAccount : \A e, f \in ActingThrough(u) : HumanOf(e) = HumanOf(f)

\* What login asks of the identity: an account that was set up, and is linked,
\* has an identity that is ACTIVE and has a password, also if handlers that
\* read the account before it was set up write afterwards, and whatever happens
\* to other accounts with the same address.
ActiveAccountSignsIn ==
  \A u \in UserAccount : Known(u) /\ user[u].linked /\ user[u].status = "ACTIVE" =>
    identity[EmailOf(u)] = [status |-> "ACTIVE", password |-> TRUE]
=============================================================================
