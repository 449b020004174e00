---------------------------- MODULE Delegations ----------------------------
(***************************************************************************)
(* The table of approval delegations and its three handlers in            *)
(* workflows/approvals.service.ts: createDelegation, updateDelegation and  *)
(* deleteDelegation.  A delegation lets its target act, inside a time     *)
(* window and for one module or for all of them, on the approval steps    *)
(* assigned to its source.                                                 *)
(*                                                                         *)
(* One tenant is modelled.  Calendar time is abstracted to the position of *)
(* "now" relative to the row's [startsAt, endsAt) window.  An update is a  *)
(* transaction of two statements, a read and a write by id, and other      *)
(* handlers run between them: the database is PostgreSQL at its default    *)
(* READ COMMITTED level and nothing locks the row that was read.           *)
(***************************************************************************)
EXTENDS Naturals

CONSTANTS User,          \* the users of the tenant
          NoOne,         \* the null user (and the null approver)
          DelegationId,  \* row slots of the Delegation table
          NoDelegation,  \* an unused slot
          DelegationProc,\* concurrent updateDelegation calls
          NoCall         \* an idle call slot

VARIABLES delegation,    \* [DelegationId -> row or NoDelegation]
          delegationCall \* updates between their read and their write

delegationVars == <<delegation, delegationCall>>

Module == {"any", "this", "other"}     \* null, request.module, another one
Window == {"future", "open", "past"}   \* now < startsAt, inside, now >= endsAt

DelegationRow == [from : User, to : User, module : Module,
                  window : Window, isActive : BOOLEAN]

Rows == {d \in DelegationId : delegation[d] # NoDelegation}

\* An UpdateDelegationDto: the fields that are present and their new values.
Patch ==
  {[from |-> u] : u \in User} \cup {[to |-> u] : u \in User}
  \cup {[from |-> u, to |-> v] : u \in User, v \in User}
  \cup {[module |-> m] : m \in Module}
  \cup {[window |-> w] : w \in Window} \cup {[isActive |-> b] : b \in BOOLEAN}

UpdateCall == [id : DelegationId, patch : Patch]

ASSUME DelegationAssumption ==
  /\ NoOne \notin User
  /\ NoDelegation \notin DelegationRow
  /\ NoCall \notin UpdateCall

Patched(row, patch) ==
  [f \in DOMAIN row |-> IF f \in DOMAIN patch THEN patch[f] ELSE row[f]]

DelegationTypeOK ==
  /\ delegation \in [DelegationId -> DelegationRow \cup {NoDelegation}]
  /\ delegationCall \in [DelegationProc -> UpdateCall \cup {NoCall}]

DelegationInit ==
  /\ delegation = [d \in DelegationId |-> NoDelegation]
  /\ delegationCall = [p \in DelegationProc |-> NoCall]

----------------------------------------------------------------------------

CreateDelegation(d, row) ==
  /\ delegation[d] = NoDelegation
  /\ row.from # row.to
  /\ delegation' = [delegation EXCEPT ![d] = row]
  /\ UNCHANGED delegationCall

\* The read of an update: the row exists and source and target, as the row
\* read and the patch give them, differ.  (The dates are compared as well; a
\* window here has no length to get wrong, so that guard is always met.)
UpdateDelegationRead(p, d, patch) ==
  /\ delegationCall[p] = NoCall
  /\ d \in Rows
  /\ LET row == Patched(delegation[d], patch) IN row.from # row.to
  /\ delegationCall' = [delegationCall EXCEPT ![p] = [id |-> d, patch |-> patch]]
  /\ UNCHANGED delegation

\* The write of an update, by id: only the fields of the patch are written.
UpdateDelegationCommit(p) ==
  /\ delegationCall[p] # NoCall
  /\ LET c == delegationCall[p]
     IN delegation' = [delegation EXCEPT ![c.id] = Patched(@, c.patch)]
  /\ delegationCall' = [delegationCall EXCEPT ![p] = NoCall]

\* The call fails, or its process dies, before the write commits.
UpdateDelegationAbort(p) ==
  /\ delegationCall[p] # NoCall
  /\ delegationCall' = [delegationCall EXCEPT ![p] = NoCall]
  /\ UNCHANGED delegation

\* deleteDelegation keeps the row: it is deactivated, and an end date that
\* has not been reached becomes now.
DeleteDelegation(d) ==
  /\ d \in Rows
  /\ delegation' = [delegation EXCEPT ![d].isActive = FALSE,
                                      ![d].window = "past"]
  /\ UNCHANGED delegationCall

\* Time passes: a window opens, then closes.
WindowMoves(d) ==
  /\ d \in Rows
  /\ delegation[d].window # "past"
  /\ delegation' = [delegation EXCEPT
                      ![d].window = IF @ = "future" THEN "open" ELSE "past"]
  /\ UNCHANGED delegationCall

DelegationNext ==
  \/ \E d \in DelegationId, row \in DelegationRow : CreateDelegation(d, row)
  \/ \E p \in DelegationProc, d \in DelegationId, patch \in Patch :
       UpdateDelegationRead(p, d, patch)
  \/ \E p \in DelegationProc : UpdateDelegationCommit(p) \/ UpdateDelegationAbort(p)
  \/ \E d \in DelegationId : DeleteDelegation(d) \/ WindowMoves(d)

DelegationSpec == DelegationInit /\ [][DelegationNext]_delegationVars

----------------------------------------------------------------------------

\* An update in flight names a row that exists: rows are never removed.
UpdatesNameRows ==
  \A p \in DelegationProc :
    delegationCall[p] # NoCall => delegationCall[p].id \in Rows

\* The delegation query of assertActorCanActOnStep: u acts for v now.
ActsFor(u, v) ==
  \E d \in Rows :
    LET row == delegation[d]
    IN /\ row.from = v /\ row.to = u
       /\ row.isActive /\ row.window = "open" /\ row.module \in {"any", "this"}

\* approvals.service.ts:453 (and :364) refuses a delegation whose source and
\* target are one user, "Delegation source and target users must be
\* different.": no row delegates a user's authority to that same user.
NoSelfDelegation == \A d \in Rows : delegation[d].from # delegation[d].to

\* deleteDelegation withdraws authority for good unless an update asks for it
\* again: a row that was disabled acts for no one after any step that is not
\* the commit of an update.
DisabledStaysDisabled ==
  [][\A d \in Rows :
       (~delegation[d].isActive /\ delegation'[d].isActive) =>
         \E p \in DelegationProc :
           /\ delegationCall[p] # NoCall /\ delegationCall'[p] = NoCall
           /\ delegationCall[p].id = d
           /\ "isActive" \in DOMAIN delegationCall[p].patch]_delegationVars
=============================================================================
