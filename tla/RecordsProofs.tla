----------------------------- MODULE RecordsProofs -----------------------------
(***************************************************************************)
(* What is proved of the records kept of people, of accounts, of roles, of   *)
(* notifications and of the organization, for every number of them and of the *)
(* handlers between a read and a write: of PersonRecords, ExtendedProfile,    *)
(* Access, EmploymentRecords, Notifications, Organization and Accounts, each  *)
(* by an inductive invariant of its own.                                      *)
(***************************************************************************)
EXTENDS Organization, PersonRecords, ExtendedProfile, Access, EmploymentRecords,
        Notifications, Accounts, FiniteSetTheorems, TLAPS

----------------------------------------------------------------------------
\* PersonRecords.

\* The rows of which one at a time may be primary.
FlaggedRow == {row \in ItemRow : row.kind \in FlaggedKind}

LEMMA ItemRowsAreTyped ==
  ASSUME NEW row \in ItemRow
  PROVE  /\ row.kind = "contact" => row \in [kind : {"contact"}, type : ContactType, own : BOOLEAN, isPrimary : BOOLEAN]
         /\ row.kind = "address" => row \in [kind : {"address"}, type : {"home", "other"}, isPrimary : BOOLEAN]
         /\ row.kind = "emergency" => row \in [kind : {"emergency"}, isPrimary : BOOLEAN]
BY DEF ItemRow, ListedKind, KeyedKind

\* A flagged row without its flag is that row otherwise.
LEMMA Demoting ==
  ASSUME NEW row \in FlaggedRow
  PROVE  LET low == [row EXCEPT !.isPrimary = FALSE] IN
         /\ low \in FlaggedRow /\ low.kind = row.kind /\ low.isPrimary = FALSE
         /\ row.kind = "contact" => low.type = row.type
<1>1. CASE row.kind = "contact"
  BY <1>1, ItemRowsAreTyped DEF FlaggedRow, ItemRow, FlaggedKind
<1>2. CASE row.kind = "address"
  BY <1>2, ItemRowsAreTyped DEF FlaggedRow, ItemRow, FlaggedKind
<1>3. CASE row.kind = "emergency"
  BY <1>3, ItemRowsAreTyped DEF FlaggedRow, ItemRow, FlaggedKind
<1> QED BY <1>1, <1>2, <1>3 DEF FlaggedRow, FlaggedKind

\* Two rows of which only one may be primary.
SamePlace(r, s) == r.kind = s.kind /\ (r.kind = "contact" => r.type = s.type)

\* The transaction that writes a row and lets the other primaries give way.
LEMMA PutKeepsOne ==
  ASSUME PersonRecordsTypeOK, OnePrimaryOfAKind, RetypesSayPrimary,
         NEW i \in ItemId, NEW row \in FlaggedRow, Put(i, row)
  PROVE  OnePrimaryOfAKind' /\ item' \in [ItemId -> ItemRow \cup {NoItem}]
<1> DEFINE low(j) == [item[j] EXCEPT !.isPrimary = FALSE]
<1>1. item' = [j \in ItemId |-> IF j = i THEN row
                 ELSE IF row.isPrimary /\ j \in Rivals(row) THEN low(j) ELSE item[j]]
  BY DEF Put
<1>2. ASSUME NEW j \in Rivals(row)
      PROVE  low(j) \in FlaggedRow /\ SamePlace(item[j], low(j)) /\ low(j).isPrimary = FALSE
  <2>1. item[j] \in FlaggedRow
    BY DEF Rivals, ItemsOf, Live, PersonRecordsTypeOK, FlaggedRow
  <2> QED BY <2>1, Demoting DEF SamePlace
<1>3. item' \in [ItemId -> ItemRow \cup {NoItem}]
  <2>1. ASSUME NEW j \in ItemId
        PROVE  (IF j = i THEN row ELSE IF row.isPrimary /\ j \in Rivals(row) THEN low(j) ELSE item[j])
               \in ItemRow \cup {NoItem}
    <3>1. CASE j # i /\ j \in Rivals(row) BY <3>1, <1>2 DEF FlaggedRow, PersonRecordsTypeOK
    <3>2. CASE j = i \/ j \notin Rivals(row) BY <3>2 DEF FlaggedRow, PersonRecordsTypeOK
    <3> QED BY <3>1, <3>2
  <2> QED BY <1>1, <2>1
<1>4. ASSUME NEW a \in ItemId, NEW b \in ItemId, a # b, Live(a)', Live(b)',
             item'[a].kind \in FlaggedKind, SamePlace(item'[a], item'[b]),
             item'[a].isPrimary, item'[b].isPrimary
      PROVE  FALSE
  <2>1. ASSUME NEW j \in ItemId, j # i, item'[j].isPrimary
        PROVE  item'[j] = item[j] /\ ~(row.isPrimary /\ j \in Rivals(row))
    <3>1. CASE row.isPrimary /\ j \in Rivals(row)
      <4>1. item'[j] = low(j) BY <1>1, <2>1, <3>1
      <4> QED BY <4>1, <2>1, <3>1, <1>2
    <3>2. CASE ~(row.isPrimary /\ j \in Rivals(row))
      BY <1>1, <2>1, <3>2
    <3> QED BY <3>1, <3>2
  <2>2. item'[i] = row BY <1>1
  <2>3. CASE a = i
    BY <1>4, <2>1, <2>2, <2>3 DEF Live, Rivals, ItemsOf, SamePlace
  <2>4. CASE b = i
    BY <1>4, <2>1, <2>2, <2>4 DEF Live, Rivals, ItemsOf, SamePlace
  <2>5. CASE a # i /\ b # i
    BY <1>4, <2>1, <2>5 DEF Live, OnePrimaryOfAKind, SamePlace
  <2> QED BY <2>3, <2>4, <2>5
<1>5. OnePrimaryOfAKind'
  BY <1>4 DEF OnePrimaryOfAKind, SamePlace
<1> QED BY <1>3, <1>5

\* A row written alone: it is primary only where it was, or where none is.
LEMMA WrittenKeepsOne ==
  ASSUME PersonRecordsTypeOK, OnePrimaryOfAKind, RetypesSayPrimary,
         NEW i \in ItemId, NEW row \in ItemRow \cup {NoItem}, item' = [item EXCEPT ![i] = row],
         row # NoItem /\ row.kind \in FlaggedKind /\ row.isPrimary =>
           \A j \in ItemId \ {i} : Live(j) /\ SamePlace(row, item[j]) => ~item[j].isPrimary
  PROVE  OnePrimaryOfAKind' /\ item' \in [ItemId -> ItemRow \cup {NoItem}]
<1>1. item' \in [ItemId -> ItemRow \cup {NoItem}]
  BY DEF PersonRecordsTypeOK
<1>2. item'[i] = row /\ \A j \in ItemId \ {i} : item'[j] = item[j]
  BY DEF PersonRecordsTypeOK
<1>3. ASSUME NEW a \in ItemId, NEW b \in ItemId, a # b, Live(a)', Live(b)',
             item'[a].kind \in FlaggedKind, SamePlace(item'[a], item'[b]),
             item'[a].isPrimary, item'[b].isPrimary
      PROVE  FALSE
  <2>1. CASE a = i BY <1>2, <1>3, <2>1 DEF Live, SamePlace
  <2>2. CASE b = i BY <1>2, <1>3, <2>2 DEF Live, SamePlace
  <2>3. CASE a # i /\ b # i BY <1>2, <1>3, <2>3 DEF Live, OnePrimaryOfAKind, SamePlace
  <2> QED BY <2>1, <2>2, <2>3
<1> QED BY <1>1, <1>3 DEF OnePrimaryOfAKind, SamePlace

\* Every row a handler writes is a row, and leaves one primary row in its
\* place, because the others give way, or because none was primary.
LEMMA KeepingStep ==
  ASSUME PersonRecordsTypeOK, OnePrimaryOfAKind, RetypesSayPrimary, [PersonRecordsNext]_personVars
  PROVE  OnePrimaryOfAKind' /\ item' \in [ItemId -> ItemRow \cup {NoItem}]
<1> USE DEF FlaggedRow, ItemRow, FlaggedKind
<1>1. CASE UNCHANGED item
  BY <1>1 DEF OnePrimaryOfAKind, PersonRecordsTypeOK, Live
<1>2. ASSUME NEW i \in ItemId, NEW type \in ContactType, NEW own \in BOOLEAN, NEW flag \in BOOLEAN,
             CreateContact(i, type, own, flag)
      PROVE  OnePrimaryOfAKind' /\ item' \in [ItemId -> ItemRow \cup {NoItem}]
  BY <1>2, PutKeepsOne DEF CreateContact
<1>3. ASSUME NEW i \in ItemId, NEW type \in ContactType, NEW says \in {{}, {TRUE}, {FALSE}},
             UpdateContact(i, type, says)
      PROVE  OnePrimaryOfAKind' /\ item' \in [ItemId -> ItemRow \cup {NoItem}]
  <2> DEFINE row == [item[i] EXCEPT !.type = type]
  <2>1. /\ Live(i) /\ item[i].kind = "contact"
        /\ item[i] \in [kind : {"contact"}, type : ContactType, own : BOOLEAN, isPrimary : BOOLEAN]
    BY <1>3, ItemRowsAreTyped DEF UpdateContact, ItemsOf, Live, PersonRecordsTypeOK
  <2>2. row \in [kind : {"contact"}, type : ContactType, own : BOOLEAN, isPrimary : BOOLEAN]
        /\ row.isPrimary = item[i].isPrimary /\ row.type = type /\ row.kind = "contact"
    BY <2>1
  <2>3. CASE says = {}
    <3>1. type = item[i].type /\ item' = [item EXCEPT ![i] = row]
      BY <1>3, <2>3 DEF UpdateContact
    <3>2. row.isPrimary => \A j \in ItemId \ {i} : Live(j) /\ SamePlace(row, item[j]) => ~item[j].isPrimary
      BY <2>1, <2>2, <3>1 DEF OnePrimaryOfAKind, SamePlace
    <3> HIDE DEF row
    <3> QED BY <2>2, <3>1, <3>2, WrittenKeepsOne
  <2>4. CASE says # {}
    <3>1. PICK flag \in says : Put(i, [row EXCEPT !.isPrimary = flag])
      BY <1>3, <2>4 DEF UpdateContact
    <3>2. [row EXCEPT !.isPrimary = flag] \in FlaggedRow
      BY <2>2
    <3> HIDE DEF row
    <3> QED BY <3>1, <3>2, PutKeepsOne
  <2> QED BY <2>3, <2>4
<1>4. ASSUME NEW i \in ItemId, NEW type \in ContactType, UpsertPersonContact(i, type)
      PROVE  OnePrimaryOfAKind' /\ item' \in [ItemId -> ItemRow \cup {NoItem}]
  <2> DEFINE first == \A j \in Primaries("contact") : item[j].type # type
             row == [kind |-> "contact", type |-> type, own |-> TRUE, isPrimary |-> first]
  <2>1. CASE UNCHANGED item BY <1>1, <2>1
  <2>2. CASE item' = [item EXCEPT ![i] = row]
    <3>1. first \in BOOLEAN OBVIOUS
    <3>2. row \in ItemRow /\ row.kind = "contact" /\ row.type = type /\ row.isPrimary = first
      BY <3>1
    <3>3. row.isPrimary => \A j \in ItemId \ {i} : Live(j) /\ SamePlace(row, item[j]) => ~item[j].isPrimary
      BY <3>2 DEF Primaries, ItemsOf, SamePlace
    <3> HIDE DEF row
    <3> QED BY <2>2, <3>2, <3>3, WrittenKeepsOne
  <2> QED BY <1>4, <2>1, <2>2 DEF UpsertPersonContact
<1>5. ASSUME NEW i \in ItemId, NEW type \in {"home", "other"}, NEW flag \in BOOLEAN,
             CreateAddress(i, type, flag)
      PROVE  OnePrimaryOfAKind' /\ item' \in [ItemId -> ItemRow \cup {NoItem}]
  BY <1>5, PutKeepsOne DEF CreateAddress
<1>6. ASSUME NEW i \in ItemId, NEW type \in {"home", "other"}, NEW says \in {{}, {TRUE}, {FALSE}},
             UpdateAddress(i, type, says)
      PROVE  OnePrimaryOfAKind' /\ item' \in [ItemId -> ItemRow \cup {NoItem}]
  <2> DEFINE row == [item[i] EXCEPT !.type = type]
  <2>1. /\ Live(i) /\ item[i].kind = "address"
        /\ item[i] \in [kind : {"address"}, type : {"home", "other"}, isPrimary : BOOLEAN]
    BY <1>6, ItemRowsAreTyped DEF UpdateAddress, ItemsOf, Live, PersonRecordsTypeOK
  <2>2. row \in [kind : {"address"}, type : {"home", "other"}, isPrimary : BOOLEAN]
        /\ row.isPrimary = item[i].isPrimary /\ row.kind = "address"
    BY <2>1
  <2>3. CASE says = {}
    <3>1. item' = [item EXCEPT ![i] = row]
      BY <1>6, <2>3 DEF UpdateAddress
    <3>2. row.isPrimary => \A j \in ItemId \ {i} : Live(j) /\ SamePlace(row, item[j]) => ~item[j].isPrimary
      BY <2>1, <2>2, <3>1 DEF OnePrimaryOfAKind, SamePlace
    <3> HIDE DEF row
    <3> QED BY <2>2, <3>1, <3>2, WrittenKeepsOne
  <2>4. CASE says # {}
    <3>1. PICK flag \in says : Put(i, [row EXCEPT !.isPrimary = flag])
      BY <1>6, <2>4 DEF UpdateAddress
    <3>2. [row EXCEPT !.isPrimary = flag] \in FlaggedRow
      BY <2>2
    <3> HIDE DEF row
    <3> QED BY <3>1, <3>2, PutKeepsOne
  <2> QED BY <2>3, <2>4
<1>7. ASSUME NEW i \in ItemId, NEW type \in {"home", "other"}, UpsertSelfServiceAddress(i, type)
      PROVE  OnePrimaryOfAKind' /\ item' \in [ItemId -> ItemRow \cup {NoItem}]
  <2> DEFINE row == [kind |-> "address", type |-> type, isPrimary |-> TRUE]
  <2>1. item' = [item EXCEPT ![i] = row]
    BY <1>7 DEF UpsertSelfServiceAddress
  <2>2. \A j \in ItemId \ {i} : Live(j) /\ item[j].kind = "address" => ~item[j].isPrimary
    BY <1>7 DEF UpsertSelfServiceAddress, Chosen, Primaries, ItemsOf, OnePrimaryOfAKind
  <2>3. row \in ItemRow /\ row.kind = "address"
    OBVIOUS
  <2> HIDE DEF row
  <2> QED BY <2>1, <2>2, <2>3, WrittenKeepsOne DEF SamePlace
<1>8. ASSUME NEW i \in ItemId, NEW flag \in BOOLEAN,
             CreateEmergencyContact(i, flag) \/ UpdateEmergencyContact(i, flag)
      PROVE  OnePrimaryOfAKind' /\ item' \in [ItemId -> ItemRow \cup {NoItem}]
  <2>1. CASE CreateEmergencyContact(i, flag)
    BY <2>1, PutKeepsOne DEF CreateEmergencyContact
  <2>2. CASE UpdateEmergencyContact(i, flag)
    <3>1. item[i] \in [kind : {"emergency"}, isPrimary : BOOLEAN]
      BY <2>2, ItemRowsAreTyped DEF UpdateEmergencyContact, ItemsOf, Live, PersonRecordsTypeOK
    <3>2. [item[i] EXCEPT !.isPrimary = flag] \in FlaggedRow
      BY <3>1
    <3> QED BY <2>2, <3>2, PutKeepsOne DEF UpdateEmergencyContact
  <2> QED BY <1>8, <2>1, <2>2
<1>9. ASSUME NEW i \in ItemId, UpsertSelfServiceEmergencyContact(i)
      PROVE  OnePrimaryOfAKind' /\ item' \in [ItemId -> ItemRow \cup {NoItem}]
  <2> DEFINE row == [kind |-> "emergency", isPrimary |-> TRUE]
  <2>1. item' = [item EXCEPT ![i] = row]
    BY <1>9 DEF UpsertSelfServiceEmergencyContact
  <2>2. \A j \in ItemId \ {i} : Live(j) /\ item[j].kind = "emergency" => ~item[j].isPrimary
    BY <1>9 DEF UpsertSelfServiceEmergencyContact, Chosen, Primaries, ItemsOf, OnePrimaryOfAKind
  <2>3. row \in ItemRow /\ row.kind = "emergency"
    OBVIOUS
  <2> HIDE DEF row
  <2> QED BY <2>1, <2>2, <2>3, WrittenKeepsOne DEF SamePlace
<1>10. ASSUME NEW i \in ItemId, NEW row \in ItemRow \cup {NoItem},
              row = NoItem \/ row.kind \notin FlaggedKind, item' = [item EXCEPT ![i] = row]
       PROVE  OnePrimaryOfAKind' /\ item' \in [ItemId -> ItemRow \cup {NoItem}]
  BY <1>10, WrittenKeepsOne
<1>11. ASSUME NEW i \in ItemId, NEW kind \in ListedKind, AddListed(i, kind)
       PROVE  OnePrimaryOfAKind' /\ item' \in [ItemId -> ItemRow \cup {NoItem}]
  BY <1>10, <1>11 DEF AddListed, ListedKind
<1>12. ASSUME NEW i \in ItemId, NEW kind \in KeyedKind, NEW key \in Key, AddKeyed(i, kind, key)
       PROVE  OnePrimaryOfAKind' /\ item' \in [ItemId -> ItemRow \cup {NoItem}]
  BY <1>10, <1>12 DEF AddKeyed, KeyedKind
<1>13. ASSUME NEW i \in ItemId, DeleteItem(i)
       PROVE  OnePrimaryOfAKind' /\ item' \in [ItemId -> ItemRow \cup {NoItem}]
  BY <1>10, <1>13 DEF DeleteItem
<1> QED
  BY <1>1, <1>2, <1>3, <1>4, <1>5, <1>6, <1>7, <1>8, <1>9, <1>11, <1>12, <1>13
  DEF PersonRecordsNext, personVars, CreatePerson, DeletePerson, EmployeeCreated, EmployeeArchived, EmployeeRehired

\* updateContact, upsertSelfServiceAddress and their like, whoever of HR and
\* the employee writes: a person keeps one primary contact of a type, one
\* primary address and one primary emergency contact.
THEOREM OnePrimaryOfAKindHolds == PersonRecordsSpec => []OnePrimaryOfAKind
<1> DEFINE Inv == RetypesSayPrimary => PersonRecordsTypeOK /\ OnePrimaryOfAKind
<1>1. PersonRecordsInit => Inv
  BY DEF PersonRecordsInit, PersonRecordsTypeOK, OnePrimaryOfAKind, Live
<1>2. Inv /\ [PersonRecordsNext]_personVars => Inv'
  <2> SUFFICES ASSUME RetypesSayPrimary, PersonRecordsTypeOK, OnePrimaryOfAKind,
                      [PersonRecordsNext]_personVars
               PROVE  Inv'
    OBVIOUS
  <2>1. OnePrimaryOfAKind' /\ item' \in [ItemId -> ItemRow \cup {NoItem}]
    BY KeepingStep
  <2>2. person' \in {"NONE", "LIVE", "DELETED"} /\ linked' \in BOOLEAN
    BY DEF PersonRecordsTypeOK, PersonRecordsNext, personVars, CreatePerson, DeletePerson,
           EmployeeCreated, EmployeeArchived, EmployeeRehired, Keeps, SelfService,
           CreateContact, UpdateContact, CreateAddress, UpdateAddress, CreateEmergencyContact,
           UpdateEmergencyContact, AddListed, AddKeyed, DeleteItem, UpsertPersonContact,
           UpsertSelfServiceAddress, UpsertSelfServiceEmergencyContact
  <2> QED BY <2>1, <2>2 DEF PersonRecordsTypeOK
<1>3. Inv => OnePrimaryOfAKind
  BY DEF OnePrimaryOfAKind
<1> QED BY <1>1, <1>2, <1>3, PTL DEF PersonRecordsSpec

----------------------------------------------------------------------------
\* ExtendedProfile.

\* What is submitted attests nothing, and the employee may write it again only
\* if it is a dependent, which nobody reviews.
LEMMA KindFacts ==
  ASSUME NEW kind \in Kind
  PROVE  /\ Submitted[kind] \in StatusOf[kind] /\ Submitted[kind] \notin Attests[kind]
         /\ kind # "dependent" => Submitted[kind] \notin Reopened[kind]
         /\ kind # "eligibility" => Removed[kind] \in StatusOf[kind]
         /\ kind = "dependent" => Attests[kind] = {}
BY DEF Kind, StatusOf, Submitted, Attests, Reopened, Removed, ReferenceStatus, PayoutStatus,
       StatutoryStatus, EligibilityStatus, CheckStatus

LEMMA RowFacts ==
  ASSUME NEW kind \in Kind, NEW status \in StatusOf[kind]
  PROVE  /\ Row(kind, status) \in ProfileRow
         /\ Row(kind, status).kind = kind /\ Row(kind, status).status = status
         /\ Row(kind, status).verified = (status \in Attests[kind])
         /\ Row(kind, status).deleted = FALSE
BY DEF Row, ProfileRow

LEMMA WithStatusFacts ==
  ASSUME NEW row \in ProfileRow, NEW status \in StatusOf[row.kind]
  PROVE  /\ WithStatus(row, status) \in ProfileRow
         /\ WithStatus(row, status).kind = row.kind /\ WithStatus(row, status).status = status
         /\ WithStatus(row, status).verified = (status \in Attests[row.kind])
         /\ WithStatus(row, status).deleted = row.deleted
<1>1. row.kind \in Kind /\ status \in UNION {StatusOf[k] : k \in Kind}
  BY DEF ProfileRow
<1>2. (status \in Attests[row.kind]) \in BOOLEAN
  OBVIOUS
<1>3. row \in [kind : Kind, status : UNION {StatusOf[k] : k \in Kind}, verified : BOOLEAN, deleted : BOOLEAN]
  BY DEF ProfileRow
<1> QED BY <1>1, <1>2, <1>3 DEF WithStatus, ProfileRow

LEMMA RemovedFacts ==
  ASSUME NEW row \in ProfileRow, row.kind # "eligibility"
  PROVE  LET gone == [row EXCEPT !.deleted = TRUE, !.status = Removed[row.kind]] IN
         /\ gone \in ProfileRow /\ gone.kind = row.kind /\ gone.status \in StatusOf[row.kind]
         /\ gone.verified = row.verified /\ gone.deleted
BY KindFacts DEF ProfileRow

\* What readers know of a record that is rewritten is no longer current.
LEMMA RewrittenFacts ==
  ASSUME ProfileTypeOK, NEW q \in RecordId, Rewritten(q)
  PROVE  /\ review' \in [Reviewer -> [record : RecordId, current : BOOLEAN] \cup {NoReview}]
         /\ \A h \in Reviewer : review'[h] = review[h] \/ (review[h] # NoReview /\ review[h].record = q)
         /\ \A h \in Reviewer : review'[h] # NoReview => review[h] # NoReview /\ review'[h].record = review[h].record
BY DEF ProfileTypeOK, Rewritten

\* A reviewer of a record is its only one, and it stays as submitted and as
\* read until that reviewer decides or it is removed.
ReviewedAsRead ==
  /\ \A h \in Reviewer : review[h] # NoReview =>
       LET row == profile[review[h].record] IN
       /\ row # NoRecordKept /\ row.kind # "dependent"
       /\ ~row.deleted => row.status = Submitted[row.kind] /\ review[h].current
  /\ \A h, g \in Reviewer : h # g /\ review[h] # NoReview /\ review[g] # NoReview =>
       review[h].record # review[g].record

Attested == \A q \in RecordId : profile[q] # NoRecordKept /\ profile[q].verified => q \notin unread

ProfileInv == ProfileTypeOK /\ (ReviewersTakeTurns => ReviewedAsRead /\ Attested)

\* One record is written, and nobody reviews it.
LEMMA WritingAlone ==
  ASSUME ProfileInv, NEW q \in RecordId, NEW row \in ProfileRow, row.status \in StatusOf[row.kind],
         profile' = [profile EXCEPT ![q] = row], Rewritten(q), unread' \subseteq RecordId,
         unread' \subseteq unread \cup {q}, row.verified => q \notin unread',
         ReviewersTakeTurns => \A h \in Reviewer : review[h] # NoReview => review[h].record # q
  PROVE  ProfileInv'
<1>1. ProfileTypeOK'
  BY RewrittenFacts DEF ProfileInv, ProfileTypeOK
<1>2. ASSUME ReviewersTakeTurns PROVE review' = review
  BY <1>2 DEF Rewritten, ProfileInv, ProfileTypeOK
<1>3. profile'[q] = row /\ \A o \in RecordId \ {q} : profile'[o] = profile[o]
  BY DEF ProfileInv, ProfileTypeOK
<1>4. ASSUME ReviewersTakeTurns PROVE ReviewedAsRead'
  <2> QED BY <1>2, <1>3, <1>4 DEF ProfileInv, ProfileTypeOK, ReviewedAsRead
<1>5. ASSUME ReviewersTakeTurns PROVE Attested'
  BY <1>3, <1>5 DEF ProfileInv, Attested
<1> QED BY <1>1, <1>4, <1>5 DEF ProfileInv

LEMMA ProfileStep ==
  ASSUME ProfileInv, [ProfileNext]_profileVars
  PROVE  ProfileInv'
<1>1. CASE UNCHANGED profileVars
  BY <1>1 DEF profileVars, ProfileInv, ProfileTypeOK, ReviewedAsRead, Attested
<1>2. ASSUME NEW q \in RecordId, NEW kind \in Kind, SubmitRecord(q, kind)
      PROVE  ProfileInv'
  <2>1. profile[q] = NoRecordKept /\ unread' = unread \cup {q}
        /\ profile' = [profile EXCEPT ![q] = Row(kind, Submitted[kind])] /\ Rewritten(q)
    BY <1>2 DEF SubmitRecord, Fresh
  <2>2. ReviewersTakeTurns => \A h \in Reviewer : review[h] # NoReview => review[h].record # q
    BY <2>1 DEF ProfileInv, ReviewedAsRead
  <2>3. /\ Row(kind, Submitted[kind]) \in ProfileRow
        /\ Row(kind, Submitted[kind]).status \in StatusOf[Row(kind, Submitted[kind]).kind]
        /\ ~Row(kind, Submitted[kind]).verified
    <3>1. Submitted[kind] \in StatusOf[kind] /\ Submitted[kind] \notin Attests[kind]
      BY KindFacts
    <3> QED BY <3>1, RowFacts
  <2>4. unread \cup {q} \subseteq RecordId
    BY DEF ProfileInv, ProfileTypeOK
  <2> QED BY <2>1, <2>2, <2>3, <2>4, WritingAlone
<1>3. ASSUME NEW q \in RecordId, NEW kind \in Kind, NEW status \in StatusOf[kind], RecordByHR(q, kind, status)
      PROVE  ProfileInv'
  <2>1. profile[q] = NoRecordKept /\ unread' = unread \ {q}
        /\ profile' = [profile EXCEPT ![q] = Row(kind, status)] /\ Rewritten(q)
    BY <1>3 DEF RecordByHR, Fresh
  <2>2. ReviewersTakeTurns => \A h \in Reviewer : review[h] # NoReview => review[h].record # q
    BY <2>1 DEF ProfileInv, ReviewedAsRead
  <2>3. Row(kind, status) \in ProfileRow /\ Row(kind, status).status \in StatusOf[Row(kind, status).kind]
    <3>1. Row(kind, status) \in ProfileRow /\ Row(kind, status).kind = kind /\ Row(kind, status).status = status
      BY RowFacts
    <3> QED BY <3>1
  <2>4. unread \ {q} \subseteq RecordId
    BY DEF ProfileInv, ProfileTypeOK
  <2> QED BY <2>1, <2>2, <2>3, <2>4, WritingAlone
<1>4. ASSUME NEW q \in RecordId, CorrectRecord(q)
      PROVE  ProfileInv'
  <2> DEFINE kind == profile[q].kind
  <2>1. /\ Kept(q) /\ profile[q] \in ProfileRow /\ kind \in Kind /\ unread' = unread \cup {q}
        /\ profile[q].status \in Reopened[kind]
        /\ profile' = [profile EXCEPT ![q] = Row(kind, Submitted[kind])] /\ Rewritten(q)
    BY <1>4 DEF CorrectRecord, Kept, ProfileInv, ProfileTypeOK, ProfileRow
  <2>2. ReviewersTakeTurns => \A h \in Reviewer : review[h] # NoReview => review[h].record # q
    BY <2>1, KindFacts DEF ProfileInv, ReviewedAsRead, Kept
  <2>5. kind \in Kind BY <2>1
  <2> HIDE DEF kind
  <2>3. /\ Row(kind, Submitted[kind]) \in ProfileRow
        /\ Row(kind, Submitted[kind]).status \in StatusOf[Row(kind, Submitted[kind]).kind]
        /\ ~Row(kind, Submitted[kind]).verified
    <3>1. Submitted[kind] \in StatusOf[kind] /\ Submitted[kind] \notin Attests[kind]
      BY <2>5, KindFacts
    <3>2. /\ Row(kind, Submitted[kind]) \in ProfileRow
          /\ Row(kind, Submitted[kind]).kind = kind /\ Row(kind, Submitted[kind]).status = Submitted[kind]
          /\ Row(kind, Submitted[kind]).verified = (Submitted[kind] \in Attests[kind])
      BY <2>5, <3>1, RowFacts
    <3> QED BY <3>1, <3>2
  <2>4. unread \cup {q} \subseteq RecordId
    BY DEF ProfileInv, ProfileTypeOK
  <2> QED BY <2>1, <2>2, <2>3, <2>4, WritingAlone
<1>5. ASSUME NEW q \in RecordId, profile[q] # NoRecordKept, NEW status \in StatusOf[profile[q].kind],
             RewriteByHR(q, status)
      PROVE  ProfileInv'
  <2>1. /\ profile[q] \in ProfileRow /\ unread' = unread \ {q} /\ Undisturbed(q)
        /\ profile' = [profile EXCEPT ![q] = WithStatus(profile[q], status)] /\ Rewritten(q)
    BY <1>5 DEF RewriteByHR, ProfileInv, ProfileTypeOK
  <2>2. /\ WithStatus(profile[q], status) \in ProfileRow
        /\ WithStatus(profile[q], status).status \in StatusOf[WithStatus(profile[q], status).kind]
    BY <2>1, WithStatusFacts
  <2>3. unread \ {q} \subseteq RecordId
    BY DEF ProfileInv, ProfileTypeOK
  <2> QED BY <2>1, <2>2, <2>3, WritingAlone DEF Undisturbed
<1>6. ASSUME NEW Q \in SUBSET RecordId, RemoveRecords(Q)
      PROVE  ProfileInv'
  <2>1. \A q \in Q : profile[q] # NoRecordKept /\ profile[q] \in ProfileRow /\ profile[q].kind # "eligibility"
    BY <1>6 DEF RemoveRecords, Kept, ProfileInv, ProfileTypeOK
  <2>2. \A q \in RecordId \ Q : profile'[q] = profile[q]
    BY <1>6 DEF RemoveRecords
  <2>3. \A q \in Q : /\ profile'[q] \in ProfileRow /\ profile'[q].kind = profile[q].kind
                     /\ profile'[q].status \in StatusOf[profile[q].kind]
                     /\ profile'[q].verified = profile[q].verified /\ profile'[q].deleted
    BY <1>6, <2>1, RemovedFacts DEF RemoveRecords
  <2>4. review' = review /\ unread' = unread
    BY <1>6 DEF RemoveRecords
  <2>5. ProfileTypeOK'
    <3>1. \A q \in RecordId : profile'[q] \in ProfileRow \cup {NoRecordKept}
      BY <2>2, <2>3 DEF ProfileInv, ProfileTypeOK
    <3>2. profile' \in [RecordId -> ProfileRow \cup {NoRecordKept}]
      BY <1>6, <3>1 DEF RemoveRecords
    <3> QED BY <2>2, <2>3, <2>4, <3>2 DEF ProfileInv, ProfileTypeOK
  <2>6. ASSUME ReviewersTakeTurns, NEW h \in Reviewer, review[h] # NoReview
        PROVE  LET row == profile'[review[h].record] IN
               /\ profile[review[h].record] # NoRecordKept
               /\ row.kind # "dependent"
               /\ ~row.deleted => row.status = Submitted[row.kind] /\ review[h].current
    <3>1. review[h].record \in RecordId BY <2>6 DEF ProfileInv, ProfileTypeOK
    <3>2. CASE review[h].record \in Q BY <2>3, <2>6, <3>2 DEF ProfileInv, ReviewedAsRead
    <3>3. CASE review[h].record \notin Q BY <2>2, <2>6, <3>1, <3>3 DEF ProfileInv, ReviewedAsRead
    <3> QED BY <3>2, <3>3
  <2>7. ASSUME ReviewersTakeTurns PROVE ReviewedAsRead'
    <3>1. \A h \in Reviewer : review[h] # NoReview => profile'[review[h].record] # NoRecordKept
      <4>1. ASSUME NEW h \in Reviewer, review[h] # NoReview
            PROVE  profile'[review[h].record] # NoRecordKept
        <5>1. CASE review[h].record \in Q BY <5>1, <2>3, NoRecordKeptIsNoRow
        <5>2. CASE review[h].record \notin Q BY <2>2, <2>6, <2>7, <4>1, <5>2 DEF ProfileInv, ProfileTypeOK
        <5> QED BY <5>1, <5>2
      <4> QED BY <4>1
    <3> QED BY <2>4, <2>6, <2>7, <3>1 DEF ProfileInv, ReviewedAsRead
  <2>8. ASSUME ReviewersTakeTurns PROVE Attested'
    BY <2>1, <2>2, <2>3, <2>4, <2>8 DEF ProfileInv, Attested
  <2> QED BY <2>5, <2>7, <2>8 DEF ProfileInv
<1>7. ASSUME NEW h \in Reviewer, NEW q \in RecordId, ReadSubmitted(h, q)
      PROVE  ProfileInv'
  <2>1. /\ profile' = profile /\ unread' = unread
        /\ Undisturbed(q) /\ profile[q] # NoRecordKept /\ profile[q].status = Submitted[profile[q].kind]
        /\ profile[q].kind # "dependent"
        /\ review' = [review EXCEPT ![h] = [record |-> q, current |-> TRUE]]
    BY <1>7 DEF ReadSubmitted, Kept
  <2>2. ProfileTypeOK' BY <2>1 DEF ProfileInv, ProfileTypeOK
  <2>3. ASSUME ReviewersTakeTurns PROVE ReviewedAsRead'
    BY <2>1, <2>3 DEF ProfileInv, ProfileTypeOK, ReviewedAsRead, Undisturbed
  <2> QED BY <2>1, <2>2, <2>3 DEF ProfileInv, Attested
<1>8. ASSUME NEW h \in Reviewer, review[h] # NoReview, profile[review[h].record] # NoRecordKept,
             NEW status \in StatusOf[profile[review[h].record].kind], DecideRecord(h, status)
      PROVE  ProfileInv'
  <2> DEFINE q == review[h].record
             row == WithStatus(profile[q], status)
  <2>1. /\ q \in RecordId /\ profile[q] \in ProfileRow
        /\ ~profile[q].deleted /\ profile' = [profile EXCEPT ![q] = row]
        /\ unread' = (IF review[h].current THEN unread \ {q} ELSE unread)
        /\ review' = [review EXCEPT ![h] = NoReview]
    BY <1>8 DEF DecideRecord, Kept, ProfileInv, ProfileTypeOK
  <2>2. row \in ProfileRow /\ row.status \in StatusOf[row.kind]
    BY <2>1, WithStatusFacts
  <2> HIDE DEF row, q
  <2>3. ProfileTypeOK'
    BY <2>1, <2>2 DEF ProfileInv, ProfileTypeOK
  <2>4. ASSUME ReviewersTakeTurns PROVE ReviewedAsRead'
    BY <2>1, <2>4, <1>8 DEF ProfileInv, ProfileTypeOK, ReviewedAsRead, q
  <2>5. ASSUME ReviewersTakeTurns PROVE Attested'
    <3>1. review[h].current
      BY <1>8, <2>1, <2>5 DEF ProfileInv, ReviewedAsRead, q
    <3> QED BY <2>1, <2>5, <3>1 DEF ProfileInv, ProfileTypeOK, Attested
  <2> QED BY <2>3, <2>4, <2>5 DEF ProfileInv
<1>9. ASSUME NEW h \in Reviewer, PutAside(h)
      PROVE  ProfileInv'
  <2>1. profile' = profile /\ unread' = unread /\ review' = [review EXCEPT ![h] = NoReview]
    BY <1>9 DEF PutAside
  <2>2. ProfileTypeOK' BY <2>1 DEF ProfileInv, ProfileTypeOK
  <2>3. ASSUME ReviewersTakeTurns PROVE ReviewedAsRead'
    BY <2>1, <2>3 DEF ProfileInv, ProfileTypeOK, ReviewedAsRead
  <2> QED BY <2>1, <2>2, <2>3 DEF ProfileInv, Attested
<1> QED
  BY <1>1, <1>2, <1>3, <1>4, <1>5, <1>6, <1>7, <1>8, <1>9 DEF ProfileNext

LEMMA ProfileInvHolds == ProfileSpec => []ProfileInv
<1>1. ProfileInit => ProfileInv
  BY DEF ProfileInit, ProfileInv, ProfileTypeOK, ReviewedAsRead, Attested
<1> QED BY <1>1, ProfileStep, PTL DEF ProfileSpec

\* assertSelfServicePayoutEditable and its like against reviewers who decide
\* later on what they have read: nothing stands as verified that no reviewer
\* has seen.
THEOREM AttestedAsSeenHolds == ProfileSpec => []AttestedAsSeen
<1>1. ProfileInv => AttestedAsSeen
  BY DEF ProfileInv, Attested, AttestedAsSeen
<1> QED BY <1>1, ProfileInvHolds, PTL

----------------------------------------------------------------------------
\* Access.

SyncRow == [at : {"delete", "upsert", "commit"}, role : CustomRole, request : SUBSET Permission,
            gone : SUBSET Permission, new : SUBSET Permission]

AccessTypes ==
  /\ catalog \subseteq Permission
  /\ holds \in [Role -> (SUBSET Permission) \cup {NoRole}]
  /\ \A r \in PlatformRole : Exists(r)
  /\ sync \in [RoleAdmin -> SyncRow \cup {NoSync}]
  /\ asked \in [Role -> SUBSET SUBSET Permission]

\* A role that nobody has made has not been asked for.
MadeFirst ==
  \A r \in CustomRole : ~Exists(r) =>
    asked[r] = {} /\ \A h \in RoleAdmin : sync[h] # NoSync => sync[h].role # r

\* What a handler will delete is not in its request; what it leaves of the
\* role is in its request or in one committed meanwhile.  What it will not add
\* is there, or was deleted by a request committed meanwhile.
SyncKnows ==
  \A h \in RoleAdmin : sync[h] # NoSync =>
    LET s == sync[h] IN
    /\ s.new \subseteq s.request
    /\ s.at # "delete" =>
         /\ s.gone \cap s.request = {}
         /\ holds[s.role] \subseteq s.gone \cup s.request \cup UNION asked[s.role]
    /\ s.at = "commit" => \A p \in s.request \ s.new :
         p \in holds[s.role] \/ \E request \in asked[s.role] : p \notin request

AccessInv == AccessTypes /\ MadeFirst /\ SyncKnows /\ RoleIsAsAsked

LEMMA CustomRoles ==
  CustomRole \subseteq Role /\ PlatformRole \subseteq Role /\ \A r \in CustomRole : r \notin PlatformRole /\ r \notin DefaultRole
BY AccessAssumption DEF Role

\* Whatever leaves the custom roles that exist and the requests alone.
LEMMA OtherRoles ==
  ASSUME AccessInv, catalog' \subseteq Permission, holds' \in [Role -> (SUBSET Permission) \cup {NoRole}],
         \A r \in PlatformRole : holds'[r] # NoRole,
         \A r \in CustomRole : holds'[r] = holds[r] \/ (~Exists(r) /\ holds'[r] \in SUBSET Permission),
         sync' = sync, asked' = asked
  PROVE  AccessInv'
<1>1. AccessTypes' BY DEF AccessInv, AccessTypes, Exists
<1>2. MadeFirst' BY AccessAssumption DEF AccessInv, MadeFirst, Exists
<1>3. SyncKnows'
  <2> SUFFICES ASSUME NEW h \in RoleAdmin, sync[h] # NoSync
               PROVE  holds'[sync[h].role] = holds[sync[h].role]
    BY DEF SyncKnows, AccessInv
  <2>1. sync[h].role \in CustomRole BY DEF AccessInv, AccessTypes, SyncRow
  <2> QED BY <2>1 DEF AccessInv, MadeFirst
<1>4. RoleIsAsAsked'
  BY DEF AccessInv, RoleIsAsAsked, MadeFirst
<1> QED BY <1>1, <1>2, <1>3, <1>4 DEF AccessInv

LEMMA AccessStep ==
  ASSUME AccessInv, [AccessNext]_accessVars
  PROVE  AccessInv'
<1>1. CASE UNCHANGED <<catalog, holds, sync, asked>>
  BY <1>1, OtherRoles DEF AccessInv, AccessTypes, Exists
<1>2. CASE BootstrapPermissionCatalog
  <2>1. holds' \in [Role -> (SUBSET Permission) \cup {NoRole}]
    <3>1. \A r \in PlatformRole : holds[r] \cup Template(r) \in SUBSET Permission
      BY AccessAssumption, CustomRoles DEF AccessInv, AccessTypes, Exists
    <3> QED BY <1>2, <3>1 DEF BootstrapPermissionCatalog, AccessInv, AccessTypes
  <2>2. \A r \in PlatformRole : holds'[r] # NoRole
    BY <1>2, AccessAssumption, CustomRoles DEF BootstrapPermissionCatalog, AccessInv, AccessTypes, Exists
  <2> QED BY <1>2, <2>1, <2>2, CustomRoles, OtherRoles DEF BootstrapPermissionCatalog
<1>3. ASSUME NEW r \in Role, NEW m \in Member, NEW window \in {"OPEN", NoRole}, CreateTenant(m, r, window)
      PROVE  AccessInv'
  <2>1. holds' \in [Role -> (SUBSET Permission) \cup {NoRole}]
    BY <1>3 DEF CreateTenant, AccessInv, AccessTypes
  <2>2. \A q \in PlatformRole : holds'[q] # NoRole
    BY <1>3, AccessAssumption, CustomRoles DEF CreateTenant, AccessInv, AccessTypes, Exists
  <2> QED BY <1>3, <2>1, <2>2, CustomRoles, OtherRoles DEF CreateTenant, AccessInv, AccessTypes
<1>4. ASSUME NEW r \in Role, CreateRole(r)
      PROVE  AccessInv'
  <2>1. /\ holds' \in [Role -> (SUBSET Permission) \cup {NoRole}]
        /\ \A q \in Role : holds'[q] = holds[q] \/ (~Exists(q) /\ holds'[q] = {})
    BY <1>4 DEF CreateRole, AccessInv, AccessTypes
  <2>2. \A q \in PlatformRole : holds'[q] # NoRole
    BY <2>1, AccessAssumption, CustomRoles DEF AccessInv, AccessTypes, Exists
  <2> QED BY <1>4, <2>1, <2>2, CustomRoles, OtherRoles DEF CreateRole, AccessInv, AccessTypes
<1>5. ASSUME NEW h \in RoleAdmin, NEW r \in Role, NEW request \in SUBSET Permission, SyncRead(h, r, request)
      PROVE  AccessInv'
  <2> DEFINE s == [at |-> "delete", role |-> r, request |-> request, gone |-> {}, new |-> {}]
  <2>1. /\ r \in CustomRole /\ Exists(r) /\ sync' = [sync EXCEPT ![h] = s]
        /\ UNCHANGED <<catalog, holds, asked>>
    BY <1>5 DEF SyncRead
  <2>2. s \in SyncRow BY <2>1 DEF SyncRow
  <2>3. s.at = "delete" /\ s.role = r /\ s.new \subseteq s.request OBVIOUS
  <2> HIDE DEF s
  <2>4. AccessTypes' BY <2>1, <2>2 DEF AccessInv, AccessTypes, Exists
  <2>5. MadeFirst' BY <2>1, <2>3 DEF AccessInv, AccessTypes, MadeFirst, Exists
  <2>6. SyncKnows' BY <2>1, <2>3 DEF AccessInv, AccessTypes, SyncKnows
  <2>7. RoleIsAsAsked' BY <2>1 DEF AccessInv, RoleIsAsAsked
  <2> QED BY <2>4, <2>5, <2>6, <2>7 DEF AccessInv
<1>6. ASSUME NEW h \in RoleAdmin, SyncDelete(h)
      PROVE  AccessInv'
  <2> DEFINE r == sync[h].role
             s == [sync[h] EXCEPT !.at = "upsert", !.gone = Unlisted(r, sync[h].request)]
  <2>1. /\ sync[h] # NoSync /\ sync[h] \in SyncRow /\ sync[h].at = "delete" /\ r \in CustomRole /\ r \in Role
        /\ UNCHANGED <<catalog, holds>>
    BY <1>6, CustomRoles DEF SyncDelete, At, AccessInv, AccessTypes, SyncRow
  <2>2. sync' = [sync EXCEPT ![h] = s]
    BY <1>6 DEF SyncDelete
  <2>3. asked' = (IF Changing(r) = {} THEN [asked EXCEPT ![r] = {}] ELSE asked)
    BY <1>6 DEF SyncDelete
  <2>4. holds[r] \in SUBSET Permission
    <3>1. Exists(r) BY <2>1 DEF AccessInv, MadeFirst
    <3> QED BY <2>1, <3>1 DEF AccessInv, AccessTypes, Exists
  <2>5. /\ s \in SyncRow /\ s.at = "upsert" /\ s.role = r /\ s.request = sync[h].request
        /\ s.gone = holds[r] \ s.request /\ s.new = sync[h].new
    BY <2>1, <2>4 DEF SyncRow, Unlisted
  <2> HIDE DEF s, r
  <2>6. AccessTypes'
    <3>1. asked' \in [Role -> SUBSET SUBSET Permission]
      BY <2>1, <2>3 DEF AccessInv, AccessTypes, Exists
    <3> QED BY <2>1, <2>2, <2>5, <3>1 DEF AccessInv, AccessTypes, Exists
  <2>7. /\ \A q \in Role : asked'[q] = asked[q] \/ (q = r /\ asked'[q] = {} /\ Changing(r) = {})
        /\ sync'[h] = s /\ \A g \in RoleAdmin \ {h} : sync'[g] = sync[g]
    BY <2>1, <2>2, <2>3 DEF AccessInv, AccessTypes, Exists
  <2>8. MadeFirst'
    BY <2>1, <2>5, <2>7, CustomRoles DEF AccessInv, AccessTypes, MadeFirst, Exists, r
  <2>9. SyncKnows'
    <3>1. ASSUME NEW g \in RoleAdmin \ {h}, sync[g] # NoSync
          PROVE  sync[g].at # "delete" => asked'[sync[g].role] = asked[sync[g].role]
      <4>1. sync[g].role \in Role BY <3>1, CustomRoles DEF AccessInv, AccessTypes, SyncRow
      <4> QED BY <2>7, <3>1, <4>1 DEF Changing
    <3>2. ASSUME NEW g \in RoleAdmin \ {h}, sync'[g] # NoSync
          PROVE  LET k == sync'[g] IN
                 /\ k.new \subseteq k.request
                 /\ k.at # "delete" =>
                      /\ k.gone \cap k.request = {}
                      /\ holds'[k.role] \subseteq k.gone \cup k.request \cup UNION asked'[k.role]
                 /\ k.at = "commit" => \A p \in k.request \ k.new :
                      p \in holds'[k.role] \/ \E request \in asked'[k.role] : p \notin request
      BY <2>1, <2>7, <3>1, <3>2 DEF AccessInv, SyncKnows
    <3>3. s.new \subseteq s.request
      BY <2>1, <2>5 DEF AccessInv, SyncKnows
    <3> QED BY <2>1, <2>5, <2>7, <3>2, <3>3 DEF SyncKnows
  <2>10. RoleIsAsAsked'
    BY <2>1, <2>7, CustomRoles DEF AccessInv, RoleIsAsAsked
  <2> QED BY <2>6, <2>8, <2>9, <2>10 DEF AccessInv
<1>7. ASSUME NEW h \in RoleAdmin, SyncUpsert(h)
      PROVE  AccessInv'
  <2> DEFINE s == [sync[h] EXCEPT !.at = "commit", !.new = sync[h].request \ holds[sync[h].role]]
  <2>1. /\ sync[h] # NoSync /\ sync[h] \in SyncRow /\ sync[h].at = "upsert"
        /\ sync' = [sync EXCEPT ![h] = s] /\ UNCHANGED <<catalog, holds, asked>>
    BY <1>7 DEF SyncUpsert, At, AccessInv, AccessTypes
  <2>2. /\ s \in SyncRow /\ s.at = "commit" /\ s.role = sync[h].role /\ s.request = sync[h].request
        /\ s.gone = sync[h].gone /\ s.new = s.request \ holds[s.role]
    BY <2>1 DEF SyncRow
  <2> HIDE DEF s
  <2>3. AccessTypes' BY <2>1, <2>2 DEF AccessInv, AccessTypes, Exists
  <2>4. sync'[h] = s /\ \A g \in RoleAdmin \ {h} : sync'[g] = sync[g]
    BY <2>1 DEF AccessInv, AccessTypes, Exists
  <2>5. MadeFirst' BY <2>1, <2>2, <2>4 DEF AccessInv, MadeFirst, Exists
  <2>6. SyncKnows' BY <2>1, <2>2, <2>4 DEF AccessInv, SyncKnows
  <2>7. RoleIsAsAsked' BY <2>1 DEF AccessInv, RoleIsAsAsked
  <2> QED BY <2>3, <2>5, <2>6, <2>7 DEF AccessInv
<1>8. ASSUME NEW h \in RoleAdmin, SyncCommit(h)
      PROVE  AccessInv'
  <2> DEFINE r == sync[h].role
             left == (holds[r] \ sync[h].gone) \cup sync[h].new
  <2>1. /\ sync[h] # NoSync /\ sync[h] \in SyncRow /\ sync[h].at = "commit" /\ r \in CustomRole /\ r \in Role
        /\ catalog' = catalog /\ holds' = [holds EXCEPT ![r] = left]
        /\ asked' = [asked EXCEPT ![r] = asked[r] \cup {sync[h].request}]
        /\ sync' = [sync EXCEPT ![h] = NoSync]
    BY <1>8, CustomRoles DEF SyncCommit, At, AccessInv, AccessTypes, SyncRow
  <2>2. holds[r] \in SUBSET Permission /\ left \in SUBSET Permission /\ sync[h].request \in SUBSET Permission
    <3>1. Exists(r) BY <2>1 DEF AccessInv, MadeFirst
    <3>2. sync[h].new \in SUBSET Permission /\ sync[h].request \in SUBSET Permission
      BY <2>1 DEF SyncRow
    <3>3. holds[r] \in SUBSET Permission BY <2>1, <3>1 DEF AccessInv, AccessTypes, Exists
    <3> QED BY <3>2, <3>3
  <2>3. /\ holds'[r] = left /\ asked'[r] = asked[r] \cup {sync[h].request} /\ sync'[h] = NoSync
        /\ \A q \in Role \ {r} : holds'[q] = holds[q] /\ asked'[q] = asked[q]
        /\ \A g \in RoleAdmin \ {h} : sync'[g] = sync[g]
    BY <2>1 DEF AccessInv, AccessTypes, Exists
  <2>4. /\ sync[h].gone \cap sync[h].request = {} /\ sync[h].new \subseteq sync[h].request
        /\ holds[r] \subseteq sync[h].gone \cup sync[h].request \cup UNION asked[r]
        /\ \A p \in sync[h].request \ sync[h].new :
             p \in holds[r] \/ \E request \in asked[r] : p \notin request
    BY <2>1 DEF AccessInv, SyncKnows
  <2>5. AccessTypes'
    <3>1. catalog' \subseteq Permission /\ holds' \in [Role -> (SUBSET Permission) \cup {NoRole}]
      BY <2>1, <2>2 DEF AccessInv, AccessTypes
    <3>2. \A q \in PlatformRole : Exists(q)'
      BY <2>2, <2>3, CustomRoles, AccessAssumption DEF AccessInv, AccessTypes, Exists
    <3>3. sync' \in [RoleAdmin -> SyncRow \cup {NoSync}] /\ asked' \in [Role -> SUBSET SUBSET Permission]
      <4> HIDE DEF left
      <4> QED BY <2>1, <2>2 DEF AccessInv, AccessTypes
    <3> QED BY <3>1, <3>2, <3>3 DEF AccessTypes
  <2>6. MadeFirst'
    BY <2>1, <2>2, <2>3, AccessAssumption, CustomRoles DEF AccessInv, MadeFirst, Exists
  <2>7. RoleIsAsAsked'
    <3>1. ASSUME NEW p \in Permission, \A request \in asked'[r] : p \in request
          PROVE  p \in left
      BY <2>3, <2>4, <3>1
    <3>2. left \subseteq UNION asked'[r]
      BY <2>3, <2>4
    <3> QED BY <2>3, <3>1, <3>2, CustomRoles DEF AccessInv, RoleIsAsAsked
  <2>8. SyncKnows'
    <3> SUFFICES ASSUME NEW g \in RoleAdmin \ {h}, sync[g] # NoSync
                 PROVE  LET k == sync[g] IN
                        /\ k.new \subseteq k.request
                        /\ k.at # "delete" =>
                             /\ k.gone \cap k.request = {}
                             /\ holds'[k.role] \subseteq k.gone \cup k.request \cup UNION asked'[k.role]
                        /\ k.at = "commit" => \A p \in k.request \ k.new :
                             p \in holds'[k.role] \/ \E request \in asked'[k.role] : p \notin request
      BY <2>3 DEF SyncKnows
    <3> DEFINE k == sync[g]
    <3>1. /\ k.role \in CustomRole /\ k.new \subseteq k.request
          /\ k.at # "delete" =>
               /\ k.gone \cap k.request = {}
               /\ holds[k.role] \subseteq k.gone \cup k.request \cup UNION asked[k.role]
          /\ k.at = "commit" => \A p \in k.request \ k.new :
               p \in holds[k.role] \/ \E request \in asked[k.role] : p \notin request
      BY DEF AccessInv, AccessTypes, SyncRow, SyncKnows
    <3> HIDE DEF k
    <3>2. CASE k.role # r
      BY <2>3, <3>1, <3>2, CustomRoles DEF k
    <3>3. CASE k.role = r
      <4>1. k.at # "delete" => holds'[r] \subseteq k.gone \cup k.request \cup UNION asked'[r]
        <5>1. left \subseteq holds[r] \cup sync[h].request BY <2>4
        <5> QED BY <2>3, <3>1, <3>3, <5>1
      <4>2. ASSUME k.at = "commit", NEW p \in k.request \ k.new
            PROVE  p \in holds'[r] \/ \E request \in asked'[r] : p \notin request
        <5>1. CASE p \in sync[h].request
          BY <2>3, <2>4, <3>1, <3>3, <4>2, <5>1
        <5>2. CASE p \notin sync[h].request
          BY <2>3, <5>2
        <5> QED BY <5>1, <5>2
      <4> QED BY <3>1, <3>3, <4>1, <4>2 DEF k
    <3> QED BY <3>2, <3>3
  <2> QED BY <2>5, <2>6, <2>7, <2>8 DEF AccessInv
<1>9. ASSUME NEW h \in RoleAdmin, SyncRollsBack(h)
      PROVE  AccessInv'
  <2>1. sync' = [sync EXCEPT ![h] = NoSync] /\ UNCHANGED <<catalog, holds, asked>>
    BY <1>9 DEF SyncRollsBack
  <2>2. AccessTypes' BY <2>1 DEF AccessInv, AccessTypes, Exists
  <2>3. MadeFirst' BY <2>1 DEF AccessInv, AccessTypes, MadeFirst, Exists
  <2>4. SyncKnows' BY <2>1 DEF AccessInv, AccessTypes, SyncKnows
  <2>5. RoleIsAsAsked' BY <2>1 DEF AccessInv, RoleIsAsAsked
  <2> QED BY <2>2, <2>3, <2>4, <2>5 DEF AccessInv
<1> QED
  BY <1>1, <1>2, <1>3, <1>4, <1>5, <1>6, <1>7, <1>8, <1>9
  DEF AccessNext, accessVars, AssignUserRole, RemoveUserRole, WindowPasses

\* syncRolePermissions, at once with others and over any permissions and roles:
\* the role holds what all the requests asked for that overlapped last, and
\* nothing that none did.
THEOREM RoleIsAlwaysAsAsked == AccessSpec => []RoleIsAsAsked
<1>1. AccessInit => AccessInv
  <2> SUFFICES ASSUME AccessInit PROVE AccessInv
    OBVIOUS
  <2>1. AccessTypes
    <3>1. catalog \subseteq Permission BY DEF AccessInit
    <3>2. holds \in [Role -> (SUBSET Permission) \cup {NoRole}]
      BY AccessAssumption, <3>1 DEF AccessInit
    <3>3. \A r \in PlatformRole : holds[r] \in SUBSET Permission
      BY AccessAssumption, <3>1, CustomRoles DEF AccessInit
    <3>4. sync \in [RoleAdmin -> SyncRow \cup {NoSync}] /\ asked \in [Role -> SUBSET SUBSET Permission]
      BY DEF AccessInit
    <3> QED BY AccessAssumption, <3>1, <3>2, <3>3, <3>4 DEF AccessTypes, Exists
  <2> QED BY <2>1, CustomRoles DEF AccessInit, AccessInv, MadeFirst, SyncKnows, RoleIsAsAsked
<1>2. AccessInv => RoleIsAsAsked
  BY DEF AccessInv
<1> QED BY <1>1, <1>2, AccessStep, PTL DEF AccessSpec

----------------------------------------------------------------------------
\* EmploymentRecords: relationships.

TermUpdate == [record : TermId, from : RecordDay, to : End]
RelationUpdate == [record : RelationId, says : SUBSET {"type", "leader"}, type : RelationType, leader : Leader,
                   from : RecordDay, to : End]

RelationTypes ==
  /\ relation \in [RelationId -> RelationRow \cup {NoRelation}]
  /\ update \in [RecordClerk -> TermUpdate \cup RelationUpdate \cup {NoUpdate}]

Updating(k) == update[k] # NoUpdate /\ update[k].record \in RelationId
Pair(r) == <<relation[r].type, relation[r].leader>>
WillBe(k) == Merged(update[k].record, update[k].says, update[k].type, update[k].leader)

Fit ==
  /\ \A r \in RelationId : relation[r] # NoRelation => Pair(r) \in validated
  /\ \A k \in RecordClerk : Updating(k) => relation[update[k].record] # NoRelation /\ WillBe(k) \in validated
  /\ \A k, o \in RecordClerk : Updating(k) /\ Updating(o) /\ update[k].record = update[o].record => k = o

RelationInv == RelationTypes /\ Fit

\* A step that writes no relationship, and leaves the updates of them alone.
LEMMA RelationsLeft ==
  ASSUME RelationInv, UNCHANGED <<relation, validated>>, RelationTypes',
         \A k \in RecordClerk : Updating(k)' => update'[k] = update[k]
  PROVE  RelationInv'
<1>1. \A k \in RecordClerk : Updating(k)' => Updating(k) /\ (WillBe(k))' = WillBe(k)
  BY DEF Updating, WillBe, Merged
<1> QED BY <1>1 DEF RelationInv, Fit, Pair, Updating

LEMMA RelationStep ==
  ASSUME RelationsInTurns, RelationInv, [EmploymentRecordsNext]_employmentRecordVars
  PROVE  RelationInv'
<1>1. CASE UNCHANGED <<relation, validated, update>>
  BY <1>1, RelationsLeft DEF RelationInv, RelationTypes, Updating
<1>2. ASSUME NEW k \in RecordClerk, UNCHANGED <<relation, validated>>,
             NEW new \in TermUpdate \cup {NoUpdate}, update' = [update EXCEPT ![k] = new]
      PROVE  RelationInv'
  <2>1. RelationTypes' BY <1>2 DEF RelationInv, RelationTypes
  <2>2. ~Updating(k)' BY <1>2, EmploymentRecordsAssumption DEF Updating, TermUpdate, RelationInv, RelationTypes
  <2>3. \A o \in RecordClerk \ {k} : update'[o] = update[o] BY <1>2 DEF RelationInv, RelationTypes
  <2> QED BY <1>2, <2>1, <2>2, <2>3, RelationsLeft
<1>3. ASSUME NEW t \in TermId, NEW k \in RecordClerk, NEW from \in RecordDay, NEW to \in End,
             UpdateTermRead(k, t, from, to)
      PROVE  RelationInv'
  <2>1. [record |-> t, from |-> from, to |-> to] \in TermUpdate BY DEF TermUpdate
  <2> QED BY <1>2, <1>3, <2>1 DEF UpdateTermRead, relationVars
<1>4. ASSUME NEW k \in RecordClerk, UNCHANGED <<relation, validated>>, update' = [update EXCEPT ![k] = NoUpdate]
      PROVE  RelationInv'
  BY <1>2, <1>4
<1>5. ASSUME NEW r \in RelationId, NEW row \in RelationRow, CreateRelation(r, row)
      PROVE  RelationInv'
  <2> DEFINE ends(o) == /\ row.type \in Exclusive /\ row.status = "ACTIVE" /\ relation[o] # NoRelation
                        /\ relation[o].type = row.type /\ relation[o].status = "ACTIVE"
                        /\ relation[o].to = OpenEnd
             ended(o) == [relation[o] EXCEPT !.status = "ENDED", !.to = row.from]
  <2>1. /\ relation[r] = NoRelation /\ update' = update
        /\ validated' = validated \cup {<<row.type, row.leader>>}
        /\ relation' = [o \in RelationId |->
             IF o = r THEN row ELSE IF ends(o) THEN ended(o) ELSE relation[o]]
    BY <1>5 DEF CreateRelation
  <2>2. ASSUME NEW o \in RelationId, ends(o)
        PROVE  ended(o) \in RelationRow /\ ended(o).type = relation[o].type /\ ended(o).leader = relation[o].leader
    <3>1. relation[o] \in RelationRow BY <2>2 DEF RelationInv, RelationTypes
    <3>2. row.from \in End BY DEF RelationRow, End
    <3> QED BY <3>1, <3>2 DEF RelationRow, ReportingRelationshipStatus
  <2>3. \A o \in RelationId :
          /\ relation'[o] = row \/ o # r
          /\ o # r => \/ relation'[o] = relation[o]
                      \/ /\ relation'[o] \in RelationRow /\ relation[o] # NoRelation
                         /\ relation'[o].type = relation[o].type /\ relation'[o].leader = relation[o].leader
    BY <2>1, <2>2
  <2> HIDE DEF ends, ended
  <2>4. RelationTypes'
    <3>1. \A o \in RelationId : relation'[o] \in RelationRow \cup {NoRelation}
      BY <2>3 DEF RelationInv, RelationTypes
    <3>2. relation' \in [RelationId -> RelationRow \cup {NoRelation}]
      BY <2>1, <3>1
    <3> QED BY <2>1, <3>2 DEF RelationInv, RelationTypes
  <2>5. Fit'
    <3>1. \A o \in RelationId : relation'[o] # NoRelation => Pair(o)' \in validated'
      BY <2>1, <2>3 DEF RelationInv, Fit, Pair
    <3>2. ASSUME NEW k \in RecordClerk, Updating(k)
          PROVE  relation'[update[k].record] # NoRelation /\ (WillBe(k))' \in validated'
      <4>1. update[k].record \in RelationId \ {r} BY <2>1, <3>2 DEF Updating, RelationInv, Fit
      <4> QED BY <2>1, <2>3, <3>2, <4>1, NoRelationIsNoRow DEF RelationInv, Fit, WillBe, Merged
    <3> QED BY <2>1, <3>1, <3>2 DEF RelationInv, Fit, Updating
  <2> QED BY <2>4, <2>5 DEF RelationInv
<1>6. ASSUME NEW k \in RecordClerk, NEW r \in RelationId, NEW says \in SUBSET {"type", "leader"},
             NEW type \in RelationType, NEW leader \in Leader, NEW from \in RecordDay, NEW to \in End,
             UpdateRelationRead(k, r, says, type, leader, from, to)
      PROVE  RelationInv'
  <2> DEFINE new == [record |-> r, says |-> says, type |-> type, leader |-> leader, from |-> from, to |-> to]
  <2>1. /\ relation[r] # NoRelation /\ relation' = relation
        /\ RelationsInTurns => \A o \in RecordClerk : update[o] # NoUpdate => update[o].record # r
        /\ validated' = validated \cup {Merged(r, says, type, leader)}
        /\ update' = [update EXCEPT ![k] = new]
    BY <1>6 DEF UpdateRelationRead
  <2>2. /\ new \in RelationUpdate /\ new.record = r /\ new.says = says /\ new.type = type /\ new.leader = leader
    BY DEF RelationUpdate
  <2> HIDE DEF new
  <2>3. update'[k] = new /\ \A o \in RecordClerk \ {k} : update'[o] = update[o]
    BY <2>1 DEF RelationInv, RelationTypes
  <2>4. RelationTypes' BY <2>1, <2>2 DEF RelationInv, RelationTypes
  <2>5. Fit'
    <3>1. \A o \in RelationId : relation'[o] # NoRelation => Pair(o)' \in validated'
      BY <2>1 DEF RelationInv, Fit, Pair
    <3>2. ASSUME NEW o \in RecordClerk, Updating(o)'
          PROVE  relation'[update'[o].record] # NoRelation /\ (WillBe(o))' \in validated'
      <4>1. CASE o = k BY <2>1, <2>2, <2>3, <4>1 DEF WillBe, Merged
      <4>2. CASE o # k BY <2>1, <2>3, <3>2, <4>2 DEF WillBe, Merged, RelationInv, Fit, Updating
      <4> QED BY <4>1, <4>2
    <3>3. \A o \in RecordClerk \ {k} : Updating(o)' => update'[o].record # r /\ Updating(o)
      BY <2>1, <2>3 DEF Updating
    <3> QED BY <2>2, <2>3, <3>1, <3>2, <3>3 DEF RelationInv, Fit, Updating
  <2> QED BY <2>4, <2>5 DEF RelationInv
<1>7. ASSUME NEW k \in RecordClerk, NEW status \in ReportingRelationshipStatus, UpdateRelationCommit(k, status)
      PROVE  RelationInv'
  <2> DEFINE u == update[k]
             r == u.record
             row == [type |-> IF "type" \in u.says THEN u.type ELSE relation[r].type,
                     leader |-> IF "leader" \in u.says THEN u.leader ELSE relation[r].leader,
                     status |-> status, from |-> u.from, to |-> u.to]
  <2>1. /\ u # NoUpdate /\ r \in RelationId /\ validated' = validated
        /\ relation' = [relation EXCEPT ![r] = row] /\ update' = [update EXCEPT ![k] = NoUpdate]
    BY <1>7 DEF UpdateRelationCommit, RelationInv, RelationTypes
  <2>2. u \in RelationUpdate
    BY <2>1, EmploymentRecordsAssumption DEF RelationInv, RelationTypes, TermUpdate
  <2>3. relation[r] \in RelationRow
    BY <2>1 DEF RelationInv, RelationTypes, Fit, Updating
  <2>4. /\ row \in RelationRow /\ <<row.type, row.leader>> = WillBe(k) /\ row # NoRelation
    <3>1. row \in RelationRow BY <2>2, <2>3 DEF RelationRow, RelationUpdate
    <3> QED BY <3>1, NoRelationIsNoRow DEF WillBe, Merged
  <2>5. WillBe(k) \in validated /\ Updating(k) BY <2>1 DEF RelationInv, Fit, Updating
  <2>6. \A o \in RecordClerk \ {k} : Updating(o) => update[o].record # r
    BY <2>5 DEF RelationInv, Fit
  <2>7. r \in RelationId BY <2>1
  <2> HIDE DEF row, u, r
  <2>8. /\ relation'[r] = row /\ \A o \in RelationId \ {r} : relation'[o] = relation[o]
        /\ update'[k] = NoUpdate /\ \A o \in RecordClerk \ {k} : update'[o] = update[o]
    BY <2>1 DEF RelationInv, RelationTypes
  <2>9. RelationTypes' BY <2>1, <2>4 DEF RelationInv, RelationTypes
  <2>10. Fit'
    <3>1. \A o \in RelationId : relation'[o] # NoRelation => Pair(o)' \in validated'
      BY <2>1, <2>4, <2>5, <2>8 DEF RelationInv, Fit, Pair
    <3>2. \A o \in RecordClerk : Updating(o)' => o # k /\ Updating(o) /\ update'[o] = update[o]
      BY <2>8 DEF Updating
    <3>3. \A o \in RecordClerk : Updating(o)' => relation'[update'[o].record] = relation[update[o].record]
      BY <2>6, <2>8, <3>2 DEF Updating
    <3>4. \A o \in RecordClerk : Updating(o)' => (WillBe(o))' = WillBe(o)
      BY <3>2, <3>3 DEF WillBe, Merged
    <3> QED BY <2>1, <3>1, <3>2, <3>3, <3>4 DEF RelationInv, Fit
  <2> QED BY <2>9, <2>10 DEF RelationInv
<1> QED
  BY <1>1, <1>3, <1>4, <1>5, <1>6, <1>7
  DEF EmploymentRecordsNext, TermNext, RelationNext, employmentRecordVars, relationVars, termVars,
      CreateTerm, UpdateTermCommit, CreateCompensationChange, ApproveCompensationChange,
      ApplyCompensationChange, StatusOfLeader, CreateDesignation, UpdateDesignation, UpdateStops

\* updateReportingRelationship, whose transaction writes what validateReporting-
\* Relationship let pass before it: type and leader have passed it together,
\* for any relationships and clerks who do not overlap on one of them.
THEOREM RelationsAlwaysFit == EmploymentRecordsSpec => []RelationsFit
<1> DEFINE Inv == RelationsInTurns => RelationInv
<1>1. EmploymentRecordsInit => Inv
  BY DEF EmploymentRecordsInit, RelationInv, RelationTypes, Fit, Updating
<1>2. Inv /\ [EmploymentRecordsNext]_employmentRecordVars => Inv'
  BY RelationStep
<1>3. Inv => RelationsFit
  BY DEF RelationInv, Fit, Pair, RelationsFit
<1> QED BY <1>1, <1>2, <1>3, PTL DEF EmploymentRecordsSpec

----------------------------------------------------------------------------
\* Organization, for every set of nodes, cost centers, grades, positions,
\* assignments and skills: type correctness.

LEMMA PostRefsType ==
  ASSUME OrganizationTypeOK, NEW refs \in References
  PROVE  PostRefs(refs) \in References
<1>1. NodeOfCenter(refs.center) \in Node \cup {Absent}
  BY OrganizationAssumption DEF NodeOfCenter, LiveCenter, CenterRow, OrganizationTypeOK
<1> QED
  BY <1>1 DEF PostRefs, References

LEMMA OrganizationTypeStep ==
  OrganizationTypeOK /\ [OrganizationNext]_structureVars => OrganizationTypeOK'
<1> SUFFICES ASSUME OrganizationTypeOK, [OrganizationNext]_structureVars
             PROVE  OrganizationTypeOK'
  OBVIOUS
<1> USE OrganizationAssumption DEF OrganizationTypeOK
<1>1. CASE UnitNext
  <2>1. ASSUME NEW n \in Node, NEW st \in {"active", "inactive"}, UpdateNode(n, st)
        PROVE  OrganizationTypeOK'
    BY <2>1 DEF UpdateNode, LiveNode, NodeRow, UnitStatus
  <2>2. ASSUME NEW n \in Node, NEW st \in {"active", "inactive"},
               NEW p \in Node \cup {Absent}, CreateNode(n, p, st) \/ MoveNode(n, p, st)
        PROVE  OrganizationTypeOK'
    BY <2>2 DEF CreateNode, MoveNode, NodeRow, UnitStatus
  <2>3. ASSUME NEW n \in Node, DeleteNode(n)
        PROVE  OrganizationTypeOK'
    BY <2>3 DEF DeleteNode, LiveNode, NodeRow, UnitStatus
  <2>4. ASSUME NEW c \in Center, NEW n \in Node \cup {Absent},
               NEW st \in {"active", "inactive"}, PutCenter(c, n, st)
        PROVE  OrganizationTypeOK'
    BY <2>4 DEF PutCenter, CenterRow, UnitStatus
  <2>5. ASSUME NEW c \in Center, DeleteCenter(c)
        PROVE  OrganizationTypeOK'
    BY <2>5 DEF DeleteCenter, LiveCenter, CenterRow, UnitStatus
  <2> QED
    BY <1>1, <2>1, <2>2, <2>3, <2>4, <2>5 DEF UnitNext
<1>2. CASE SkillNext
  BY <1>2 DEF SkillNext, PutSkill, DeleteSkill, RequireSkill, DropSkill, LivePost
<1>3. CASE PostNext
  <2>1. ASSUME NEW r \in Rung, PutRung(r) \/ DeleteRung(r)
        PROVE  OrganizationTypeOK'
    BY <2>1 DEF PutRung, DeleteRung
  <2>2. ASSUME NEW p \in Post, NEW refs \in References, PutPost(p, refs)
        PROVE  OrganizationTypeOK'
    BY <2>2, PostRefsType DEF PutPost, PostRow
  <2>3. ASSUME NEW p \in Post, ArchivePost(p) \/ ReopenPost(p)
        PROVE  OrganizationTypeOK'
    <3>1. post[p] \in PostRow
      BY <2>3 DEF ArchivePost, ReopenPost, LivePost
    <3>2. /\ [post[p] EXCEPT !.deleted = TRUE] \in PostRow
          /\ [post[p] EXCEPT !.deleted = FALSE, !.unchecked = TRUE] \in PostRow
      BY <3>1 DEF PostRow
    <3>3. CASE ArchivePost(p)
      BY <3>2, <3>3 DEF ArchivePost
    <3>4. CASE ReopenPost(p)
      BY <3>2, <3>4 DEF ReopenPost
    <3> QED
      BY <2>3, <3>3, <3>4
  <2> QED
    BY <1>3, <2>1, <2>2, <2>3 DEF PostNext
<1>4. CASE StintNext
  <2>1. ASSUME NEW s \in Stint, NEW p \in Post \cup {Absent}, NEW refs \in References,
               NEW end \in {"open", "ending", "ended"}, CreateStint(s, p, refs, end)
        PROVE  OrganizationTypeOK'
    <3>1. RefsOfPost(p) \in References
      BY <2>1 DEF CreateStint, RefsOfPost, LivePost, NoRefs, References, PostRow
    <3>2. Given(refs, RefsOfPost(p)) \in References
      BY <3>1 DEF Given, References
    <3> QED
      BY <2>1, <3>2 DEF CreateStint, StintRow
  <2>2. ASSUME NEW s \in Stint, NEW p \in Post \cup {Absent}, NEW refs \in References,
               NEW end \in {"open", "ending", "ended"}, UpdateStint(s, p, refs, end)
        PROVE  OrganizationTypeOK'
    <3> DEFINE others == IF p = Absent THEN stint[s].refs ELSE post[p].refs
               q == IF p = Absent THEN stint[s].post ELSE p
    <3>1. others \in References /\ q \in Post \cup {Absent}
      BY <2>2 DEF UpdateStint, LivePost, PostRow, StintRow
    <3>2. Given(refs, others) \in References
      BY <3>1 DEF Given, References
    <3>3. stint' = [stint EXCEPT ![s] = [refs |-> Given(refs, others), post |-> q, end |-> end]]
      BY <2>2 DEF UpdateStint
    <3>4. UNCHANGED <<node, center, rung, post, skill, skilled>>
      BY <2>2 DEF UpdateStint
    <3> HIDE DEF others, q
    <3> QED
      BY <3>1, <3>2, <3>3, <3>4 DEF StintRow
  <2>3. ASSUME NEW s \in Stint, NEW end \in {"ending", "ended"}, EndStint(s, end)
        PROVE  OrganizationTypeOK'
    BY <2>3 DEF EndStint, RunningStint, StintRow
  <2>4. ASSUME NEW s \in Stint, DeleteStint(s)
        PROVE  OrganizationTypeOK'
    BY <2>4 DEF DeleteStint
  <2> QED
    BY <1>4, <2>1, <2>2, <2>3, <2>4 DEF StintNext
<1>5. CASE UNCHANGED structureVars
  BY <1>5 DEF structureVars
<1> QED
  BY <1>1, <1>2, <1>3, <1>4, <1>5 DEF OrganizationNext

----------------------------------------------------------------------------
(* What the handlers of nodes do to the nodes that live. *)

LEMMA NodeCreated ==
  ASSUME OrganizationTypeOK, NEW n \in Node, NEW p \in Node \cup {Absent},
         NEW st \in {"active", "inactive"}, CreateNode(n, p, st)
  PROVE  /\ LiveNode' = LiveNode \cup {n} /\ n \notin LiveNode
         /\ node'[n].parent = p /\ p \in LiveNode \cup {Absent}
         /\ \A m \in LiveNode : node'[m] = node[m]
<1> USE OrganizationAssumption DEF OrganizationTypeOK
<1>1. [is |-> st, parent |-> p] \in NodeRow /\ [is |-> st, parent |-> p] # Absent
  BY DEF NodeRow, UnitStatus
<1>2. /\ node[n] = Absent /\ p \in LiveNode \cup {Absent}
      /\ node' = [node EXCEPT ![n] = [is |-> st, parent |-> p]]
  BY DEF CreateNode
<1>3. node'[n] = [is |-> st, parent |-> p] /\ \A m \in Node : m # n => node'[m] = node[m]
  BY <1>2
<1>4. st # "deleted"
  OBVIOUS
<1> QED
  BY <1>1, <1>2, <1>3, <1>4 DEF LiveNode

LEMMA NodeUpdated ==
  ASSUME OrganizationTypeOK, NEW n \in Node, NEW st \in {"active", "inactive"},
         UpdateNode(n, st)
  PROVE  /\ LiveNode' = LiveNode
         /\ \A m \in LiveNode : node'[m].parent = node[m].parent
<1> USE OrganizationAssumption DEF OrganizationTypeOK
<1>1. /\ n \in LiveNode /\ node[n] \in NodeRow
      /\ node' = [node EXCEPT ![n] = [node[n] EXCEPT !.is = st]]
  BY DEF UpdateNode, LiveNode
<1>2. /\ [node[n] EXCEPT !.is = st] \in NodeRow
      /\ [node[n] EXCEPT !.is = st].is = st
      /\ [node[n] EXCEPT !.is = st].parent = node[n].parent
  BY <1>1 DEF NodeRow, UnitStatus
<1>3. st # "deleted"
  OBVIOUS
<1> QED
  BY <1>1, <1>2, <1>3 DEF LiveNode

LEMMA NodeMoved ==
  ASSUME OrganizationTypeOK, NEW n \in Node, NEW p \in Node \cup {Absent},
         NEW st \in {"active", "inactive"}, MoveNode(n, p, st)
  PROVE  /\ LiveNode' = LiveNode /\ n \in LiveNode
         /\ p \in LiveNode \cup {Absent} /\ (p # Absent => SafeParent(n, p))
         /\ node'[n].parent = p /\ \A m \in Node : m # n => node'[m] = node[m]
<1> USE OrganizationAssumption DEF OrganizationTypeOK
<1>1. [is |-> st, parent |-> p] \in NodeRow
  BY DEF NodeRow, UnitStatus
<1>2. /\ n \in LiveNode /\ node' = [node EXCEPT ![n] = [is |-> st, parent |-> p]]
      /\ p \in LiveNode \cup {Absent} /\ (p # Absent => SafeParent(n, p))
  BY DEF MoveNode
<1>3. st # "deleted"
  OBVIOUS
<1> QED
  BY <1>1, <1>2, <1>3 DEF LiveNode

LEMMA NodeDeleted ==
  ASSUME OrganizationTypeOK, NEW n \in Node, DeleteNode(n)
  PROVE  /\ LiveNode' = LiveNode \ {n} /\ n \in LiveNode
         /\ \A m \in LiveNode' : node'[m] = node[m]
<1> USE OrganizationAssumption DEF OrganizationTypeOK
<1>1. /\ n \in LiveNode /\ node[n] \in NodeRow
      /\ node' = [node EXCEPT ![n] = [node[n] EXCEPT !.is = "deleted"]]
  BY DEF DeleteNode, LiveNode
<1>2. [node[n] EXCEPT !.is = "deleted"].is = "deleted"
  BY <1>1 DEF NodeRow
<1> QED
  BY <1>1, <1>2 DEF LiveNode

----------------------------------------------------------------------------
(* The forest *)

\* A move keeps the forest: of nodes that have both ends of the new edge, those
\* that the walk over the parents may pass have one whose parent is not among
\* them, as they had before, and it is not the node that moves.
LEMMA ForestMoved ==
  ASSUME OrganizationTypeOK, Forest, NEW n \in Node, NEW p \in Node \cup {Absent},
         NEW st \in {"active", "inactive"}, MoveNode(n, p, st)
  PROVE  Forest'
<1>1. /\ LiveNode' = LiveNode /\ n \in LiveNode
      /\ p \in LiveNode \cup {Absent} /\ (p # Absent => SafeParent(n, p))
      /\ node'[n].parent = p /\ \A m \in Node : m # n => node'[m] = node[m]
  BY NodeMoved
<1> SUFFICES ASSUME NEW S \in SUBSET LiveNode, S # {}
             PROVE  \E m \in S : node'[m].parent \notin S
  BY <1>1 DEF Forest
<1>2. LiveNode \subseteq Node /\ Absent \notin S
  BY OrganizationAssumption DEF LiveNode
<1>3. CASE n \notin S
  <2>1. PICK m \in S : node[m].parent \notin S
    BY DEF Forest
  <2> QED
    BY <1>1, <1>2, <1>3, <2>1
<1>4. CASE n \in S /\ p \notin S
  BY <1>1, <1>4
<1>5. CASE n \in S /\ p \in S
  <2>1. PICK Above \in SUBSET LiveNode :
          /\ p \in Above /\ n \notin Above
          /\ \A a \in Above : node[a].parent \in LiveNode => node[a].parent \in Above
    BY <1>1, <1>2, <1>5 DEF SafeParent
  <2>2. PICK m \in S \cap Above : node[m].parent \notin S \cap Above
    <3>1. S \cap Above \in (SUBSET LiveNode) \ {{}}
      BY <1>5, <2>1
    <3> QED
      BY <3>1 DEF Forest
  <2>3. m # n /\ node'[m] = node[m]
    BY <1>1, <1>2, <2>1, <2>2
  <2>4. node[m].parent \notin S
    BY <2>1, <2>2
  <2> QED
    BY <2>2, <2>3, <2>4
<1> QED
  BY <1>3, <1>4, <1>5

LEMMA ForestStep ==
  OrganizationTypeOK /\ NodesKept /\ Forest /\ [OrganizationNext]_structureVars => Forest'
<1> SUFFICES ASSUME OrganizationTypeOK, NodesKept, Forest, [OrganizationNext]_structureVars
             PROVE  Forest'
  OBVIOUS
<1> USE OrganizationAssumption
<1>1. CASE UNCHANGED node
  BY <1>1 DEF Forest, LiveNode
<1>2. ASSUME NEW n \in Node, NEW p \in Node \cup {Absent}, NEW st \in {"active", "inactive"},
             CreateNode(n, p, st)
      PROVE  Forest'
  <2>1. /\ LiveNode' = LiveNode \cup {n} /\ n \notin LiveNode
        /\ node'[n].parent = p /\ p \in LiveNode \cup {Absent}
        /\ \A m \in LiveNode : node'[m] = node[m]
    BY <1>2, NodeCreated
  <2> SUFFICES ASSUME NEW S \in SUBSET (LiveNode \cup {n}), S # {}
               PROVE  \E m \in S : node'[m].parent \notin S
    BY <2>1 DEF Forest
  <2>2. CASE S = {n}
    BY <2>1, <2>2
  <2>3. CASE S # {n}
    <3>1. S \ {n} \in (SUBSET LiveNode) \ {{}}
      BY <2>3
    <3>2. PICK m \in S \ {n} : node[m].parent \notin S \ {n}
      BY <3>1 DEF Forest
    <3>3. node[m].parent \in LiveNode \cup {Absent} /\ m \in LiveNode
      BY <3>1, <3>2 DEF NodesKept
    <3>4. node[m].parent # n
      BY <2>1, <3>3
    <3> QED
      BY <2>1, <3>2, <3>3, <3>4
  <2> QED
    BY <2>2, <2>3
<1>3. ASSUME NEW n \in Node, NEW st \in {"active", "inactive"}, UpdateNode(n, st)
      PROVE  Forest'
  <2>1. LiveNode' = LiveNode /\ \A m \in LiveNode : node'[m].parent = node[m].parent
    BY <1>3, NodeUpdated
  <2> QED
    BY <2>1 DEF Forest
<1>4. ASSUME NEW n \in Node, NEW p \in Node \cup {Absent}, NEW st \in {"active", "inactive"},
             MoveNode(n, p, st)
      PROVE  Forest'
  BY <1>4, ForestMoved
<1>5. ASSUME NEW n \in Node, DeleteNode(n)
      PROVE  Forest'
  <2>1. LiveNode' = LiveNode \ {n} /\ \A m \in LiveNode' : node'[m] = node[m]
    BY <1>5, NodeDeleted
  <2> QED
    BY <2>1 DEF Forest
<1>6. UNCHANGED node \/ UnitNext
  BY DEF OrganizationNext, structureVars, SkillNext, PutSkill, DeleteSkill, RequireSkill,
         DropSkill, PostNext, PutRung, DeleteRung, PutPost, ArchivePost, ReopenPost,
         StintNext, CreateStint, UpdateStint, EndStint, DeleteStint
<1> QED
  BY <1>1, <1>2, <1>3, <1>4, <1>5, <1>6 DEF UnitNext, PutCenter, DeleteCenter

----------------------------------------------------------------------------
(* What is deleted is not in use *)

LEMMA CenterPut ==
  ASSUME OrganizationTypeOK, NEW c \in Center, NEW n \in Node \cup {Absent},
         NEW st \in {"active", "inactive"}, PutCenter(c, n, st)
  PROVE  /\ LiveCenter' = LiveCenter \cup {c} /\ UNCHANGED LiveNode
         /\ n \in LiveNode \cup {Absent} /\ center'[c].node = n
         /\ \A d \in Center : d # c => center'[d] = center[d]
<1> USE OrganizationAssumption DEF OrganizationTypeOK
<1>1. [is |-> st, node |-> n] \in CenterRow
  BY DEF CenterRow, UnitStatus
<1>2. /\ n \in LiveNode \cup {Absent} /\ node' = node
      /\ center' = [center EXCEPT ![c] = [is |-> st, node |-> n]]
  BY DEF PutCenter
<1>3. center'[c] = [is |-> st, node |-> n] /\ \A d \in Center : d # c => center'[d] = center[d]
  BY <1>2
<1>4. st # "deleted"
  OBVIOUS
<1> QED
  BY <1>1, <1>2, <1>3, <1>4 DEF LiveCenter, LiveNode

LEMMA CenterDeleted ==
  ASSUME OrganizationTypeOK, NEW c \in Center, DeleteCenter(c)
  PROVE  /\ LiveCenter' = LiveCenter \ {c} /\ UNCHANGED LiveNode /\ UnusedCenter(c)
         /\ \A d \in LiveCenter' : center'[d] = center[d]
<1> USE OrganizationAssumption DEF OrganizationTypeOK
<1>1. /\ c \in LiveCenter /\ center[c] \in CenterRow /\ node' = node /\ UnusedCenter(c)
      /\ center' = [center EXCEPT ![c] = [center[c] EXCEPT !.is = "deleted"]]
  BY DEF DeleteCenter, LiveCenter
<1>2. [center[c] EXCEPT !.is = "deleted"].is = "deleted"
  BY <1>1 DEF CenterRow
<1> QED
  BY <1>1, <1>2 DEF LiveCenter, LiveNode

\* A handler of nodes and cost centers takes away nothing, or one that is not in use.
LEMMA UnitsLost ==
  ASSUME OrganizationTypeOK, UnitNext
  PROVE  /\ UNCHANGED <<rung, post, stint, skill, skilled>>
         /\ \/ LiveNode \subseteq LiveNode' /\ LiveCenter \subseteq LiveCenter'
            \/ /\ LiveCenter' = LiveCenter
               /\ \E n \in Node : UnusedNode(n) /\ LiveNode' = LiveNode \ {n}
            \/ /\ LiveNode' = LiveNode
               /\ \E c \in Center : UnusedCenter(c) /\ LiveCenter' = LiveCenter \ {c}
<1>1. UNCHANGED <<rung, post, stint, skill, skilled>>
  BY DEF UnitNext, CreateNode, UpdateNode, MoveNode, DeleteNode, PutCenter, DeleteCenter
<1>2. ASSUME NEW n \in Node, NEW st \in {"active", "inactive"}, UpdateNode(n, st)
      PROVE  LiveNode \subseteq LiveNode' /\ LiveCenter \subseteq LiveCenter'
  <2>1. LiveNode' = LiveNode
    BY <1>2, NodeUpdated
  <2> QED
    BY <1>2, <2>1 DEF UpdateNode, LiveCenter
<1>3. ASSUME NEW n \in Node, NEW p \in Node \cup {Absent}, NEW st \in {"active", "inactive"},
             CreateNode(n, p, st) \/ MoveNode(n, p, st)
      PROVE  LiveNode \subseteq LiveNode' /\ LiveCenter \subseteq LiveCenter'
  <2>1. LiveNode \subseteq LiveNode'
    BY <1>3, NodeCreated, NodeMoved
  <2> QED
    BY <1>3, <2>1 DEF CreateNode, MoveNode, LiveCenter
<1>4. ASSUME NEW n \in Node, DeleteNode(n)
      PROVE  UnusedNode(n) /\ LiveNode' = LiveNode \ {n} /\ LiveCenter' = LiveCenter
  <2>1. LiveNode' = LiveNode \ {n}
    BY <1>4, NodeDeleted
  <2> QED
    BY <1>4, <2>1 DEF DeleteNode, LiveCenter
<1>5. ASSUME NEW c \in Center, NEW n \in Node \cup {Absent}, NEW st \in {"active", "inactive"},
             PutCenter(c, n, st)
      PROVE  LiveNode \subseteq LiveNode' /\ LiveCenter \subseteq LiveCenter'
  BY <1>5, CenterPut
<1>6. ASSUME NEW c \in Center, DeleteCenter(c)
      PROVE  UnusedCenter(c) /\ LiveCenter' = LiveCenter \ {c} /\ LiveNode' = LiveNode
  BY <1>6, CenterDeleted
<1> QED
  BY <1>1, <1>2, <1>3, <1>4, <1>5, <1>6 DEF UnitNext

LEMMA NodesKeptStep ==
  OrganizationTypeOK /\ NodesKept /\ [OrganizationNext]_structureVars => NodesKept'
<1> SUFFICES ASSUME OrganizationTypeOK, NodesKept, [OrganizationNext]_structureVars
             PROVE  NodesKept'
  OBVIOUS
<1>1. CASE UNCHANGED <<node, center>>
  BY <1>1 DEF NodesKept, LiveNode, LiveCenter
<1>2. ASSUME NEW n \in Node, NEW p \in Node \cup {Absent}, NEW st \in {"active", "inactive"},
             CreateNode(n, p, st)
      PROVE  NodesKept'
  <2>1. UNCHANGED center
    BY <1>2 DEF CreateNode
  <2> QED
    BY <1>2, <2>1, NodeCreated DEF NodesKept, LiveCenter
<1>3. ASSUME NEW n \in Node, NEW st \in {"active", "inactive"}, UpdateNode(n, st)
      PROVE  NodesKept'
  <2>1. UNCHANGED center
    BY <1>3 DEF UpdateNode
  <2> QED
    BY <1>3, <2>1, NodeUpdated DEF NodesKept, LiveCenter
<1>4. ASSUME NEW n \in Node, NEW p \in Node \cup {Absent}, NEW st \in {"active", "inactive"},
             MoveNode(n, p, st)
      PROVE  NodesKept'
  <2>1. UNCHANGED center /\ LiveNode \subseteq Node
    BY <1>4 DEF MoveNode, LiveNode
  <2> QED
    BY <1>4, <2>1, NodeMoved DEF NodesKept, LiveCenter
<1>5. ASSUME NEW n \in Node, DeleteNode(n)
      PROVE  NodesKept'
  <2>1. UNCHANGED center /\ Childless(n) /\ UnusedNode(n)
    BY <1>5 DEF DeleteNode
  <2> QED
    BY <1>5, <2>1, NodeDeleted DEF NodesKept, LiveCenter, Childless, UnusedNode
<1>6. ASSUME NEW c \in Center, NEW n \in Node \cup {Absent}, NEW st \in {"active", "inactive"},
             PutCenter(c, n, st)
      PROVE  NodesKept'
  <2>1. UNCHANGED node /\ LiveCenter \subseteq Center
    BY <1>6 DEF PutCenter, LiveCenter
  <2> QED
    BY <1>6, <2>1, CenterPut DEF NodesKept, LiveNode
<1>7. ASSUME NEW c \in Center, DeleteCenter(c)
      PROVE  NodesKept'
  <2>1. UNCHANGED node
    BY <1>7 DEF DeleteCenter
  <2> QED
    BY <1>7, <2>1, CenterDeleted DEF NodesKept, LiveNode
<1>8. UNCHANGED <<node, center>> \/ UnitNext
  BY DEF OrganizationNext, structureVars, SkillNext, PutSkill, DeleteSkill, RequireSkill,
         DropSkill, PostNext, PutRung, DeleteRung, PutPost, ArchivePost, ReopenPost,
         StintNext, CreateStint, UpdateStint, EndStint, DeleteStint
<1> QED
  BY <1>1, <1>2, <1>3, <1>4, <1>5, <1>6, <1>7, <1>8 DEF UnitNext

LEMMA PostsKeptStep ==
  OrganizationTypeOK /\ PostsKept /\ [OrganizationNext]_structureVars => PostsKept'
<1> SUFFICES ASSUME OrganizationTypeOK, PostsKept, [OrganizationNext]_structureVars
             PROVE  PostsKept'
  OBVIOUS
<1> USE OrganizationAssumption
<1>1. CASE UnitNext
  BY <1>1, UnitsLost DEF PostsKept, RefsKept, UnusedNode, UnusedCenter, LivePost, LiveRung
<1>2. ASSUME NEW r \in Rung, PutRung(r) \/ DeleteRung(r)
      PROVE  PostsKept'
  BY <1>2 DEF OrganizationTypeOK, PostsKept, RefsKept, PutRung, DeleteRung, UnusedRung,
              LivePost, LiveRung, LiveNode, LiveCenter
<1>3. ASSUME NEW p \in Post, NEW refs \in References, PutPost(p, refs)
      PROVE  PostsKept'
  <2>1. /\ PostRefs(refs).node \in LiveNode \cup {Absent}
        /\ PostRefs(refs).center \in LiveCenter \cup {Absent}
        /\ PostRefs(refs).rung \in LiveRung \cup {Absent}
    BY <1>3 DEF PutPost, Valid
  <2>2. /\ UNCHANGED <<node, center, rung>>
        /\ post' = [post EXCEPT
             ![p] = [refs |-> PostRefs(refs), deleted |-> FALSE, unchecked |-> FALSE]]
    BY <1>3 DEF PutPost
  <2>3. post'[p].refs = PostRefs(refs) /\ \A q \in Post : q # p => post'[q] = post[q]
    BY <2>2 DEF OrganizationTypeOK
  <2> QED
    BY <2>1, <2>2, <2>3 DEF PostsKept, RefsKept, LivePost, LiveRung, LiveNode, LiveCenter
<1>4. ASSUME NEW p \in Post, ArchivePost(p)
      PROVE  PostsKept'
  <2>1. /\ UNCHANGED <<node, center, rung>> /\ post[p] \in PostRow
        /\ post' = [post EXCEPT ![p] = [post[p] EXCEPT !.deleted = TRUE]]
    BY <1>4 DEF ArchivePost, LivePost, OrganizationTypeOK
  <2>2. post'[p].deleted /\ \A q \in Post : q # p => post'[q] = post[q]
    BY <2>1 DEF OrganizationTypeOK, PostRow
  <2> QED
    BY <2>1, <2>2 DEF PostsKept, RefsKept, LivePost, LiveRung, LiveNode, LiveCenter
<1>5. ASSUME NEW p \in Post, ReopenPost(p)
      PROVE  PostsKept'
  <2>1. /\ UNCHANGED <<node, center, rung>> /\ post[p] \in PostRow
        /\ post' = [post EXCEPT ![p] = [post[p] EXCEPT !.deleted = FALSE, !.unchecked = TRUE]]
    BY <1>5 DEF ReopenPost, OrganizationTypeOK
  <2>2. post'[p].unchecked /\ \A q \in Post : q # p => post'[q] = post[q]
    BY <2>1 DEF OrganizationTypeOK, PostRow
  <2> QED
    BY <2>1, <2>2 DEF PostsKept, RefsKept, LivePost, LiveRung, LiveNode, LiveCenter
<1>6. CASE UNCHANGED <<node, center, rung, post>>
  BY <1>6 DEF PostsKept, RefsKept, LivePost, LiveRung, LiveNode, LiveCenter
<1>7. UNCHANGED <<node, center, rung, post>> \/ UnitNext \/ PostNext
  BY DEF OrganizationNext, structureVars, SkillNext, PutSkill, DeleteSkill, RequireSkill,
         DropSkill, StintNext, CreateStint, UpdateStint, EndStint, DeleteStint
<1> QED
  BY <1>1, <1>2, <1>3, <1>4, <1>5, <1>6, <1>7 DEF PostNext

LEMMA StintsKeptStep ==
  OrganizationTypeOK /\ StintsKept /\ [OrganizationNext]_structureVars => StintsKept'
<1> SUFFICES ASSUME OrganizationTypeOK, StintsKept, [OrganizationNext]_structureVars
             PROVE  StintsKept'
  OBVIOUS
<1> USE OrganizationAssumption
<1> DEFINE Fits(row) ==
      /\ row.end = "open" => RefsKept(row.refs)
      /\ row.end # "ended" => row.refs.rung \in LiveRung \cup {Absent}
                               /\ row.post \in LivePost \cup {Absent}
<1>1. StintsKept <=> \A s \in Stint : stint[s] # Absent => Fits(stint[s])
  BY DEF StintsKept, OpenStint, RunningStint
<1>2. StintsKept' <=> \A s \in Stint : stint'[s] # Absent => Fits(stint[s])'
  BY DEF StintsKept, OpenStint, RunningStint
<1>3. CASE UnitNext
  BY <1>3, UnitsLost DEF StintsKept, RefsKept, UnusedNode, UnusedCenter, LivePost, LiveRung,
                         OpenStint, RunningStint
<1>4. ASSUME NEW r \in Rung, PutRung(r) \/ DeleteRung(r)
      PROVE  StintsKept'
  BY <1>4 DEF OrganizationTypeOK, StintsKept, RefsKept, PutRung, DeleteRung, UnusedRung,
              LivePost, LiveRung, LiveNode, LiveCenter, OpenStint, RunningStint
<1>5. ASSUME NEW p \in Post, UNCHANGED <<node, center, rung, stint>>,
             LivePost' = LivePost \cup {p}
      PROVE  StintsKept'
  BY <1>5 DEF StintsKept, RefsKept, LiveRung, LiveNode, LiveCenter, OpenStint, RunningStint
<1>6. ASSUME NEW p \in Post, NEW refs \in References, PutPost(p, refs)
      PROVE  StintsKept'
  <2>1. /\ UNCHANGED <<node, center, rung, stint>>
        /\ post' = [post EXCEPT
             ![p] = [refs |-> PostRefs(refs), deleted |-> FALSE, unchecked |-> FALSE]]
    BY <1>6 DEF PutPost
  <2>2. [refs |-> PostRefs(refs), deleted |-> FALSE, unchecked |-> FALSE] \in PostRow
    BY PostRefsType DEF PostRow
  <2>3. ~post'[p].deleted /\ post'[p] # Absent /\ \A q \in Post : q # p => post'[q] = post[q]
    BY <2>1, <2>2 DEF OrganizationTypeOK
  <2>4. LivePost' = LivePost \cup {p}
    BY <2>3 DEF LivePost
  <2> QED
    BY <1>5, <2>1, <2>4
<1>7. ASSUME NEW p \in Post, ArchivePost(p)
      PROVE  StintsKept'
  <2>1. /\ UNCHANGED <<node, center, rung, stint>> /\ post[p] \in PostRow /\ Unheld(p)
        /\ post' = [post EXCEPT ![p] = [post[p] EXCEPT !.deleted = TRUE]]
    BY <1>7 DEF ArchivePost, LivePost, OrganizationTypeOK
  <2>2. post'[p].deleted /\ \A q \in Post : q # p => post'[q] = post[q]
    BY <2>1 DEF OrganizationTypeOK, PostRow
  <2>3. LivePost \ {p} \subseteq LivePost'
    BY <2>2 DEF LivePost
  <2> QED
    BY <2>1, <2>3 DEF StintsKept, RefsKept, LiveRung, LiveNode, LiveCenter, OpenStint,
                      RunningStint, Unheld
<1>8. ASSUME NEW p \in Post, ReopenPost(p)
      PROVE  StintsKept'
  <2>1. /\ UNCHANGED <<node, center, rung, stint>> /\ post[p] \in PostRow
        /\ post' = [post EXCEPT ![p] = [post[p] EXCEPT !.deleted = FALSE, !.unchecked = TRUE]]
    BY <1>8 DEF ReopenPost, OrganizationTypeOK
  <2>2. [post[p] EXCEPT !.deleted = FALSE, !.unchecked = TRUE] \in PostRow
    BY <2>1 DEF PostRow
  <2>3. ~post'[p].deleted /\ post'[p] # Absent /\ \A q \in Post : q # p => post'[q] = post[q]
    BY <2>1, <2>2 DEF OrganizationTypeOK, PostRow
  <2>4. LivePost' = LivePost \cup {p}
    BY <2>3 DEF LivePost
  <2> QED
    BY <1>5, <2>1, <2>4
\* An assignment that is written refers to what has just been looked for.
<1>9. ASSUME NEW s \in Stint, NEW refs, NEW q \in LivePost \cup {Absent},
             NEW end \in {"open", "ending", "ended"}, Valid(refs),
             UNCHANGED <<node, center, rung, post>>,
             stint' = [stint EXCEPT ![s] = [refs |-> refs, post |-> q, end |-> end]]
      PROVE  StintsKept'
  <2>1. /\ stint'[s] = [refs |-> refs, post |-> q, end |-> end]
        /\ \A t \in Stint : t # s => stint'[t] = stint[t]
    BY <1>9 DEF OrganizationTypeOK
  <2>2. RefsKept(refs) /\ refs.rung \in LiveRung \cup {Absent}
    BY <1>9 DEF RefsKept, Valid
  <2> QED
    BY <1>1, <1>2, <1>9, <2>1, <2>2 DEF RefsKept, LiveRung, LiveNode, LiveCenter, LivePost
<1>10. ASSUME NEW s \in Stint, NEW p \in Post \cup {Absent}, NEW refs \in References,
              NEW end \in {"open", "ending", "ended"}, CreateStint(s, p, refs, end)
       PROVE  StintsKept'
  BY <1>9, <1>10 DEF CreateStint
<1>11. ASSUME NEW s \in Stint, NEW p \in Post \cup {Absent}, NEW refs \in References,
              NEW end \in {"open", "ending", "ended"}, UpdateStint(s, p, refs, end)
       PROVE  StintsKept'
  <2> DEFINE others == IF p = Absent THEN stint[s].refs ELSE post[p].refs
             q == IF p = Absent THEN stint[s].post ELSE p
  <2>1. /\ q \in LivePost \cup {Absent} /\ Valid(Given(refs, others))
        /\ stint' = [stint EXCEPT ![s] = [refs |-> Given(refs, others), post |-> q, end |-> end]]
        /\ UNCHANGED <<node, center, rung, post>>
    BY <1>11 DEF UpdateStint
  <2> HIDE DEF others, q
  <2> QED
    BY <1>9, <2>1
<1>12. ASSUME NEW s \in Stint, NEW end \in {"ending", "ended"}, EndStint(s, end)
       PROVE  StintsKept'
  <2>1. /\ UNCHANGED <<node, center, rung, post>> /\ stint[s] \in StintRow
        /\ stint[s].end # "ended" /\ stint[s] # Absent
        /\ stint' = [stint EXCEPT ![s] = [stint[s] EXCEPT !.end = end]]
    BY <1>12 DEF EndStint, RunningStint, OrganizationTypeOK
  <2>2. /\ stint'[s].end = end /\ stint'[s].refs = stint[s].refs /\ stint'[s].post = stint[s].post
        /\ \A t \in Stint : t # s => stint'[t] = stint[t]
    BY <2>1 DEF OrganizationTypeOK, StintRow
  <2> QED
    BY <1>1, <1>2, <2>1, <2>2 DEF RefsKept, LiveRung, LiveNode, LiveCenter, LivePost
<1>13. ASSUME NEW s \in Stint, DeleteStint(s)
       PROVE  StintsKept'
  <2>1. /\ UNCHANGED <<node, center, rung, post>> /\ stint'[s] = Absent
        /\ \A t \in Stint : t # s => stint'[t] = stint[t]
    BY <1>13 DEF DeleteStint, OrganizationTypeOK
  <2> QED
    BY <1>1, <1>2, <2>1 DEF RefsKept, LiveRung, LiveNode, LiveCenter, LivePost
<1>14. CASE UNCHANGED <<node, center, rung, post, stint>>
  BY <1>14 DEF StintsKept, RefsKept, LivePost, LiveRung, LiveNode, LiveCenter, OpenStint,
               RunningStint
<1>15. \/ UNCHANGED <<node, center, rung, post, stint>> \/ UnitNext \/ PostNext \/ StintNext
  BY DEF OrganizationNext, structureVars, SkillNext, PutSkill, DeleteSkill, RequireSkill, DropSkill
<1> QED
  BY <1>3, <1>4, <1>6, <1>7, <1>8, <1>10, <1>11, <1>12, <1>13, <1>14, <1>15
     DEF PostNext, StintNext

LEMMA SkillsKeptStep ==
  OrganizationTypeOK /\ SkillsKept /\ [OrganizationNext]_structureVars => SkillsKept'
<1> SUFFICES ASSUME OrganizationTypeOK, SkillsKept, [OrganizationNext]_structureVars
             PROVE  SkillsKept'
  OBVIOUS
<1>1. CASE UNCHANGED <<skill, skilled>>
  BY <1>1 DEF SkillsKept
<1>2. ASSUME NEW k \in Skill, PutSkill(k) \/ DeleteSkill(k)
      PROVE  SkillsKept'
  BY <1>2 DEF SkillsKept, PutSkill, DeleteSkill
<1>3. ASSUME NEW k \in Skill, NEW h \in Post \cup Learner, RequireSkill(h, k) \/ DropSkill(h, k)
      PROVE  SkillsKept'
  BY <1>3 DEF SkillsKept, RequireSkill, DropSkill, OrganizationTypeOK
<1>4. UNCHANGED <<skill, skilled>> \/ SkillNext
  BY UnitsLost DEF OrganizationNext, structureVars, PostNext, PutRung, DeleteRung, PutPost,
         ArchivePost, ReopenPost, StintNext, CreateStint, UpdateStint, EndStint, DeleteStint
<1> QED
  BY <1>1, <1>2, <1>3, <1>4 DEF SkillNext

----------------------------------------------------------------------------
(* The structure *)

StructureInv == OrganizationTypeOK /\ StructureHolds

\* The values of the variables are of their types in every reachable state.
THEOREM OrganizationTypeCorrect == OrganizationSpec => []OrganizationTypeOK
<1>1. OrganizationInit => OrganizationTypeOK
  BY DEF OrganizationInit, OrganizationTypeOK
<1> QED
  BY <1>1, OrganizationTypeStep, PTL DEF OrganizationSpec

\* What positions, assignments, cost centers and nodes refer to is there, and the
\* nodes are a forest, however large: each move keeps it although it looks only
\* at the nodes above the new parent.
THEOREM StructureAlwaysHolds == OrganizationSpec => []StructureHolds
<1>1. OrganizationInit => StructureInv
  BY OrganizationAssumption
     DEF OrganizationInit, StructureInv, OrganizationTypeOK, StructureHolds, Forest, NodesKept,
         PostsKept, StintsKept, SkillsKept, LiveNode, LiveCenter, LivePost, OpenStint, RunningStint
<1>2. StructureInv /\ [OrganizationNext]_structureVars => StructureInv'
  BY OrganizationTypeStep, ForestStep, NodesKeptStep, PostsKeptStep, StintsKeptStep, SkillsKeptStep
     DEF StructureInv, StructureHolds
<1>3. StructureInv => StructureHolds
  BY DEF StructureInv
<1> QED
  BY <1>1, <1>2, <1>3, PTL DEF OrganizationSpec

----------------------------------------------------------------------------
\* Notifications.

\* The deliveries that have a recipient and have not brought the message out:
\* what they may still send, or record as failed, which is sent again.
Has(d, n, s) == courier[d] # Waiting /\ courier[d].of = n /\ s \in courier[d].candidates
Owing(n, s) == {d \in Courier : Has(d, n, s) /\ courier[d].result[s] \in {"unknown", "FAILED"}}

\* What is still to come of a recipient: a send of each of these, and one more
\* if the recipient may be read by a delivery that is to begin.
Ready(n, s) == recipient[n][s].status \in {"PENDING", "FAILED"} /\ \A d \in Courier : ~Has(d, n, s)
Due(n, s) == Cardinality(Owing(n, s)) + IF Ready(n, s) THEN 1 ELSE 0

DeliveriesTyped ==
  /\ notice \in [Message -> NotificationRow \cup {NoMessage}]
  /\ recipient \in [Message -> [Seat -> RecipientRow]]
  /\ courier \in [Courier -> DeliveryRow \cup {Waiting}]

\* A delivery is of a notice, and asks an adapter for its candidates only.
DeliveryStands(d) ==
  courier[d] # Waiting =>
    /\ notice[courier[d].of] # NoMessage
    /\ \A s \in Seat : courier[d].result[s] # "unknown" => s \in courier[d].candidates

NoticesInv ==
  /\ DeliveriesTyped
  /\ \A d \in Courier : DeliveryStands(d)
  /\ \A n \in Message, s \in Seat : recipient[n][s].status = "READ" => recipient[n][s].read
  /\ \A n \in Message, s \in Seat : recipient[n][s].sends + Due(n, s) <= 1 + recipient[n][s].excuses
  /\ \A n \in Message : notice[n] # NoMessage /\ notice[n].status = "READ" => Unread(recipient[n]) = {}

LEMMA OwingIsFinite ==
  ASSUME NEW n \in Message, NEW s \in Seat
  PROVE  IsFiniteSet(Owing(n, s)) /\ Cardinality(Owing(n, s)) \in Nat
<1>1. Owing(n, s) \subseteq Courier BY DEF Owing
<1> QED BY <1>1, NotificationsAssumption, FS_Subset, FS_CardinalityType

LEMMA RecipientIsTyped ==
  ASSUME NoticesInv, NEW n \in Message, NEW s \in Seat
  PROVE  /\ recipient[n] \in [Seat -> RecipientRow] /\ recipient[n][s] \in RecipientRow
         /\ recipient[n][s].sends \in Nat /\ recipient[n][s].excuses \in Nat
         /\ recipient[n][s].read \in BOOLEAN
         /\ Cardinality(Owing(n, s)) \in Nat
         /\ recipient[n][s].sends + Due(n, s) <= 1 + recipient[n][s].excuses
BY OwingIsFinite DEF NoticesInv, DeliveriesTyped, RecipientRow

\* A step that leaves fewer deliveries owing and no new reason to begin one.
LEMMA DueShrinks ==
  ASSUME NoticesInv, NEW n \in Message, NEW s \in Seat,
         Owing(n, s)' \subseteq Owing(n, s),
         Ready(n, s)' => Ready(n, s)
  PROVE  Due(n, s)' <= Due(n, s) /\ Due(n, s) \in Nat /\ Due(n, s)' \in Nat
<1> DEFINE now == Owing(n, s)  then == Owing(n, s)'
<1>1. IsFiniteSet(now) /\ Cardinality(now) \in Nat BY OwingIsFinite
<1>2. then \subseteq now OBVIOUS
<1> HIDE DEF now, then
<1>3. Cardinality(then) <= Cardinality(now) /\ Cardinality(then) \in Nat
  BY <1>1, <1>2, FS_Subset, FS_CardinalityType
<1> USE DEF now, then
<1>4. Due(n, s) = Cardinality(now) + IF Ready(n, s) THEN 1 ELSE 0 BY DEF Due
<1>5. Due(n, s)' = Cardinality(then) + IF Ready(n, s)' THEN 1 ELSE 0 BY DEF Due
<1> HIDE DEF now, then
<1> DEFINE r == Ready(n, s)  r2 == Ready(n, s)'
<1>6. r2 => r OBVIOUS
<1> HIDE DEF r, r2
<1>7. Due(n, s) = Cardinality(now) + IF r THEN 1 ELSE 0 BY <1>4 DEF r
<1>8. Due(n, s)' = Cardinality(then) + IF r2 THEN 1 ELSE 0 BY <1>5 DEF r2
<1> QED BY <1>7, <1>8, <1>1, <1>3, <1>6

\* The bound of a recipient survives such a step that sends nothing.
LEMMA BoundKept ==
  ASSUME NoticesInv, NEW n \in Message, NEW s \in Seat,
         Owing(n, s)' \subseteq Owing(n, s),
         Ready(n, s)' => Ready(n, s),
         recipient'[n][s].sends = recipient[n][s].sends,
         recipient'[n][s].excuses \in Nat, recipient'[n][s].excuses >= recipient[n][s].excuses
  PROVE  recipient'[n][s].sends + Due(n, s)' <= 1 + recipient'[n][s].excuses
<1>1. Due(n, s)' <= Due(n, s) /\ Due(n, s) \in Nat /\ Due(n, s)' \in Nat BY DueShrinks
<1> QED BY <1>1, RecipientIsTyped

\* The answer to a mail was lost: it is out, still owed, and excused.
LEMMA BoundWhenLost ==
  ASSUME NoticesInv, NEW n \in Message, NEW s \in Seat,
         Owing(n, s)' \subseteq Owing(n, s),
         Ready(n, s)' => Ready(n, s),
         recipient'[n][s].sends = recipient[n][s].sends + 1,
         recipient'[n][s].excuses = recipient[n][s].excuses + 1
  PROVE  recipient'[n][s].sends + Due(n, s)' <= 1 + recipient'[n][s].excuses
<1>1. Due(n, s)' <= Due(n, s) /\ Due(n, s) \in Nat /\ Due(n, s)' \in Nat BY DueShrinks
<1> QED BY <1>1, RecipientIsTyped

\* A delivery that owed a recipient owes it no more: the message is out, or the
\* next delivery may read the recipient again.
LEMMA BoundWhenPaid ==
  ASSUME NoticesInv, NEW n \in Message, NEW s \in Seat, NEW d \in Owing(n, s),
         Owing(n, s)' \subseteq Owing(n, s) \ {d},
         \/ recipient'[n][s].sends = recipient[n][s].sends
         \/ recipient'[n][s].sends = recipient[n][s].sends + 1 /\ ~Ready(n, s)',
         recipient'[n][s].excuses = recipient[n][s].excuses
  PROVE  recipient'[n][s].sends + Due(n, s)' <= 1 + recipient'[n][s].excuses
<1> DEFINE now == Owing(n, s)  then == Owing(n, s)'
           r == Ready(n, s)  r2 == Ready(n, s)'
<1>1. IsFiniteSet(now) /\ Cardinality(now) \in Nat BY OwingIsFinite
<1>2. then \subseteq now \ {d} /\ d \in now OBVIOUS
<1>3. Due(n, s) = Cardinality(now) + IF r THEN 1 ELSE 0 BY DEF Due
<1>4. Due(n, s)' = Cardinality(then) + IF r2 THEN 1 ELSE 0 BY DEF Due
<1>5. \/ recipient'[n][s].sends = recipient[n][s].sends
      \/ recipient'[n][s].sends = recipient[n][s].sends + 1 /\ ~r2
  OBVIOUS
<1> HIDE DEF now, then, r, r2
<1>6. IsFiniteSet(now \ {d}) /\ Cardinality(now \ {d}) = Cardinality(now) - 1
  BY <1>1, <1>2, FS_RemoveElement
<1>7. Cardinality(then) <= Cardinality(now) - 1 /\ Cardinality(then) \in Nat
  BY <1>2, <1>6, FS_Subset, FS_CardinalityType
<1> QED BY <1>1, <1>3, <1>4, <1>5, <1>7, RecipientIsTyped

\* A delivery reads a recipient: nobody else had it and it is no longer to be
\* read, or the recipient is excused.
LEMMA BoundWhenRead ==
  ASSUME NoticesInv, NEW n \in Message, NEW s \in Seat, NEW d,
         Owing(n, s)' \subseteq Owing(n, s) \cup {d}, ~Ready(n, s)',
         recipient'[n][s].sends = recipient[n][s].sends,
         \/ recipient'[n][s].excuses = recipient[n][s].excuses /\ Ready(n, s)
         \/ recipient'[n][s].excuses = recipient[n][s].excuses + 1
  PROVE  recipient'[n][s].sends + Due(n, s)' <= 1 + recipient'[n][s].excuses
<1> DEFINE now == Owing(n, s)  then == Owing(n, s)'
           r == Ready(n, s)  r2 == Ready(n, s)'
<1>1. IsFiniteSet(now) /\ Cardinality(now) \in Nat BY OwingIsFinite
<1>2. then \subseteq now \cup {d} OBVIOUS
<1>3. Due(n, s) = Cardinality(now) + IF r THEN 1 ELSE 0 BY DEF Due
<1>4. Due(n, s)' = Cardinality(then) + IF r2 THEN 1 ELSE 0 BY DEF Due
<1>5. /\ ~r2
      /\ \/ recipient'[n][s].excuses = recipient[n][s].excuses /\ r
         \/ recipient'[n][s].excuses = recipient[n][s].excuses + 1
  OBVIOUS
<1> HIDE DEF now, then, r, r2
<1>6. /\ IsFiniteSet(now \cup {d}) /\ Cardinality(now \cup {d}) \in Nat
      /\ Cardinality(now \cup {d}) <= Cardinality(now) + 1
  <2>1. CASE d \in now
    <3>1. now \cup {d} = now BY <2>1
    <3>2. IsFiniteSet(now \cup {d}) /\ Cardinality(now \cup {d}) = Cardinality(now) BY <1>1, <3>1, Zenon
    <3> QED BY <1>1, <3>2
  <2>2. CASE d \notin now
    <3>1. IsFiniteSet(now \cup {d}) /\ Cardinality(now \cup {d}) = Cardinality(now) + 1
      BY <1>1, <2>2, FS_AddElement
    <3> QED BY <1>1, <3>1
  <2> QED BY <2>1, <2>2
<1>7. Cardinality(then) <= Cardinality(now) + 1 /\ Cardinality(then) \in Nat
  <2>1. Cardinality(then) <= Cardinality(now \cup {d}) /\ IsFiniteSet(then)
    BY <1>2, <1>6, FS_Subset
  <2>2. Cardinality(then) \in Nat BY <2>1, FS_CardinalityType
  <2> QED BY <2>1, <2>2, <1>1, <1>6
<1> QED BY <1>1, <1>3, <1>4, <1>5, <1>7, RecipientIsTyped

\* A delivery died after the send: the recipient is excused.
LEMMA BoundWhenExcused ==
  ASSUME NoticesInv, NEW n \in Message, NEW s \in Seat,
         Owing(n, s)' \subseteq Owing(n, s),
         recipient'[n][s].sends = recipient[n][s].sends,
         recipient'[n][s].excuses = recipient[n][s].excuses + 1
  PROVE  recipient'[n][s].sends + Due(n, s)' <= 1 + recipient'[n][s].excuses
<1> DEFINE now == Owing(n, s)  then == Owing(n, s)'
           r == Ready(n, s)  r2 == Ready(n, s)'
<1>1. IsFiniteSet(now) /\ Cardinality(now) \in Nat BY OwingIsFinite
<1>2. then \subseteq now OBVIOUS
<1>3. Due(n, s) = Cardinality(now) + IF r THEN 1 ELSE 0 BY DEF Due
<1>4. Due(n, s)' = Cardinality(then) + IF r2 THEN 1 ELSE 0 BY DEF Due
<1> HIDE DEF now, then, r, r2
<1>5. Cardinality(then) <= Cardinality(now) /\ Cardinality(then) \in Nat
  BY <1>1, <1>2, FS_Subset, FS_CardinalityType
<1> QED BY <1>1, <1>3, <1>4, <1>5, RecipientIsTyped

----------------------------------------------------------------------------

\* A delivery takes over what it found: the recipients another one has are excused.
LEMMA BeginStep ==
  ASSUME NoticesInv, NEW d \in Courier, NEW n \in Message, BeginDelivery(d, n)
  PROVE  NoticesInv'
<1> DEFINE job == [of |-> n, candidates |-> Deliverable(n), result |-> [s \in Seat |-> "unknown"]]
           held == Deliverable(n) \cap Held(n)
<1>1. /\ courier[d] = Waiting /\ notice[n] # NoMessage
      /\ courier' = [courier EXCEPT ![d] = job]
      /\ recipient' = [recipient EXCEPT ![n] = Excused(recipient[n], held)]
      /\ notice' = notice
  BY DEF BeginDelivery
<1>2. job \in DeliveryRow /\ job # Waiting
  BY NoNoticeIsNoRow DEF DeliveryRow, Deliverable
<1>3. /\ courier'[d] = job
      /\ \A e \in Courier \ {d} : courier'[e] = courier[e]
  BY <1>1 DEF NoticesInv, DeliveriesTyped
<1>4. held \subseteq Seat BY DEF Deliverable
<1> HIDE DEF job
\* What becomes of each row.
<1>5. ASSUME NEW m \in Message, NEW s \in Seat
      PROVE  /\ recipient'[m][s] \in RecipientRow
             /\ recipient'[m][s].status = recipient[m][s].status
             /\ recipient'[m][s].read = recipient[m][s].read
             /\ recipient'[m][s].sends = recipient[m][s].sends
             /\ recipient'[m][s].excuses =
                  recipient[m][s].excuses + IF m = n /\ s \in held THEN 1 ELSE 0
  <2> HIDE DEF held
  <2>1. recipient[m][s] \in RecipientRow BY RecipientIsTyped
  <2>2. CASE m = n /\ s \in held
    <3>1. recipient'[m][s] = [recipient[m][s] EXCEPT !.excuses = recipient[m][s].excuses + 1]
      BY <1>1, <2>2 DEF NoticesInv, DeliveriesTyped, Excused
    <3> QED BY <3>1, <2>1, <2>2 DEF RecipientRow
  <2>3. CASE ~(m = n /\ s \in held)
    <3>1. recipient'[m][s] = recipient[m][s]
      BY <1>1, <2>3 DEF NoticesInv, DeliveriesTyped, Excused
    <3> QED BY <3>1, <2>1, <2>3 DEF RecipientRow
  <2> QED BY <2>2, <2>3
<1>6. DeliveriesTyped'
  <2>1. courier' \in [Courier -> DeliveryRow \cup {Waiting}]
    BY <1>1, <1>2 DEF NoticesInv, DeliveriesTyped
  <2>2. Excused(recipient[n], held) \in [Seat -> RecipientRow]
    <3>1. \A s \in Seat : Excused(recipient[n], held)[s] = recipient'[n][s]
      BY <1>1 DEF NoticesInv, DeliveriesTyped
    <3> QED BY <3>1, <1>5 DEF Excused
  <2>3. recipient' \in [Message -> [Seat -> RecipientRow]]
    BY <1>1, <2>2 DEF NoticesInv, DeliveriesTyped
  <2> QED BY <1>1, <2>1, <2>3 DEF NoticesInv, DeliveriesTyped
<1>7. \A e \in Courier : DeliveryStands(e)'
  BY <1>1, <1>2, <1>3 DEF NoticesInv, DeliveryStands, job
<1>8. \A m \in Message, s \in Seat : Has(d, m, s)' <=> m = n /\ s \in Deliverable(n)
  BY <1>2, <1>3 DEF Has, job
<1>9. \A e \in Courier \ {d}, m \in Message, s \in Seat : Has(e, m, s)' <=> Has(e, m, s)
  BY <1>3 DEF Has
<1>10. \A m \in Message, s \in Seat : ~Has(d, m, s) BY <1>1 DEF Has
<1>11. ASSUME NEW m \in Message, NEW s \in Seat
       PROVE  recipient'[m][s].sends + Due(m, s)' <= 1 + recipient'[m][s].excuses
  <2>1. CASE m = n /\ s \in Deliverable(n)
    <3>1. Owing(m, s)' \subseteq Owing(m, s) \cup {d}
      BY <1>3, <1>9 DEF Owing
    <3>2. ~Ready(m, s)' BY <1>8, <2>1 DEF Ready
    <3>3. recipient[m][s].status \in {"PENDING", "FAILED"} BY <2>1 DEF Deliverable
    <3>4. s \in Held(n) \/ Ready(m, s)
      <4>1. ASSUME NEW e \in Courier, Has(e, n, s) PROVE s \in Held(n)
        BY <4>1 DEF Held, Has
      <4> QED BY <4>1, <3>3, <2>1 DEF Ready
    <3>5. \/ recipient'[m][s].excuses = recipient[m][s].excuses /\ Ready(m, s)
          \/ recipient'[m][s].excuses = recipient[m][s].excuses + 1
      BY <1>5, <2>1, <3>4, RecipientIsTyped
    <3>6. recipient'[m][s].sends = recipient[m][s].sends BY <1>5
    <3> QED BY <3>1, <3>2, <3>5, <3>6, BoundWhenRead
  <2>2. CASE ~(m = n /\ s \in Deliverable(n))
    <3>1. ~Has(d, m, s)' BY <1>8, <2>2
    <3>2. Owing(m, s)' \subseteq Owing(m, s)
      BY <1>3, <1>9, <3>1 DEF Owing
    <3>3. recipient'[m][s].status = recipient[m][s].status BY <1>5
    <3>4. Ready(m, s)' => Ready(m, s)
      BY <1>9, <1>10, <3>3 DEF Ready
    <3>5. recipient'[m][s].sends = recipient[m][s].sends BY <1>5
    <3>6. recipient'[m][s].excuses = recipient[m][s].excuses
      BY <1>5, <2>2, RecipientIsTyped
    <3>7. recipient'[m][s].excuses \in Nat /\ recipient'[m][s].excuses >= recipient[m][s].excuses
      BY <3>6, RecipientIsTyped
    <3> QED BY <3>2, <3>4, <3>5, <3>7, BoundKept
  <2> QED BY <2>1, <2>2
<1>12. \A m \in Message, s \in Seat : recipient'[m][s].status = "READ" => recipient'[m][s].read
  BY <1>5 DEF NoticesInv
<1>13. \A m \in Message : Unread(recipient[m])' = Unread(recipient[m])
  BY <1>5 DEF Unread
<1>14. \A m \in Message : notice'[m] # NoMessage /\ notice'[m].status = "READ" => Unread(recipient'[m]) = {}
  BY <1>1, <1>13 DEF NoticesInv
<1> QED BY <1>6, <1>7, <1>11, <1>12, <1>14 DEF NoticesInv

\* An adapter answers: the message is out, or the recipient stays to be sent to,
\* and if it is out nonetheless it is excused.
LEMMA AnsweredStep ==
  ASSUME NoticesInv, NEW d \in Courier, NEW s \in Seat, NEW answer \in {"SENT", "DELIVERED", "FAILED"},
         NEW sent \in {0, 1}, NEW lost \in {0, 1},
         IF answer = "FAILED" THEN sent = lost ELSE sent = 1 /\ lost = 0,
         Asked(d, s), Answered(d, s, answer, sent, lost)
  PROVE  NoticesInv'
<1> DEFINE n == courier[d].of
           job == [courier[d] EXCEPT !.result[s] = answer]
           row == [recipient[n][s] EXCEPT !.sends = recipient[n][s].sends + sent,
                                          !.excuses = recipient[n][s].excuses + lost]
<1>1. /\ courier[d] # Waiting /\ s \in courier[d].candidates /\ courier[d].result[s] = "unknown"
      /\ courier' = [courier EXCEPT ![d].result[s] = answer]
      /\ recipient' = [recipient EXCEPT ![n][s].sends = @ + sent, ![n][s].excuses = @ + lost]
      /\ notice' = notice
  BY DEF Asked, Answered
<1>2. courier[d] \in DeliveryRow /\ n \in Message
  BY <1>1 DEF NoticesInv, DeliveriesTyped, DeliveryRow
<1>3. /\ job \in DeliveryRow /\ job # Waiting
      /\ job.of = n /\ job.candidates = courier[d].candidates /\ job.result[s] = answer
      /\ \A t \in Seat \ {s} : job.result[t] = courier[d].result[t]
  BY <1>2, NoNoticeIsNoRow DEF DeliveryRow
<1>4. courier' = [courier EXCEPT ![d] = job]
  BY <1>1
<1>5. /\ courier'[d] = job
      /\ \A e \in Courier \ {d} : courier'[e] = courier[e]
  BY <1>4 DEF NoticesInv, DeliveriesTyped
<1>6. /\ recipient[n] \in [Seat -> RecipientRow] /\ recipient[n][s] \in RecipientRow
      /\ recipient[n][s].sends \in Nat /\ recipient[n][s].excuses \in Nat
  BY <1>2, RecipientIsTyped
<1>7. /\ row \in RecipientRow /\ row.status = recipient[n][s].status /\ row.read = recipient[n][s].read
      /\ row.sends = recipient[n][s].sends + sent /\ row.excuses = recipient[n][s].excuses + lost
  <2>1. PICK old \in RecipientRow : old = recipient[n][s] BY <1>6
  <2>2. /\ old.sends + sent \in Nat /\ old.excuses + lost \in Nat BY <1>6, <2>1
  <2>3. PICK sends \in Nat, excuses \in Nat : sends = old.sends + sent /\ excuses = old.excuses + lost
    BY <2>2
  <2>4. row = [old EXCEPT !.sends = sends, !.excuses = excuses] BY <2>1, <2>3
  <2> HIDE DEF row
  <2>5. /\ row \in RecipientRow /\ row.status = old.status /\ row.read = old.read
        /\ row.sends = sends /\ row.excuses = excuses
    BY <2>4 DEF RecipientRow
  <2> QED BY <2>1, <2>3, <2>5
<1>8. recipient' = [recipient EXCEPT ![n] = [recipient[n] EXCEPT ![s] = row]]
  BY <1>1
<1>9. /\ recipient'[n][s] = row
      /\ \A m \in Message, t \in Seat : m # n \/ t # s => recipient'[m][t] = recipient[m][t]
  BY <1>8, <1>2, <1>6 DEF NoticesInv, DeliveriesTyped
<1> HIDE DEF job, row
<1>10. DeliveriesTyped'
  <2>1. courier' \in [Courier -> DeliveryRow \cup {Waiting}]
    BY <1>3, <1>4 DEF NoticesInv, DeliveriesTyped
  <2>2. [recipient[n] EXCEPT ![s] = row] \in [Seat -> RecipientRow]
    BY <1>6, <1>7
  <2>3. recipient' \in [Message -> [Seat -> RecipientRow]]
    BY <1>8, <2>2 DEF NoticesInv, DeliveriesTyped
  <2> QED BY <1>1, <2>1, <2>3 DEF NoticesInv, DeliveriesTyped
<1>11. \A e \in Courier : DeliveryStands(e)'
  <2>1. DeliveryStands(d) BY DEF NoticesInv
  <2>2. DeliveryStands(d)' BY <1>1, <1>3, <1>5, <2>1 DEF DeliveryStands
  <2>3. \A e \in Courier \ {d} : DeliveryStands(e)' BY <1>1, <1>5 DEF NoticesInv, DeliveryStands
  <2> QED BY <2>2, <2>3
<1>12. \A e \in Courier, m \in Message, t \in Seat : Has(e, m, t)' <=> Has(e, m, t)
  BY <1>1, <1>3, <1>5 DEF Has
<1>13. \A m \in Message, t \in Seat : recipient'[m][t].status = recipient[m][t].status
                                     /\ recipient'[m][t].read = recipient[m][t].read
  BY <1>7, <1>9
<1>14. \A m \in Message, t \in Seat : Ready(m, t)' <=> Ready(m, t)
  BY <1>12, <1>13 DEF Ready
<1>15. ASSUME NEW m \in Message, NEW t \in Seat
       PROVE  recipient'[m][t].sends + Due(m, t)' <= 1 + recipient'[m][t].excuses
  <2>1. CASE m = n /\ t = s /\ answer # "FAILED"
    <3>1. d \in Owing(m, t) BY <1>1, <2>1 DEF Owing, Has
    <3>2. Owing(m, t)' \subseteq Owing(m, t) \ {d}
      <4>1. d \notin Owing(m, t)' BY <1>3, <1>5, <2>1 DEF Owing
      <4>2. Owing(m, t)' \subseteq Owing(m, t) \cup {d} BY <1>5, <1>12 DEF Owing
      <4> QED BY <4>1, <4>2
    <3>3. ~Ready(m, t)' BY <1>14, <1>1, <2>1 DEF Ready, Has
    <3>4. recipient'[m][t].sends = recipient[m][t].sends + 1
          /\ recipient'[m][t].excuses = recipient[m][t].excuses
      BY <1>6, <1>7, <1>9, <2>1
    <3> QED BY <3>1, <3>2, <3>3, <3>4, BoundWhenPaid
  <2>2. CASE ~(m = n /\ t = s /\ answer # "FAILED")
    <3>1. \/ /\ recipient'[m][t].sends = recipient[m][t].sends
             /\ recipient'[m][t].excuses = recipient[m][t].excuses
          \/ /\ recipient'[m][t].sends = recipient[m][t].sends + 1
             /\ recipient'[m][t].excuses = recipient[m][t].excuses + 1
      BY <1>6, <1>7, <1>9, <2>2
    <3>2. Owing(m, t)' \subseteq Owing(m, t)
      <4> SUFFICES ASSUME NEW e \in Owing(m, t)' PROVE e \in Owing(m, t)
        OBVIOUS
      <4>1. e \in Courier /\ Has(e, m, t) BY <1>12 DEF Owing
      <4>2. CASE e # d BY <1>5, <4>1, <4>2 DEF Owing
      <4>3. CASE e = d
        <5>1. m = n /\ t \in courier[d].candidates BY <4>1, <4>3 DEF Has
        <5>2. CASE t = s BY <1>1, <4>1, <4>3, <5>2 DEF Owing
        <5>3. CASE t # s
          <6>1. courier'[d].result[t] = courier[d].result[t] BY <1>3, <1>5, <5>3
          <6>2. courier'[d].result[t] \in {"unknown", "FAILED"} BY <4>3 DEF Owing
          <6> QED BY <4>1, <4>3, <6>1, <6>2 DEF Owing
        <5> QED BY <5>2, <5>3
      <4> QED BY <4>2, <4>3
    <3>3. CASE /\ recipient'[m][t].sends = recipient[m][t].sends
               /\ recipient'[m][t].excuses = recipient[m][t].excuses
      <4>1. recipient'[m][t].excuses \in Nat /\ recipient'[m][t].excuses >= recipient[m][t].excuses
        BY <3>3, RecipientIsTyped
      <4> QED BY <1>14, <3>2, <3>3, <4>1, BoundKept
    <3>4. CASE /\ recipient'[m][t].sends = recipient[m][t].sends + 1
               /\ recipient'[m][t].excuses = recipient[m][t].excuses + 1
      BY <1>14, <3>2, <3>4, BoundWhenLost
    <3> QED BY <3>1, <3>3, <3>4
  <2> QED BY <2>1, <2>2
<1>16. \A m \in Message, t \in Seat : recipient'[m][t].status = "READ" => recipient'[m][t].read
  BY <1>13 DEF NoticesInv
<1>17. \A m \in Message : Unread(recipient[m])' = Unread(recipient[m])
  BY <1>13 DEF Unread
<1>18. \A m \in Message : notice'[m] # NoMessage /\ notice'[m].status = "READ" => Unread(recipient'[m]) = {}
  BY <1>1, <1>17 DEF NoticesInv
<1> QED BY <1>10, <1>11, <1>15, <1>16, <1>18 DEF NoticesInv

\* An adapter's answer says what became of the message.
LEMMA DeliverStep ==
  ASSUME NoticesInv, NEW d \in Courier, NEW s \in Seat, NEW answer \in {"SENT", "DELIVERED", "FAILED"},
         Deliver(d, s, answer)
  PROVE  NoticesInv'
<1>1. PICK sent \in {0, 1} : sent = IF answer = "FAILED" THEN 0 ELSE 1
  OBVIOUS
<1>2. Asked(d, s) /\ Answered(d, s, answer, sent, 0)
  BY <1>1 DEF Deliver
<1> QED BY <1>1, <1>2, AnsweredStep

\* A mail that is out and called failed.
LEMMA MailAnswerLostStep ==
  ASSUME NoticesInv, NEW d \in Courier, NEW s \in Seat, MailAnswerLost(d, s)
  PROVE  NoticesInv'
<1>1. Asked(d, s) /\ Answered(d, s, "FAILED", 1, 1)
  BY DEF MailAnswerLost
<1> QED BY <1>1, AnsweredStep

\* What a delivery leaves when it ends: the others have what they had.
LEMMA DeliveryEnds ==
  ASSUME NoticesInv, NEW d \in Courier, courier[d] # Waiting,
         courier' = [courier EXCEPT ![d] = Waiting]
  PROVE  /\ courier[d] \in DeliveryRow /\ courier[d].of \in Message
         /\ courier' \in [Courier -> DeliveryRow \cup {Waiting}]
         /\ \A m \in Message, s \in Seat : ~Has(d, m, s)'
         /\ \A e \in Courier \ {d} : courier'[e] = courier[e]
         /\ \A e \in Courier \ {d}, m \in Message, s \in Seat : Has(e, m, s)' <=> Has(e, m, s)
         /\ \A m \in Message, s \in Seat : Owing(m, s)' \subseteq Owing(m, s) \ {d}
<1>1. /\ courier[d] \in DeliveryRow /\ courier[d].of \in Message
      /\ courier' \in [Courier -> DeliveryRow \cup {Waiting}]
  BY DEF NoticesInv, DeliveriesTyped, DeliveryRow
<1>2. courier'[d] = Waiting /\ \A e \in Courier \ {d} : courier'[e] = courier[e]
  BY DEF NoticesInv, DeliveriesTyped
<1>3. \A m \in Message, s \in Seat : ~Has(d, m, s)' BY <1>2 DEF Has
<1>4. \A e \in Courier \ {d}, m \in Message, s \in Seat : Has(e, m, s)' <=> Has(e, m, s)
  BY <1>2 DEF Has
<1>5. \A m \in Message, s \in Seat : Owing(m, s)' \subseteq Owing(m, s) \ {d}
  BY <1>2, <1>3, <1>4 DEF Owing
<1> QED BY <1>1, <1>2, <1>3, <1>4, <1>5

\* What came back is written, whatever the recipients have become meanwhile.
LEMMA RecordStep ==
  ASSUME NoticesInv, NEW d \in Courier, RecordDelivery(d)
  PROVE  NoticesInv'
<1> DEFINE n == courier[d].of
           had == courier[d].candidates
           result == courier[d].result
           rows == [s \in Seat |-> IF s \in had THEN [recipient[n][s] EXCEPT !.status = result[s]]
                                   ELSE recipient[n][s]]
           total == Aggregate(notice[n].channel, rows)
<1>1. /\ courier[d] # Waiting /\ \A s \in had : result[s] # "unknown"
      /\ recipient' = [recipient EXCEPT ![n] = rows]
      /\ notice' = [notice EXCEPT ![n].status = total]
      /\ courier' = [courier EXCEPT ![d] = Waiting]
  BY DEF RecordDelivery
<1>2. /\ courier[d] \in DeliveryRow /\ n \in Message
      /\ courier' \in [Courier -> DeliveryRow \cup {Waiting}]
      /\ \A m \in Message, s \in Seat : ~Has(d, m, s)'
      /\ \A e \in Courier \ {d} : courier'[e] = courier[e]
      /\ \A e \in Courier \ {d}, m \in Message, s \in Seat : Has(e, m, s)' <=> Has(e, m, s)
      /\ \A m \in Message, s \in Seat : Owing(m, s)' \subseteq Owing(m, s) \ {d}
  BY <1>1, DeliveryEnds
<1>3. had \subseteq Seat /\ \A s \in had : result[s] \in {"SENT", "DELIVERED", "FAILED"}
  BY <1>1, <1>2 DEF DeliveryRow
<1>4. notice[n] \in NotificationRow /\ notice[n] # NoMessage
  BY <1>1, <1>2 DEF NoticesInv, DeliveriesTyped, DeliveryStands
<1>5. ASSUME NEW s \in Seat
      PROVE  /\ rows[s] \in RecipientRow
             /\ rows[s].read = recipient[n][s].read
             /\ rows[s].sends = recipient[n][s].sends
             /\ rows[s].excuses = recipient[n][s].excuses
             /\ s \in had => rows[s].status = result[s]
             /\ s \notin had => rows[s] = recipient[n][s]
  <2>1. recipient[n][s] \in RecipientRow BY <1>2, RecipientIsTyped
  <2>2. CASE s \in had
    <3>1. rows[s] = [recipient[n][s] EXCEPT !.status = result[s]] BY <2>2
    <3>2. result[s] \in NotificationStatus BY <1>3, <2>2 DEF NotificationStatus
    <3> HIDE DEF rows
    <3> QED BY <2>1, <2>2, <3>1, <3>2 DEF RecipientRow
  <2>3. CASE s \notin had BY <2>1, <2>3
  <2> QED BY <2>2, <2>3
<1>6. rows \in [Seat -> RecipientRow]
  <2>1. rows = [s \in Seat |-> rows[s]] OBVIOUS
  <2> HIDE DEF rows
  <2> QED BY <2>1, <1>5
<1> HIDE DEF rows
<1>7. recipient'[n] = rows /\ \A m \in Message \ {n} : recipient'[m] = recipient[m]
  BY <1>1, <1>2 DEF NoticesInv, DeliveriesTyped
\* What the status of the notice is made of.
<1>8. total \in NotificationStatus /\ (total = "READ" => \A s \in Seat : rows[s].status = "READ")
  <2> DEFINE statuses == {rows[s].status : s \in Seat}
  <2>1. total = CASE statuses = {"CANCELLED"} -> "CANCELLED"
                  [] statuses = {"READ"} -> "READ"
                  [] statuses \notin {{"CANCELLED"}, {"READ"}} /\ statuses \cap Successful # {} ->
                       IF notice[n].channel = "IN_APP" THEN "DELIVERED" ELSE "SENT"
                  [] statuses \cap Successful = {} /\ statuses # {"CANCELLED"} ->
                       IF "FAILED" \in statuses THEN "FAILED" ELSE "PENDING"
    BY DEF Aggregate
  <2>2. statuses = {"READ"} => \A s \in Seat : rows[s].status = "READ" OBVIOUS
  <2>3. {"READ"} \cap Successful # {} /\ {"CANCELLED"} \cap Successful = {} /\ {"READ"} # {"CANCELLED"}
    BY DEF Successful
  <2> HIDE DEF statuses, total
  <2>4. CASE statuses = {"CANCELLED"} BY <2>1, <2>3, <2>4 DEF NotificationStatus
  <2>5. CASE statuses = {"READ"} BY <2>1, <2>2, <2>3, <2>5 DEF NotificationStatus
  <2>6. CASE statuses \notin {{"CANCELLED"}, {"READ"}} /\ statuses \cap Successful # {}
    BY <2>1, <2>6 DEF NotificationStatus
  <2>7. CASE statuses \cap Successful = {} /\ statuses # {"CANCELLED"}
    BY <2>1, <2>3, <2>7 DEF NotificationStatus
  <2> QED BY <2>4, <2>5, <2>6, <2>7
<1> HIDE DEF total
<1>9. /\ notice' \in [Message -> NotificationRow \cup {NoMessage}]
      /\ notice'[n] # NoMessage /\ notice'[n].status = total
      /\ \A m \in Message \ {n} : notice'[m] = notice[m]
  <2>1. notice' = [notice EXCEPT ![n] = [notice[n] EXCEPT !.status = total]] BY <1>1
  <2>2. [notice[n] EXCEPT !.status = total] \in NotificationRow
        /\ [notice[n] EXCEPT !.status = total].status = total
    BY <1>4, <1>8 DEF NotificationRow
  <2> QED BY <1>2, <2>1, <2>2, NoNoticeIsNoRow DEF NoticesInv, DeliveriesTyped
<1>10. DeliveriesTyped'
  <2>1. recipient' \in [Message -> [Seat -> RecipientRow]]
    BY <1>1, <1>6 DEF NoticesInv, DeliveriesTyped
  <2> QED BY <1>2, <1>9, <2>1 DEF DeliveriesTyped
<1>11. \A e \in Courier : DeliveryStands(e)'
  <2>1. DeliveryStands(d)'
    BY <1>1 DEF DeliveryStands, NoticesInv, DeliveriesTyped
  <2>2. ASSUME NEW e \in Courier \ {d}, courier'[e] # Waiting PROVE notice'[courier'[e].of] # NoMessage
    <3>1. courier[e] # Waiting /\ courier'[e] = courier[e] BY <1>2, <2>2
    <3>2. notice[courier[e].of] # NoMessage /\ courier[e].of \in Message
      BY <3>1 DEF NoticesInv, DeliveriesTyped, DeliveryStands, DeliveryRow
    <3> QED BY <1>9, <3>1, <3>2
  <2>3. \A e \in Courier \ {d} : DeliveryStands(e)'
    BY <1>2, <2>2 DEF NoticesInv, DeliveryStands
  <2> QED BY <2>1, <2>3
<1>12. ASSUME NEW m \in Message, NEW s \in Seat
       PROVE  recipient'[m][s].sends + Due(m, s)' <= 1 + recipient'[m][s].excuses
  <2>1. /\ recipient'[m][s].sends = recipient[m][s].sends
        /\ recipient'[m][s].excuses = recipient[m][s].excuses
    BY <1>5, <1>7
  <2>2. recipient'[m][s].excuses \in Nat /\ recipient'[m][s].excuses >= recipient[m][s].excuses
    BY <2>1, RecipientIsTyped
  <2>3. CASE m = n /\ s \in had /\ result[s] = "FAILED"
    <3>1. d \in Owing(m, s) BY <1>1, <2>3 DEF Owing, Has
    <3>2. Owing(m, s)' \subseteq Owing(m, s) \ {d} BY <1>2
    <3> QED BY <2>1, <3>1, <3>2, BoundWhenPaid
  <2>4. CASE m = n /\ s \in had /\ result[s] # "FAILED"
    <3>1. ~Ready(m, s)' BY <1>3, <1>5, <1>7, <2>4 DEF Ready
    <3>2. Owing(m, s)' \subseteq Owing(m, s) BY <1>2
    <3> QED BY <2>1, <2>2, <3>1, <3>2, BoundKept
  <2>5. CASE ~(m = n /\ s \in had)
    <3>1. recipient'[m][s] = recipient[m][s] BY <1>5, <1>7, <2>5
    <3>2. ~Has(d, m, s) BY <2>5 DEF Has
    <3>3. Ready(m, s)' => Ready(m, s) BY <1>2, <3>1, <3>2 DEF Ready
    <3>4. Owing(m, s)' \subseteq Owing(m, s) BY <1>2
    <3> QED BY <2>1, <2>2, <3>3, <3>4, BoundKept
  <2> QED BY <2>3, <2>4, <2>5
<1>13. ASSUME NEW m \in Message, NEW s \in Seat, recipient'[m][s].status = "READ"
       PROVE  recipient'[m][s].read
  <2>1. recipient'[m][s].read = recipient[m][s].read BY <1>5, <1>7
  <2>2. recipient[m][s].status = "READ" BY <1>3, <1>5, <1>7, <1>13
  <2>3. recipient[m][s].read BY <2>2 DEF NoticesInv
  <2> QED BY <2>1, <2>3, Zenon
<1>14. ASSUME NEW m \in Message, notice'[m] # NoMessage, notice'[m].status = "READ"
       PROVE  Unread(recipient'[m]) = {}
  <2>1. CASE m = n
    <3>1. \A s \in Seat : recipient'[m][s].status = "READ" BY <1>7, <1>8, <1>9, <1>14, <2>1
    <3>2. \A s \in Seat : recipient'[m][s].read BY <3>1, <1>13
    <3> QED BY <3>2, Zenon DEF Unread
  <2>2. CASE m # n BY <1>7, <1>9, <1>14, <2>2 DEF NoticesInv
  <2> QED BY <2>1, <2>2
<1> QED BY <1>10, <1>11, <1>12, <1>13, <1>14 DEF NoticesInv

\* A delivery that dies has told nobody what it sent: those are excused.
LEMMA DieStep ==
  ASSUME NoticesInv, NEW d \in Courier, DeliveryDies(d)
  PROVE  NoticesInv'
<1> DEFINE n == courier[d].of
           sent == {s \in Seat : courier[d].result[s] \in {"SENT", "DELIVERED"}}
<1>1. /\ courier[d] # Waiting
      /\ recipient' = [recipient EXCEPT ![n] = Excused(recipient[n], sent)]
      /\ notice' = notice
      /\ courier' = [courier EXCEPT ![d] = Waiting]
  BY DEF DeliveryDies
<1>2. /\ courier[d] \in DeliveryRow /\ n \in Message
      /\ courier' \in [Courier -> DeliveryRow \cup {Waiting}]
      /\ \A m \in Message, s \in Seat : ~Has(d, m, s)'
      /\ \A e \in Courier \ {d} : courier'[e] = courier[e]
      /\ \A e \in Courier \ {d}, m \in Message, s \in Seat : Has(e, m, s)' <=> Has(e, m, s)
      /\ \A m \in Message, s \in Seat : Owing(m, s)' \subseteq Owing(m, s) \ {d}
  BY <1>1, DeliveryEnds
<1>3. \A s \in Seat : courier[d].result[s] \in {"unknown", "SENT", "DELIVERED", "FAILED"}
  BY <1>2 DEF DeliveryRow
<1>4. ASSUME NEW m \in Message, NEW s \in Seat
      PROVE  /\ recipient'[m][s] \in RecipientRow
             /\ recipient'[m][s].status = recipient[m][s].status
             /\ recipient'[m][s].read = recipient[m][s].read
             /\ recipient'[m][s].sends = recipient[m][s].sends
             /\ recipient'[m][s].excuses =
                  recipient[m][s].excuses + IF m = n /\ s \in sent THEN 1 ELSE 0
  <2> HIDE DEF sent
  <2>1. recipient[m][s] \in RecipientRow BY RecipientIsTyped
  <2>2. CASE m = n /\ s \in sent
    <3>1. recipient'[m][s] = [recipient[m][s] EXCEPT !.excuses = recipient[m][s].excuses + 1]
      BY <1>1, <2>2 DEF NoticesInv, DeliveriesTyped, Excused
    <3> QED BY <3>1, <2>1, <2>2 DEF RecipientRow
  <2>3. CASE ~(m = n /\ s \in sent)
    <3>1. recipient'[m][s] = recipient[m][s]
      BY <1>1, <2>3 DEF NoticesInv, DeliveriesTyped, Excused
    <3> QED BY <3>1, <2>1, <2>3 DEF RecipientRow
  <2> QED BY <2>2, <2>3
<1>5. DeliveriesTyped'
  <2>1. Excused(recipient[n], sent) \in [Seat -> RecipientRow]
    <3>1. \A s \in Seat : Excused(recipient[n], sent)[s] = recipient'[n][s]
      BY <1>1, <1>2 DEF NoticesInv, DeliveriesTyped
    <3> QED BY <1>2, <3>1, <1>4 DEF Excused
  <2>2. recipient' \in [Message -> [Seat -> RecipientRow]]
    BY <1>1, <2>1 DEF NoticesInv, DeliveriesTyped
  <2> QED BY <1>1, <1>2, <2>2 DEF NoticesInv, DeliveriesTyped
<1>6. \A e \in Courier : DeliveryStands(e)'
  <2>1. DeliveryStands(d)' BY <1>1 DEF DeliveryStands, NoticesInv, DeliveriesTyped
  <2>2. \A e \in Courier \ {d} : DeliveryStands(e)' BY <1>1, <1>2 DEF NoticesInv, DeliveryStands
  <2> QED BY <2>1, <2>2
<1>7. ASSUME NEW m \in Message, NEW s \in Seat
      PROVE  recipient'[m][s].sends + Due(m, s)' <= 1 + recipient'[m][s].excuses
  <2>1. recipient'[m][s].sends = recipient[m][s].sends BY <1>4
  <2>2. Owing(m, s)' \subseteq Owing(m, s) \ {d} BY <1>2
  <2>3. CASE m = n /\ s \in sent
    <3>1. recipient'[m][s].excuses = recipient[m][s].excuses + 1 BY <1>4, <2>3
    <3>2. Owing(m, s)' \subseteq Owing(m, s) BY <2>2
    <3> QED BY <2>1, <3>1, <3>2, BoundWhenExcused
  <2>4. CASE ~(m = n /\ s \in sent)
    <3>1. recipient'[m][s].excuses = recipient[m][s].excuses BY <1>4, <2>4, RecipientIsTyped
    <3>2. CASE Has(d, m, s)
      <4>1. d \in Owing(m, s) BY <1>3, <2>4, <3>2 DEF Has, Owing
      <4> QED BY <2>1, <2>2, <3>1, <4>1, BoundWhenPaid
    <3>3. CASE ~Has(d, m, s)
      <4>1. recipient'[m][s].status = recipient[m][s].status BY <1>4
      <4>2. Ready(m, s)' => Ready(m, s) BY <1>2, <3>3, <4>1 DEF Ready
      <4>3. Owing(m, s)' \subseteq Owing(m, s) BY <2>2
      <4>4. recipient'[m][s].excuses \in Nat /\ recipient'[m][s].excuses >= recipient[m][s].excuses
        BY <3>1, RecipientIsTyped
      <4> QED BY <2>1, <4>2, <4>3, <4>4, BoundKept
    <3> QED BY <3>2, <3>3
  <2> QED BY <2>3, <2>4
<1>8. \A m \in Message, s \in Seat : recipient'[m][s].status = "READ" => recipient'[m][s].read
  BY <1>4 DEF NoticesInv
<1>9. \A m \in Message : Unread(recipient[m])' = Unread(recipient[m])
  BY <1>4 DEF Unread
<1>10. \A m \in Message : notice'[m] # NoMessage /\ notice'[m].status = "READ" => Unread(recipient'[m]) = {}
  BY <1>1, <1>9 DEF NoticesInv
<1> QED BY <1>5, <1>6, <1>7, <1>8, <1>10 DEF NoticesInv

----------------------------------------------------------------------------

\* Rows that are kept, or marked as read: nothing new is to be sent.
LEMMA ReadingStep ==
  ASSUME NoticesInv, courier' = courier,
         notice' \in [Message -> NotificationRow \cup {NoMessage}],
         recipient' \in [Message -> [Seat -> RecipientRow]],
         \A n \in Message : notice[n] # NoMessage => notice'[n] # NoMessage,
         \A n \in Message, s \in Seat :
           recipient'[n][s] = recipient[n][s] \/ recipient'[n][s] = ReadBy(recipient[n][s]),
         \A n \in Message : notice'[n] # NoMessage /\ notice'[n].status = "READ" =>
           \/ notice[n] # NoMessage /\ notice[n].status = "READ"
           \/ Unread(recipient'[n]) = {}
  PROVE  NoticesInv'
<1>1. DeliveriesTyped' BY DEF NoticesInv, DeliveriesTyped
<1>2. \A d \in Courier : DeliveryStands(d)'
  <2> SUFFICES ASSUME NEW d \in Courier, courier[d] # Waiting PROVE DeliveryStands(d)'
    BY DEF DeliveryStands
  <2>1. DeliveryStands(d) /\ courier[d].of \in Message
    BY DEF NoticesInv, DeliveriesTyped, DeliveryRow
  <2> QED BY <2>1 DEF DeliveryStands
<1>3. ASSUME NEW n \in Message, NEW s \in Seat
      PROVE  /\ recipient'[n][s].sends = recipient[n][s].sends
             /\ recipient'[n][s].excuses = recipient[n][s].excuses
             /\ \/ recipient'[n][s] = recipient[n][s]
                \/ recipient'[n][s].status = "READ" /\ recipient'[n][s].read
  <2>1. recipient[n][s] \in RecipientRow BY RecipientIsTyped
  <2>2. CASE recipient'[n][s] = recipient[n][s] BY <2>2
  <2>3. CASE recipient'[n][s] = ReadBy(recipient[n][s])
    <3>1. /\ ReadBy(recipient[n][s]).sends = recipient[n][s].sends
          /\ ReadBy(recipient[n][s]).excuses = recipient[n][s].excuses
          /\ ReadBy(recipient[n][s]).status = "READ"
          /\ ReadBy(recipient[n][s]).read = TRUE
      BY <2>1 DEF ReadBy, RecipientRow
    <3> QED BY <2>3, <3>1
  <2> QED BY <2>2, <2>3
<1>4. ASSUME NEW n \in Message, NEW s \in Seat
      PROVE  recipient'[n][s].sends + Due(n, s)' <= 1 + recipient'[n][s].excuses
  <2>1. Owing(n, s)' \subseteq Owing(n, s) BY DEF Owing, Has
  <2>2. Ready(n, s)' => Ready(n, s)
    <3>1. CASE recipient'[n][s] = recipient[n][s] BY <3>1 DEF Ready, Has
    <3>2. CASE recipient'[n][s].status = "READ" BY <3>2 DEF Ready
    <3> QED BY <1>3, <3>1, <3>2
  <2>3. /\ recipient'[n][s].sends = recipient[n][s].sends
        /\ recipient'[n][s].excuses \in Nat /\ recipient'[n][s].excuses >= recipient[n][s].excuses
    BY <1>3, RecipientIsTyped
  <2> QED BY <2>1, <2>2, <2>3, BoundKept
<1>5. ASSUME NEW n \in Message, NEW s \in Seat, recipient'[n][s].status = "READ"
      PROVE  recipient'[n][s].read
  <2>1. CASE recipient'[n][s] = recipient[n][s] BY <1>5, <2>1 DEF NoticesInv
  <2>2. CASE recipient'[n][s].status = "READ" /\ recipient'[n][s].read BY <2>2
  <2> QED BY <1>3, <2>1, <2>2
<1>6. ASSUME NEW n \in Message, notice'[n] # NoMessage, notice'[n].status = "READ"
      PROVE  Unread(recipient'[n]) = {}
  <2>1. CASE notice[n] # NoMessage /\ notice[n].status = "READ"
    <3>1. Unread(recipient[n]) = {} BY <2>1 DEF NoticesInv
    <3>2. ASSUME NEW s \in Seat PROVE s \notin Unread(recipient'[n])
      <4>1. CASE recipient'[n][s] = recipient[n][s] BY <3>1, <4>1 DEF Unread
      <4>2. CASE recipient'[n][s].read BY <4>2 DEF Unread
      <4> QED BY <1>3, <4>1, <4>2
    <3> QED BY <3>2 DEF Unread
  <2> QED BY <1>6, <2>1
<1> QED BY <1>1, <1>2, <1>4, <1>5, <1>6 DEF NoticesInv

\* The rows of a new notice: nobody delivers it yet.
LEMMA CreatedStep ==
  ASSUME NoticesInv, NEW n \in Message, notice[n] = NoMessage, courier' = courier,
         NEW channel \in NotificationChannel, NEW later \in BOOLEAN,
         NEW st \in {"PENDING", "CANCELLED"},
         NEW rows \in [Seat -> RecipientRow],
         \A s \in Seat : \E u \in Reader \cup {NoReader}, x \in {"PENDING", "CANCELLED"} :
                           rows[s] = Newcomer(u, x),
         recipient' = [recipient EXCEPT ![n] = rows],
         notice' = [notice EXCEPT ![n] = [channel |-> channel, later |-> later, status |-> st]]
  PROVE  NoticesInv'
<1> DEFINE new == [channel |-> channel, later |-> later, status |-> st]
<1>1. new \in NotificationRow /\ new # NoMessage /\ new.status # "READ"
  BY NoNoticeIsNoRow DEF NotificationRow, NotificationStatus
<1>2. notice' = [notice EXCEPT ![n] = new] OBVIOUS
<1> HIDE DEF new
<1>3. /\ notice'[n] = new /\ \A m \in Message \ {n} : notice'[m] = notice[m]
      /\ recipient'[n] = rows /\ \A m \in Message \ {n} : recipient'[m] = recipient[m]
  BY <1>2 DEF NoticesInv, DeliveriesTyped
<1>4. DeliveriesTyped' BY <1>1, <1>2 DEF NoticesInv, DeliveriesTyped
<1>5. \A d \in Courier : courier[d] # Waiting => courier[d].of # n
  BY DEF NoticesInv, DeliveryStands
<1>6. \A d \in Courier : DeliveryStands(d)'
  <2> SUFFICES ASSUME NEW d \in Courier, courier[d] # Waiting PROVE DeliveryStands(d)'
    BY DEF DeliveryStands
  <2>1. DeliveryStands(d) /\ courier[d].of \in Message
    BY DEF NoticesInv, DeliveriesTyped, DeliveryRow
  <2> QED BY <1>3, <1>5, <2>1 DEF DeliveryStands
<1>7. ASSUME NEW s \in Seat
      PROVE  rows[s].sends = 0 /\ rows[s].excuses = 0 /\ rows[s].status # "READ"
  BY DEF Newcomer
<1>8. ASSUME NEW m \in Message, NEW s \in Seat
      PROVE  recipient'[m][s].sends + Due(m, s)' <= 1 + recipient'[m][s].excuses
  <2>1. CASE m = n
    <3>1. Owing(m, s)' = {} BY <1>5, <2>1 DEF Owing, Has
    <3>2. Due(m, s)' = Cardinality({}) + IF Ready(m, s)' THEN 1 ELSE 0 BY <3>1 DEF Due
    <3>3. Due(m, s)' <= 1 /\ Due(m, s)' \in Nat
      <4> DEFINE r == Ready(m, s)'
      <4>1. Due(m, s)' = Cardinality({}) + IF r THEN 1 ELSE 0 BY <3>2
      <4> HIDE DEF r
      <4> QED BY <4>1, FS_EmptySet
    <3> QED BY <1>3, <1>7, <2>1, <3>3
  <2>2. CASE m # n
    <3>1. recipient'[m] = recipient[m] BY <1>3, <2>2
    <3>2. Owing(m, s)' \subseteq Owing(m, s) /\ (Ready(m, s)' => Ready(m, s))
      BY <3>1 DEF Owing, Has, Ready
    <3>3. /\ recipient'[m][s].sends = recipient[m][s].sends
          /\ recipient'[m][s].excuses \in Nat /\ recipient'[m][s].excuses >= recipient[m][s].excuses
      BY <3>1, RecipientIsTyped
    <3> QED BY <3>2, <3>3, BoundKept
  <2> QED BY <2>1, <2>2
<1>9. \A m \in Message, s \in Seat : recipient'[m][s].status = "READ" => recipient'[m][s].read
  BY <1>3, <1>7 DEF NoticesInv
<1>10. \A m \in Message : notice'[m] # NoMessage /\ notice'[m].status = "READ" => Unread(recipient'[m]) = {}
  BY <1>1, <1>3 DEF NoticesInv
<1> QED BY <1>4, <1>6, <1>8, <1>9, <1>10 DEF NoticesInv

LEMMA NewcomerRow ==
  ASSUME NEW u \in Reader \cup {NoReader}, NEW x \in {"PENDING", "CANCELLED"}
  PROVE  Newcomer(u, x) \in RecipientRow
BY DEF Newcomer, RecipientRow, NotificationStatus

LEMMA CreateNotificationStep ==
  ASSUME NoticesInv, NEW n \in Message, NEW channel \in NotificationChannel,
         NEW c \in Code \cup {NoCode}, NEW later \in BOOLEAN,
         NEW users \in [Seat -> Reader \cup {NoReader}],
         CreateNotification(n, channel, c, later, users)
  PROVE  NoticesInv'
<1> DEFINE rows == [s \in Seat |-> Resolved(users[s], channel)]
           st == IF \A s \in Seat : recipient'[n][s].status = "CANCELLED" THEN "CANCELLED" ELSE "PENDING"
<1>1. /\ notice[n] = NoMessage /\ courier' = courier
      /\ recipient' = [recipient EXCEPT ![n] = rows]
      /\ notice' = [notice EXCEPT ![n] = [channel |-> channel, later |-> later, status |-> st]]
  BY DEF CreateNotification, Created
<1>2. ASSUME NEW s \in Seat
      PROVE  \E u \in Reader \cup {NoReader}, x \in {"PENDING", "CANCELLED"} : rows[s] = Newcomer(u, x)
  BY DEF Resolved
<1>3. rows \in [Seat -> RecipientRow]
  <2>1. \A s \in Seat : rows[s] \in RecipientRow BY <1>2, NewcomerRow
  <2>2. rows = [s \in Seat |-> rows[s]] OBVIOUS
  <2> HIDE DEF rows
  <2> QED BY <2>1, <2>2
<1>4. st \in {"PENDING", "CANCELLED"} OBVIOUS
<1> HIDE DEF rows, st
<1> QED BY <1>1, <1>2, <1>3, <1>4, CreatedStep

LEMMA SendInvitationStep ==
  ASSUME NoticesInv, NEW n \in Message, NEW u \in Reader, SendInvitation(n, u)
  PROVE  NoticesInv'
<1>1. PICK t \in Seat :
        recipient' = [recipient EXCEPT ![n] =
          [s \in Seat |-> IF s = t THEN Newcomer(u, "PENDING") ELSE Newcomer(NoReader, "CANCELLED")]]
  BY DEF SendInvitation
<1> DEFINE rows == [s \in Seat |-> IF s = t THEN Newcomer(u, "PENDING") ELSE Newcomer(NoReader, "CANCELLED")]
<1>2. ASSUME NEW s \in Seat
      PROVE  \E v \in Reader \cup {NoReader}, x \in {"PENDING", "CANCELLED"} : rows[s] = Newcomer(v, x)
  OBVIOUS
<1>3. rows \in [Seat -> RecipientRow]
  <2>1. \A s \in Seat : rows[s] \in RecipientRow BY <1>2, NewcomerRow
  <2>2. rows = [s \in Seat |-> rows[s]] OBVIOUS
  <2> HIDE DEF rows
  <2> QED BY <2>1, <2>2
<1>4. /\ notice[n] = NoMessage /\ courier' = courier
      /\ recipient' = [recipient EXCEPT ![n] = rows]
      /\ notice' = [notice EXCEPT ![n] = [channel |-> "EMAIL", later |-> FALSE, status |-> "PENDING"]]
  BY <1>1 DEF SendInvitation
<1>5. "EMAIL" \in NotificationChannel /\ FALSE \in BOOLEAN /\ "PENDING" \in {"PENDING", "CANCELLED"}
  BY DEF NotificationChannel
<1> HIDE DEF rows
<1> QED BY <1>2, <1>3, <1>4, <1>5, CreatedStep

LEMMA ReadByRow ==
  ASSUME NEW row \in RecipientRow
  PROVE  ReadBy(row) \in RecipientRow
BY DEF ReadBy, RecipientRow, NotificationStatus

LEMMA MarkReadStep ==
  ASSUME NoticesInv, NEW n \in Message, NEW u \in Reader, MarkRead(n, u)
  PROVE  NoticesInv'
<1> DEFINE st == IF Unread(recipient'[n]) = {} THEN "READ" ELSE notice[n].status
<1>1. /\ notice[n] # NoMessage /\ courier' = courier
      /\ notice' = [notice EXCEPT ![n].status = IF Unread(recipient'[n]) = {} THEN "READ" ELSE @]
  BY DEF MarkRead
<1>2. PICK s \in Seat : recipient' = [recipient EXCEPT ![n][s] = ReadBy(@)]
  BY DEF MarkRead
<1>3. /\ recipient[n] \in [Seat -> RecipientRow] /\ recipient[n][s] \in RecipientRow
      /\ ReadBy(recipient[n][s]) \in RecipientRow
  BY RecipientIsTyped, ReadByRow
<1>4. recipient' = [recipient EXCEPT ![n] = [recipient[n] EXCEPT ![s] = ReadBy(recipient[n][s])]]
  BY <1>2
<1>5. recipient' \in [Message -> [Seat -> RecipientRow]]
  <2>1. [recipient[n] EXCEPT ![s] = ReadBy(recipient[n][s])] \in [Seat -> RecipientRow] BY <1>3
  <2> QED BY <1>4, <2>1 DEF NoticesInv, DeliveriesTyped
<1>6. \A m \in Message, t \in Seat :
        recipient'[m][t] = recipient[m][t] \/ recipient'[m][t] = ReadBy(recipient[m][t])
  BY <1>3, <1>4 DEF NoticesInv, DeliveriesTyped
<1>7. notice[n] \in NotificationRow BY <1>1 DEF NoticesInv, DeliveriesTyped
<1>8. /\ [notice[n] EXCEPT !.status = st] \in NotificationRow
      /\ [notice[n] EXCEPT !.status = st].status = st
  BY <1>7 DEF NotificationRow, NotificationStatus
<1>9. notice' = [notice EXCEPT ![n] = [notice[n] EXCEPT !.status = st]] BY <1>1
<1>10. st = "READ" => notice[n].status = "READ" \/ Unread(recipient'[n]) = {} OBVIOUS
<1> HIDE DEF st
<1>11. /\ notice' \in [Message -> NotificationRow \cup {NoMessage}]
       /\ notice'[n] # NoMessage /\ notice'[n].status = st
       /\ \A m \in Message \ {n} : notice'[m] = notice[m]
  BY <1>8, <1>9, NoNoticeIsNoRow DEF NoticesInv, DeliveriesTyped
<1>12. \A m \in Message : notice[m] # NoMessage => notice'[m] # NoMessage BY <1>11
<1>13. \A m \in Message : notice'[m] # NoMessage /\ notice'[m].status = "READ" =>
         \/ notice[m] # NoMessage /\ notice[m].status = "READ"
         \/ Unread(recipient'[m]) = {}
  BY <1>1, <1>10, <1>11
<1>14. notice' \in [Message -> NotificationRow \cup {NoMessage}] BY <1>11
<1> QED BY <1>1, <1>5, <1>6, <1>12, <1>13, <1>14, ReadingStep

LEMMA MarkAllReadStep ==
  ASSUME NoticesInv, NEW u \in Reader, MarkAllRead(u)
  PROVE  NoticesInv'
<1>1. /\ notice' = notice /\ courier' = courier
      /\ recipient' = [n \in Message |-> [s \in Seat |->
           IF recipient[n][s].user = u /\ ~recipient[n][s].read
           THEN ReadBy(recipient[n][s]) ELSE recipient[n][s]]]
  BY DEF MarkAllRead
<1>2. \A n \in Message, s \in Seat :
        /\ recipient'[n][s] \in RecipientRow
        /\ recipient'[n][s] = recipient[n][s] \/ recipient'[n][s] = ReadBy(recipient[n][s])
  BY <1>1, RecipientIsTyped, ReadByRow
<1>3. recipient' \in [Message -> [Seat -> RecipientRow]]
  BY <1>1, <1>2
<1>4. notice' \in [Message -> NotificationRow \cup {NoMessage}]
  BY <1>1 DEF NoticesInv, DeliveriesTyped
<1>5. \A m \in Message : notice'[m] # NoMessage /\ notice'[m].status = "READ" =>
         \/ notice[m] # NoMessage /\ notice[m].status = "READ"
         \/ Unread(recipient'[m]) = {}
  BY <1>1
<1>6. \A m \in Message : notice[m] # NoMessage => notice'[m] # NoMessage BY <1>1
<1> QED BY <1>1, <1>2, <1>3, <1>4, <1>5, <1>6, ReadingStep

\* A step that leaves the recipients alone and the status of the notices.
LEMMA SettingStep ==
  ASSUME NoticesInv, courier' = courier, recipient' = recipient,
         \/ notice' = notice
         \/ \E n \in Message : TimeComes(n)
  PROVE  NoticesInv'
<1>1. recipient' \in [Message -> [Seat -> RecipientRow]] BY DEF NoticesInv, DeliveriesTyped
<1>2. \A n \in Message, s \in Seat :
        recipient'[n][s] = recipient[n][s] \/ recipient'[n][s] = ReadBy(recipient[n][s])
  OBVIOUS
<1>3. /\ notice' \in [Message -> NotificationRow \cup {NoMessage}]
      /\ \A n \in Message : notice[n] # NoMessage => notice'[n] # NoMessage
      /\ \A n \in Message : notice'[n] # NoMessage /\ notice'[n].status = "READ" =>
           notice[n] # NoMessage /\ notice[n].status = "READ"
  <2>1. CASE notice' = notice BY <2>1 DEF NoticesInv, DeliveriesTyped
  <2>2. ASSUME NEW n \in Message, TimeComes(n)
        PROVE  /\ notice' \in [Message -> NotificationRow \cup {NoMessage}]
               /\ \A m \in Message : notice[m] # NoMessage => notice'[m] # NoMessage
               /\ \A m \in Message : notice'[m] # NoMessage /\ notice'[m].status = "READ" =>
                    notice[m] # NoMessage /\ notice[m].status = "READ"
    <3> DEFINE row == [notice[n] EXCEPT !.later = FALSE]
    <3>1. notice[n] # NoMessage /\ notice' = [notice EXCEPT ![n] = row] BY <2>2 DEF TimeComes
    <3>2. notice[n] \in NotificationRow BY <3>1 DEF NoticesInv, DeliveriesTyped
    <3>3. row \in NotificationRow /\ row.status = notice[n].status BY <3>2 DEF NotificationRow
    <3> HIDE DEF row
    <3> QED BY <3>1, <3>3, NoNoticeIsNoRow DEF NoticesInv, DeliveriesTyped
  <2> QED BY <2>1, <2>2
<1>4. notice' \in [Message -> NotificationRow \cup {NoMessage}] BY <1>3
<1>5. \A n \in Message : notice[n] # NoMessage => notice'[n] # NoMessage BY <1>3
<1>6. \A n \in Message : notice'[n] # NoMessage /\ notice'[n].status = "READ" =>
        \/ notice[n] # NoMessage /\ notice[n].status = "READ"
        \/ Unread(recipient'[n]) = {}
  BY <1>3
<1> QED BY <1>1, <1>2, <1>4, <1>5, <1>6, ReadingStep

LEMMA NoticesStep == NoticesInv /\ [NotificationsNext]_notificationVars => NoticesInv'
<1> SUFFICES ASSUME NoticesInv, [NotificationsNext]_notificationVars PROVE NoticesInv'
  OBVIOUS
<1>1. CASE UNCHANGED notificationVars BY <1>1, SettingStep DEF notificationVars
<1>2. ASSUME NEW c \in Code, NEW s \in {"active", "inactive"}, SetTemplate(c, s) PROVE NoticesInv'
  BY <1>2, SettingStep DEF SetTemplate
<1>3. ASSUME NEW u \in Reader, NEW channel \in NotificationChannel, UpdatePreference(u, channel)
      PROVE  NoticesInv'
  BY <1>3, SettingStep DEF UpdatePreference
<1>4. ASSUME NEW n \in Message, TimeComes(n) PROVE NoticesInv'
  BY <1>4, SettingStep DEF TimeComes
<1> QED
  BY <1>1, <1>2, <1>3, <1>4, CreateNotificationStep, SendInvitationStep, MarkReadStep, MarkAllReadStep,
     BeginStep, DeliverStep, MailAnswerLostStep, RecordStep, DieStep
  DEF NotificationsNext

\* However deliveries of a notice overlap, fail, die and lose the answers to
\* their mails, a recipient gets it once and at most once more for each time
\* that was bound to happen, and a notice that is read is read by all it was
\* addressed to.  (deliverNotification, retryableStatuses, the catch of the
\* email adapter, maybeMarkNotificationRead)
THEOREM NoticesSentAsPaidFor == NotificationsSpec => []SentPaidFor
<1>1. NotificationsInit => NoticesInv
  <2> SUFFICES ASSUME NotificationsInit PROVE NoticesInv
    OBVIOUS
  <2> USE DEF NotificationsInit
  <2>1. DeliveriesTyped
    <3>1. Newcomer(NoReader, "CANCELLED") \in RecipientRow BY NewcomerRow
    <3> QED BY <3>1 DEF DeliveriesTyped
  <2>2. \A d \in Courier : DeliveryStands(d) BY DEF DeliveryStands
  <2>3. ASSUME NEW n \in Message, NEW s \in Seat
        PROVE  /\ recipient[n][s].status = "READ" => recipient[n][s].read
               /\ recipient[n][s].sends + Due(n, s) <= 1 + recipient[n][s].excuses
    <3>1. /\ recipient[n][s].sends = 0 /\ recipient[n][s].excuses = 0
          /\ recipient[n][s].status = "CANCELLED"
      BY DEF Newcomer
    <3>2. Owing(n, s) = {} BY DEF Owing, Has
    <3>3. ~Ready(n, s) BY <3>1 DEF Ready
    <3>4. Due(n, s) = Cardinality({}) BY <3>2, <3>3, FS_EmptySet DEF Due
    <3> QED BY <3>1, <3>4, FS_EmptySet
  <2> QED BY <2>1, <2>2, <2>3 DEF NoticesInv
<1>2. NoticesInv => SentPaidFor
  <2> SUFFICES ASSUME NoticesInv, NEW n \in Message, notice[n] # NoMessage
               PROVE  /\ \A s \in Seat : recipient[n][s].sends <= 1 + recipient[n][s].excuses
                      /\ notice[n].status = "READ" => Unread(recipient[n]) = {}
    BY DEF SentPaidFor
  <2>1. ASSUME NEW s \in Seat PROVE recipient[n][s].sends <= 1 + recipient[n][s].excuses
    <3>1. recipient[n][s].sends + Due(n, s) <= 1 + recipient[n][s].excuses
      BY RecipientIsTyped
    <3>2. Due(n, s) \in Nat
      <4> DEFINE r == Ready(n, s)
      <4>1. Due(n, s) = Cardinality(Owing(n, s)) + IF r THEN 1 ELSE 0 BY DEF Due
      <4> HIDE DEF r
      <4> QED BY <4>1, OwingIsFinite
    <3> QED BY <3>1, <3>2, RecipientIsTyped
  <2> QED BY <2>1 DEF NoticesInv
<1> QED
  BY <1>1, <1>2, NoticesStep, PTL DEF NotificationsSpec

----------------------------------------------------------------------------
\* Accounts.

LinkerRow ==
  [op : {"resolve"}, account : UserAccount, row : UserRow]
  \cup [op : {"link"}, account : UserAccount, row : UserRow, employment : Employment, new : BOOLEAN]

\* Types, and that what is referred to was made first.
AccountTypes ==
  /\ AccountsTypeOK
  /\ linker \in [Linker -> LinkerRow \cup {Idling}]
  /\ \A e \in Employment : employment[e] # NoEmployment => human[HumanOf(e)] # NoHuman
  /\ \A l \in Linker : linker[l] # Idling =>
       /\ linker[l].op = "resolve" => Known(linker[l].account)
       /\ linker[l].op = "link" => employment[linker[l].employment] # NoEmployment
       /\ linker[l].op = "link" => linker[l].new \/ Known(linker[l].account)

\* What is left when one row is given an account, or is marked.
LEMMA HumanRelinked ==
  ASSUME human \in [Human -> HumanRow \cup {NoHuman}], NEW i \in Human, human[i] # NoHuman,
         NEW u \in UserAccount \cup {NoAccount}, human' = [human EXCEPT ![i].account = u]
  PROVE  /\ human' \in [Human -> HumanRow \cup {NoHuman}] /\ human'[i] \in HumanRow /\ human'[i].account = u
         /\ \A j \in Human \ {i} : human'[j] = human[j]
         /\ \A j \in Human : (human'[j] # NoHuman) <=> (human[j] # NoHuman)
<1> DEFINE row == [human[i] EXCEPT !.account = u]
<1>1. row \in HumanRow /\ row.account = u BY DEF HumanRow
<1>2. human' = [human EXCEPT ![i] = row] OBVIOUS
<1> HIDE DEF row
<1> QED BY <1>1, <1>2, AbsenceIsNoRow

LEMMA HumanMarked ==
  ASSUME human \in [Human -> HumanRow \cup {NoHuman}], NEW i \in Human, human[i] # NoHuman,
         NEW gone \in BOOLEAN, human' = [human EXCEPT ![i].deleted = gone]
  PROVE  /\ human' \in [Human -> HumanRow \cup {NoHuman}] /\ human'[i] \in HumanRow /\ human'[i].account = human[i].account
         /\ \A j \in Human \ {i} : human'[j] = human[j]
         /\ \A j \in Human : (human'[j] # NoHuman) <=> (human[j] # NoHuman)
<1> DEFINE row == [human[i] EXCEPT !.deleted = gone]
<1>1. row \in HumanRow /\ row.account = human[i].account BY DEF HumanRow
<1>2. human' = [human EXCEPT ![i] = row] OBVIOUS
<1> HIDE DEF row
<1> QED BY <1>1, <1>2, AbsenceIsNoRow

LEMMA EmploymentRelinked ==
  ASSUME employment \in [Employment -> HumanRow \cup {NoEmployment}], NEW i \in Employment, employment[i] # NoEmployment,
         NEW u \in UserAccount \cup {NoAccount}, employment' = [employment EXCEPT ![i].account = u]
  PROVE  /\ employment' \in [Employment -> HumanRow \cup {NoEmployment}] /\ employment'[i] \in HumanRow /\ employment'[i].account = u
         /\ \A j \in Employment \ {i} : employment'[j] = employment[j]
         /\ \A j \in Employment : (employment'[j] # NoEmployment) <=> (employment[j] # NoEmployment)
<1> DEFINE row == [employment[i] EXCEPT !.account = u]
<1>1. row \in HumanRow /\ row.account = u BY DEF HumanRow
<1>2. employment' = [employment EXCEPT ![i] = row] OBVIOUS
<1> HIDE DEF row
<1> QED BY <1>1, <1>2, AbsenceIsNoRow

LEMMA EmploymentMarked ==
  ASSUME employment \in [Employment -> HumanRow \cup {NoEmployment}], NEW i \in Employment, employment[i] # NoEmployment,
         NEW gone \in BOOLEAN, employment' = [employment EXCEPT ![i].deleted = gone]
  PROVE  /\ employment' \in [Employment -> HumanRow \cup {NoEmployment}] /\ employment'[i] \in HumanRow /\ employment'[i].account = employment[i].account
         /\ \A j \in Employment \ {i} : employment'[j] = employment[j]
         /\ \A j \in Employment : (employment'[j] # NoEmployment) <=> (employment[j] # NoEmployment)
<1> DEFINE row == [employment[i] EXCEPT !.deleted = gone]
<1>1. row \in HumanRow /\ row.account = employment[i].account BY DEF HumanRow
<1>2. employment' = [employment EXCEPT ![i] = row] OBVIOUS
<1> HIDE DEF row
<1> QED BY <1>1, <1>2, AbsenceIsNoRow

LEMMA UserRows ==
  ASSUME NEW row \in UserRow
  PROVE  LET tied == [row EXCEPT !.linked = TRUE] IN
         /\ tied \in UserRow /\ tied # NoAccount /\ row # NoAccount
         /\ tied.status = row.status /\ tied.password = row.password /\ tied.linked
<1> DEFINE tied == [row EXCEPT !.linked = TRUE]
<1>1. tied \in UserRow /\ tied.status = row.status /\ tied.password = row.password /\ tied.linked
  BY DEF UserRow
<1> HIDE DEF tied
<1>2. tied # NoAccount /\ row # NoAccount BY <1>1, AbsenceIsNoRow
<1> QED BY <1>1, <1>2 DEF tied

LEMMA NewRows == ASSUME NEW password \in BOOLEAN PROVE NewRow(password) \in UserRow
BY DEF NewRow, UserRow

SignedIn == [status |-> "ACTIVE", password |-> TRUE]

\* An identity that lets its accounts sign in goes on doing so, and one that
\* takes over an active account with a password does.
LEMMA IdentityFacts ==
  ASSUME identity \in [Email -> IdentityRow \cup {NoAccount}], NEW m \in Email, NEW row \in UserRow
  PROVE  /\ IdentityWith(m, row) \in [Email -> IdentityRow \cup {NoAccount}]
         /\ \A n \in Email \ {m} : IdentityWith(m, row)[n] = identity[n]
         /\ IdentityWith(m, row)[m] \in IdentityRow
         /\ identity[m] = SignedIn => IdentityWith(m, row)[m] = SignedIn
         /\ row.status = "ACTIVE" /\ row.password => IdentityWith(m, row)[m] = SignedIn
<1> DEFINE new == IF identity[m] = NoAccount THEN [status |-> row.status, password |-> row.password]
                  ELSE [status |-> IF row.status = "ACTIVE" THEN "ACTIVE" ELSE identity[m].status,
                        password |-> identity[m].password \/ row.password]
<1>1. IdentityWith(m, row) = [identity EXCEPT ![m] = new]
  BY DEF IdentityWith
<1>2. new \in IdentityRow
  <2>1. CASE identity[m] = NoAccount BY <2>1 DEF UserRow, IdentityRow
  <2>2. CASE identity[m] # NoAccount
    <3>1. identity[m] \in IdentityRow BY <2>2
    <3>2. (identity[m].password \/ row.password) \in BOOLEAN OBVIOUS
    <3> QED BY <2>2, <3>1, <3>2 DEF UserRow, IdentityRow
  <2> QED BY <2>1, <2>2
<1>3. identity[m] = SignedIn => new = SignedIn
  <2> SUFFICES ASSUME identity[m] = SignedIn PROVE new = SignedIn OBVIOUS
  <2>1. identity[m] # NoAccount 
    <3>1. SignedIn \in IdentityRow BY DEF SignedIn, IdentityRow
    <3> QED BY <3>1, AbsenceIsNoRow
  <2>2. (identity[m].password \/ row.password) = TRUE BY DEF SignedIn
  <2>3. (IF row.status = "ACTIVE" THEN "ACTIVE" ELSE identity[m].status) = "ACTIVE" BY DEF SignedIn
  <2>4. new = [status |-> "ACTIVE", password |-> TRUE] BY <2>1, <2>2, <2>3, Zenon
  <2> QED BY <2>4 DEF SignedIn
<1>4. row.status = "ACTIVE" /\ row.password => new = SignedIn
  <2> SUFFICES ASSUME row.status = "ACTIVE", row.password PROVE new = SignedIn OBVIOUS
  <2>1. (identity[m].password \/ row.password) = TRUE /\ row.password = TRUE BY DEF UserRow
  <2>2. CASE identity[m] = NoAccount BY <2>1, <2>2 DEF SignedIn
  <2>3. CASE identity[m] # NoAccount BY <2>1, <2>3 DEF SignedIn
  <2> QED BY <2>2, <2>3
<1> HIDE DEF new
<1> QED BY <1>1, <1>2, <1>3, <1>4

LEMMA AccountTypesStep ==
  ASSUME AccountTypes, [AccountsNext]_accountVars
  PROVE  AccountTypes'
<1> USE AccountsAssumption DEF AccountTypes, AccountsTypeOK
<1>0. \A l \in Linker : linker[l] # Idling /\ linker[l].op = "link" => employment[linker[l].employment] # NoEmployment
  OBVIOUS
<1>1. CASE UNCHANGED accountVars
  BY <1>1 DEF accountVars, Known
<1>2. ASSUME NEW u \in UserAccount, NEW password \in BOOLEAN, CreateTenantAdmin(u, password)
      PROVE  AccountTypes'
  <2>1. NewRow(password) \in UserRow /\ NewRow(password) # NoAccount
        /\ NewRow(password).status \in {"NONE", "INVITED", "ACTIVE"}
    BY NewRows, UserRows DEF UserRow
  <2>2. identity' \in [Email -> IdentityRow \cup {NoAccount}]
    BY <1>2, <2>1, IdentityFacts DEF CreateTenantAdmin
  <2>3. /\ user' = [user EXCEPT ![u] = NewRow(password)]
        /\ membership' = [membership EXCEPT ![u] = NewRow(password).status]
        /\ UNCHANGED <<human, employment, linker>>
    BY <1>2 DEF CreateTenantAdmin
  <2> QED BY <2>1, <2>2, <2>3 DEF Known
<1>3. ASSUME NEW u \in UserAccount, AcceptInvitation(u)
      PROVE  AccountTypes'
  <2>1. NewRow(TRUE) \in UserRow /\ NewRow(TRUE) # NoAccount /\ [status |-> "ACTIVE", password |-> TRUE] \in IdentityRow
    BY NewRows, UserRows DEF IdentityRow
  <2>2. /\ user' = [user EXCEPT ![u] = NewRow(TRUE)] /\ membership' = [membership EXCEPT ![u] = "ACTIVE"]
        /\ identity' = [identity EXCEPT ![EmailOf(u)] = [status |-> "ACTIVE", password |-> TRUE]]
        /\ UNCHANGED <<human, employment, linker>>
    BY <1>3 DEF AcceptInvitation
  <2>3. user' \in [UserAccount -> UserRow \cup {NoAccount}] /\ \A v \in UserAccount : Known(v) => Known(v)'
    BY <2>1, <2>2 DEF Known
  <2>4. identity' \in [Email -> IdentityRow \cup {NoAccount}]
    BY <2>1, <2>2
  <2>5. membership' \in [UserAccount -> {"NONE", "INVITED", "ACTIVE"}]
    BY <2>2
  <2>6. \A k \in Linker : linker[k] # Idling => linker[k].account \in UserAccount
    BY DEF LinkerRow
  <2> QED BY <2>2, <2>3, <2>4, <2>5, <2>6
<1>4. ASSUME NEW u \in UserAccount, NEW l \in Linker, ResolveRead(l, u)
      PROVE  AccountTypes'
  <2> DEFINE k == [op |-> "resolve", account |-> u, row |-> user[u]]
  <2>1. linker' = [linker EXCEPT ![l] = k] /\ Known(u) /\ UNCHANGED <<user, identity, membership, human, employment>>
    BY <1>4 DEF ResolveRead
  <2>2. k \in LinkerRow /\ k.op = "resolve" /\ k.account = u BY <2>1 DEF LinkerRow, Known
  <2> HIDE DEF k
  <2> QED BY <2>1, <2>2 DEF Known
<1>5. ASSUME NEW u \in UserAccount, NEW l \in Linker, NEW e \in Employment, NEW password \in BOOLEAN,
             LinkRead(l, e, u, password)
      PROVE  AccountTypes'
  <2> DEFINE row == IF Known(u) THEN user[u] ELSE NewRow(password)
             k == [op |-> "link", account |-> u, row |-> row, employment |-> e, new |-> ~Known(u)]
  <2>1. linker' = [linker EXCEPT ![l] = k] /\ Serving(e) /\ UNCHANGED <<user, identity, membership, human, employment>>
    BY <1>5 DEF LinkRead
  <2>2. row \in UserRow /\ (~Known(u)) \in BOOLEAN BY NewRows DEF Known
  <2>3. k \in LinkerRow /\ k.op = "link" /\ k.account = u /\ k.employment = e /\ k.new = ~Known(u)
    BY <2>2 DEF LinkerRow
  <2> HIDE DEF k
  <2> QED BY <2>1, <2>3 DEF Known, Serving
<1>6. ASSUME NEW l \in Linker, ResolveWrite(l)
      PROVE  AccountTypes'
  <2> DEFINE u == linker[l].account
             row == linker[l].row
  <2>1. u \in UserAccount /\ row \in UserRow /\ user[u] \in UserRow /\ EmailOf(u) \in Email
    BY <1>6 DEF ResolveWrite, LinkerRow, Known
  <2>2. identity' \in [Email -> IdentityRow \cup {NoAccount}]
    BY <1>6, <2>1, IdentityFacts DEF ResolveWrite
  <2>3. user' \in [UserAccount -> UserRow \cup {NoAccount}] /\ \A v \in UserAccount : Known(v) => Known(v)'
    BY <1>6, <2>1, UserRows DEF ResolveWrite, Known
  <2>4. membership' \in [UserAccount -> {"NONE", "INVITED", "ACTIVE"}]
    BY <1>6, <2>1 DEF ResolveWrite, UserRow
  <2>5. linker' \in [Linker -> LinkerRow \cup {Idling}] /\ \A k \in Linker : linker'[k] # Idling => linker'[k] = linker[k]
    BY <1>6 DEF ResolveWrite
  <2>6. \A k \in Linker : linker[k] # Idling => linker[k].account \in UserAccount
    BY DEF LinkerRow
  <2>7. UNCHANGED <<human, employment>> BY <1>6 DEF ResolveWrite
  <2> QED BY <2>2, <2>3, <2>4, <2>5, <2>6, <2>7
<1>7. ASSUME NEW l \in Linker, LinkWrite(l)
      PROVE  AccountTypes'
  <2> DEFINE u == linker[l].account
             row == linker[l].row
             e == linker[l].employment
             h == HumanOf(e)
  <2>1. u \in UserAccount /\ row \in UserRow /\ EmailOf(u) \in Email /\ e \in Employment /\ h \in Human
        /\ employment[e] \in HumanRow /\ human[h] \in HumanRow
    <3>1. linker[l] # Idling /\ linker[l].op = "link" BY <1>7 DEF LinkWrite
    <3>2. linker[l] \in LinkerRow BY <3>1
    <3>3. u \in UserAccount /\ row \in UserRow /\ e \in Employment BY <3>1, <3>2 DEF LinkerRow
    <3>4. employment[e] # NoEmployment BY <3>1, <1>0
    <3>5. human[HumanOf(e)] # NoHuman BY <3>3, <3>4
    <3>6. HumanOf(e) \in Human /\ EmailOf(u) \in Email BY <3>3
    <3> HIDE DEF u, row, e
    <3> QED BY <3>3, <3>4, <3>5, <3>6 DEF h
  <2>2. identity' \in [Email -> IdentityRow \cup {NoAccount}]
    BY <1>7, <2>1, IdentityFacts DEF LinkWrite
  <2>3. user' \in [UserAccount -> UserRow \cup {NoAccount}] /\ \A v \in UserAccount : Known(v) => Known(v)'
    BY <1>7, <2>1, UserRows DEF LinkWrite, Known
  <2>4. membership' \in [UserAccount -> {"NONE", "INVITED", "ACTIVE"}]
    BY <1>7, <2>1 DEF LinkWrite, UserRow
  <2>5. linker' \in [Linker -> LinkerRow \cup {Idling}] /\ \A k \in Linker : linker'[k] # Idling => linker'[k] = linker[k]
    BY <1>7 DEF LinkWrite
  <2>6. \A k \in Linker : linker[k] # Idling => linker[k].account \in UserAccount
    BY DEF LinkerRow
  <2>7. human' = [human EXCEPT ![h].account = u] /\ employment' = [employment EXCEPT ![e].account = u]
    BY <1>7 DEF LinkWrite
  <2> HIDE DEF u, row, e, h
  <2>8. human' \in [Human -> HumanRow \cup {NoHuman}] /\ \A g \in Human : human[g] # NoHuman => human'[g] # NoHuman
    BY <2>1, <2>7, AbsenceIsNoRow, HumanRelinked, EmploymentRelinked
  <2>9. /\ employment' \in [Employment -> HumanRow \cup {NoEmployment}]
        /\ \A f \in Employment : (employment[f] # NoEmployment) <=> (employment'[f] # NoEmployment)
    BY <2>1, <2>7, AbsenceIsNoRow, HumanRelinked, EmploymentRelinked
  <2>10. \A k \in Linker : linker[k] # Idling /\ linker[k].op = "link" => linker[k].employment \in Employment
    BY DEF LinkerRow
  <2> QED BY <2>2, <2>3, <2>4, <2>5, <2>6, <2>8, <2>9, <2>10
<1>8. ASSUME NEW l \in Linker, LinkerStops(l)
      PROVE  AccountTypes'
  BY <1>8 DEF LinkerStops, Known
\* Persons and employments alone change, and none disappears.
<1>9. ASSUME UNCHANGED <<user, identity, membership, linker>>,
             human' \in [Human -> HumanRow \cup {NoHuman}], employment' \in [Employment -> HumanRow \cup {NoEmployment}],
             \A g \in Human : human[g] # NoHuman => human'[g] # NoHuman,
             \A f \in Employment : employment[f] # NoEmployment => employment'[f] # NoEmployment,
             \A f \in Employment : employment'[f] # NoEmployment => human'[HumanOf(f)] # NoHuman
      PROVE  AccountTypes'
  <2>1. \A k \in Linker : linker[k] # Idling /\ linker[k].op = "link" => linker[k].employment \in Employment
    BY DEF LinkerRow
  <2> QED BY <1>9, <2>1 DEF Known
<1>10. ASSUME NEW u \in UserAccount \cup {NoAccount}, NEW e \in Employment, CreateEmployee(e, u) \/ UpdateEmployee(e, u)
       PROVE  AccountTypes'
  <2> DEFINE h == HumanOf(e)
  <2>1. h \in Human /\ human[h] \in HumanRow /\ human[h] # NoHuman
    BY <1>10 DEF CreateEmployee, UpdateEmployee, Present, Serving
  <2>2. /\ UNCHANGED <<user, identity, membership, linker>>
        /\ employment' = [employment EXCEPT ![e] = [account |-> u, deleted |-> FALSE]]
        /\ human' = [human EXCEPT ![h].account = u] \/ human' = human
    BY <1>10 DEF CreateEmployee, UpdateEmployee, Assigns
  <2> HIDE DEF h
  <2>3. human' \in [Human -> HumanRow \cup {NoHuman}] /\ \A g \in Human : human[g] # NoHuman => human'[g] # NoHuman
    BY <2>1, <2>2, HumanRelinked, EmploymentRelinked
  <2>4. /\ employment' \in [Employment -> HumanRow \cup {NoEmployment}]
        /\ \A f \in Employment : employment'[f] = employment[f] \/ f = e
        /\ employment'[e] # NoEmployment
    <3>1. [account |-> u, deleted |-> FALSE] \in HumanRow BY DEF HumanRow
    <3> QED BY <2>2, <3>1, AbsenceIsNoRow
  <2> QED BY <1>9, <2>1, <2>2, <2>3, <2>4 DEF h
<1>11. ASSUME NEW u \in UserAccount \cup {NoAccount}, NEW h \in Human, CreateHuman(h, u) \/ UpdateHuman(h, u)
       PROVE  AccountTypes'
  <2>1. human' \in [Human -> HumanRow \cup {NoHuman}] /\ \A g \in Human : human[g] # NoHuman => human'[g] # NoHuman
    <3>1. CASE CreateHuman(h, u) BY <3>1 DEF CreateHuman, HumanRow
    <3>2. CASE UpdateHuman(h, u) BY <3>2, HumanRelinked, EmploymentRelinked DEF UpdateHuman, Present
    <3> QED BY <1>11, <3>1, <3>2
  <2> QED BY <1>9, <1>11, <2>1 DEF CreateHuman, UpdateHuman
<1>12. ASSUME NEW e \in Employment, ArchiveEmployee(e) \/ RehireEmployee(e)
       PROVE  AccountTypes'
  <2>1. employment[e] \in HumanRow /\ employment[e] # NoEmployment
    BY <1>12 DEF ArchiveEmployee, RehireEmployee, Serving
  <2>2. /\ UNCHANGED <<user, identity, membership, human, linker>>
        /\ \E gone \in BOOLEAN : employment' = [employment EXCEPT ![e].deleted = gone]
    BY <1>12 DEF ArchiveEmployee, RehireEmployee
  <2>3. /\ employment' \in [Employment -> HumanRow \cup {NoEmployment}]
        /\ \A f \in Employment : (employment'[f] # NoEmployment) <=> (employment[f] # NoEmployment)
    BY <2>1, <2>2, HumanMarked, EmploymentMarked
  <2> QED BY <1>9, <2>2, <2>3
<1>13. ASSUME NEW h \in Human, DeleteHuman(h)
       PROVE  AccountTypes'
  <2>1. human[h] # NoHuman /\ human' = [human EXCEPT ![h].deleted = TRUE]
        /\ UNCHANGED <<user, identity, membership, employment, linker>>
    BY <1>13 DEF DeleteHuman, Present
  <2>2. /\ human' \in [Human -> HumanRow \cup {NoHuman}]
        /\ \A g \in Human : (human'[g] # NoHuman) <=> (human[g] # NoHuman)
    BY <2>1, HumanMarked, EmploymentMarked
  <2> QED BY <1>9, <2>1, <2>2
<1> QED
  BY <1>1, <1>2, <1>3, <1>4, <1>5, <1>6, <1>7, <1>8, <1>10, <1>11, <1>12, <1>13 DEF AccountsNext

LEMMA AccountTypesHold == AccountsSpec => []AccountTypes
<1>1. AccountsInit => AccountTypes
  <2>1. [status |-> "ACTIVE", password |-> TRUE, linked |-> FALSE] \in UserRow BY DEF UserRow
  <2> QED BY <2>1 DEF AccountsInit, AccountTypes, AccountsTypeOK
<1> QED BY <1>1, AccountTypesStep, PTL DEF AccountsSpec

\* A person has one account and an account one person; an employment has the
\* account of its person or none.
OneAccount ==
  /\ \A g, h \in Human : human[g] # NoHuman /\ human[h] # NoHuman /\ human[g].account = human[h].account
       /\ human[g].account # NoAccount => g = h
  /\ \A e \in Employment : employment[e] # NoEmployment /\ employment[e].account # NoAccount =>
       employment[e].account = human[HumanOf(e)].account

LEMMA OneAccountStep ==
  ASSUME PersonsKeepAccounts, AccountTypes, OneAccount, [AccountsNext]_accountVars
  PROVE  OneAccount'
<1> USE AccountsAssumption DEF AccountTypes, AccountsTypeOK
<1>1. CASE UNCHANGED <<human, employment>>
  BY <1>1 DEF OneAccount
\* An employment that exists is written, and its person given the account.
<1>2. ASSUME NEW e \in Employment, NEW u \in UserAccount \cup {NoAccount},
             human[HumanOf(e)] # NoHuman, u # NoAccount => human[HumanOf(e)].account \in {NoAccount, u},
             \A f \in Employment \ {e} : employment'[f] = employment[f], employment'[e].account = u,
             \/ u # NoAccount /\ HumanIndex(HumanOf(e), u) /\ human' = [human EXCEPT ![HumanOf(e)].account = u]
             \/ (u # NoAccount => human[HumanOf(e)].account = u) /\ human' = human
      PROVE  OneAccount'
  <2> DEFINE h == HumanOf(e)
  <2>1. h \in Human OBVIOUS
  <2>2. CASE human' = human
    <3>1. u # NoAccount => human[h].account = u
      <4>1. CASE human' = [human EXCEPT ![h].account = u]
        BY <1>2, <2>1, <2>2, <4>1, HumanRelinked
      <4>2. CASE ~(human' = [human EXCEPT ![h].account = u])
        BY <1>2, <4>2
      <4> QED BY <4>1, <4>2
    <3> QED BY <1>2, <2>2, <3>1 DEF OneAccount
  <2>3. CASE u # NoAccount /\ HumanIndex(h, u) /\ human' = [human EXCEPT ![h].account = u]
    <3>1. /\ human'[h].account = u /\ \A j \in Human \ {h} : human'[j] = human[j]
          /\ \A j \in Human : (human'[j] # NoHuman) <=> (human[j] # NoHuman)
      BY <1>2, <2>1, <2>3, HumanRelinked
    <3>2. \A j \in Human \ {h} : human[j] # NoHuman => human[j].account # u
      BY <2>3 DEF HumanIndex
    <3>3. \A f \in Employment : employment'[f] # NoEmployment /\ employment'[f].account # NoAccount =>
            employment'[f].account = human'[HumanOf(f)].account
      <4>1. ASSUME NEW f \in Employment, f # e, employment[f] # NoEmployment, employment[f].account # NoAccount
            PROVE  employment[f].account = human'[HumanOf(f)].account
        <5>1. employment[f].account = human[HumanOf(f)].account BY <4>1 DEF OneAccount
        <5>2. CASE HumanOf(f) = h BY <1>2, <2>3, <3>1, <4>1, <5>1, <5>2
        <5>3. CASE HumanOf(f) # h BY <3>1, <5>1, <5>3
        <5> QED BY <5>2, <5>3
      <4> QED BY <1>2, <3>1, <4>1
    <3>4. \A g, k \in Human : human'[g] # NoHuman /\ human'[k] # NoHuman /\ human'[g].account = human'[k].account
             /\ human'[g].account # NoAccount => g = k
      BY <2>1, <3>1, <3>2 DEF OneAccount
    <3> QED BY <3>3, <3>4 DEF OneAccount
  <2> QED BY <1>2, <2>2, <2>3
<1>3. ASSUME NEW u \in UserAccount \cup {NoAccount}, NEW e \in Employment, CreateEmployee(e, u) \/ UpdateEmployee(e, u)
      PROVE  OneAccount'
  <2>1. human[HumanOf(e)] # NoHuman
    BY <1>3 DEF CreateEmployee, UpdateEmployee, Present, Serving
  <2>2. ValidUserReference(e, u) /\ Assigns(e, u)
    BY <1>3 DEF CreateEmployee, UpdateEmployee
  <2>3. \A f \in Employment \ {e} : employment'[f] = employment[f]
    BY <2>2 DEF Assigns
  <2>4. employment'[e].account = u
    BY <2>2 DEF Assigns
  <2>5. \/ u # NoAccount /\ HumanIndex(HumanOf(e), u) /\ human' = [human EXCEPT ![HumanOf(e)].account = u]
        \/ (u # NoAccount => human[HumanOf(e)].account = u) /\ human' = human
    BY <2>2 DEF Assigns, ValidUserReference
  <2>6. u # NoAccount => human[HumanOf(e)].account \in {NoAccount, u}
    BY <2>2 DEF ValidUserReference
  <2> QED BY <1>2, <2>1, <2>3, <2>4, <2>5, <2>6
<1>4. ASSUME NEW l \in Linker, LinkWrite(l)
      PROVE  OneAccount'
  <2> DEFINE u == linker[l].account
             e == linker[l].employment
  <2>1. linker[l] # Idling /\ linker[l].op = "link" BY <1>4 DEF LinkWrite
  <2>2. u \in UserAccount /\ e \in Employment BY <2>1 DEF LinkerRow
  <2>3. employment[e] # NoEmployment BY <2>1
  <2>4. human[HumanOf(e)] # NoHuman BY <2>2, <2>3
  <2>5. /\ human[HumanOf(e)].account \in {NoAccount, u} /\ HumanIndex(HumanOf(e), u)
        /\ human' = [human EXCEPT ![HumanOf(e)].account = u] /\ employment' = [employment EXCEPT ![e].account = u]
    BY <1>4 DEF LinkWrite
  <2> HIDE DEF u, e
  <2>6. employment'[e].account = u /\ \A f \in Employment \ {e} : employment'[f] = employment[f]
    BY <2>2, <2>3, <2>5, EmploymentRelinked
  <2>7. u # NoAccount BY <2>2, AbsenceIsNoRow
  <2> QED BY <1>2, <2>2, <2>4, <2>5, <2>6, <2>7
<1>5. ASSUME NEW e \in Employment, ArchiveEmployee(e) \/ RehireEmployee(e)
      PROVE  OneAccount'
  <2>1. employment[e] # NoEmployment BY <1>5 DEF ArchiveEmployee, RehireEmployee, Serving
  <2>2. human' = human /\ \E gone \in BOOLEAN : employment' = [employment EXCEPT ![e].deleted = gone]
    BY <1>5 DEF ArchiveEmployee, RehireEmployee
  <2>3. /\ employment'[e].account = employment[e].account
        /\ \A f \in Employment \ {e} : employment'[f] = employment[f]
    BY <2>1, <2>2, EmploymentMarked
  <2> QED BY <2>1, <2>2, <2>3 DEF OneAccount
<1>6. ASSUME NEW u \in UserAccount \cup {NoAccount}, NEW h \in Human, CreateHuman(h, u)
      PROVE  OneAccount'
  <2>1. /\ human'[h].account = u /\ \A g \in Human \ {h} : human'[g] = human[g]
        /\ employment' = employment /\ HumanIndex(h, u) /\ human[h] = NoHuman
    BY <1>6 DEF CreateHuman
  <2>2. \A e \in Employment : employment[e] # NoEmployment => HumanOf(e) # h
    BY <2>1
  <2> QED BY <2>1, <2>2 DEF OneAccount, HumanIndex
<1>7. ASSUME NEW u \in UserAccount \cup {NoAccount}, NEW h \in Human, UpdateHuman(h, u)
      PROVE  OneAccount'
  <2>1. /\ human[h] # NoHuman /\ human' = [human EXCEPT ![h].account = u] /\ employment' = employment
        /\ HumanIndex(h, u) /\ human[h].account = NoAccount
    BY <1>7 DEF UpdateHuman, Present
  <2>2. human'[h].account = u /\ \A g \in Human \ {h} : human'[g] = human[g]
    BY <2>1, HumanRelinked
  <2>3. \A g \in Human : (human'[g] # NoHuman) <=> (human[g] # NoHuman)
    BY <2>1, HumanRelinked
  <2>4. \A e \in Employment : employment[e] # NoEmployment /\ employment[e].account # NoAccount => HumanOf(e) # h
    BY <2>1 DEF OneAccount
  <2> QED BY <2>1, <2>2, <2>3, <2>4 DEF OneAccount, HumanIndex
<1>8. ASSUME NEW h \in Human, DeleteHuman(h)
      PROVE  OneAccount'
  <2>1. human[h] # NoHuman /\ human' = [human EXCEPT ![h].deleted = TRUE] /\ employment' = employment
    BY <1>8 DEF DeleteHuman, Present
  <2>2. \A g \in Human : /\ (human'[g] # NoHuman) <=> (human[g] # NoHuman)
                         /\ human[g] # NoHuman => human'[g].account = human[g].account
    BY <2>1, HumanMarked
  <2> QED BY <2>1, <2>2 DEF OneAccount
<1> QED
  BY <1>1, <1>3, <1>4, <1>5, <1>6, <1>7, <1>8
  DEF AccountsNext, accountVars, CreateTenantAdmin, AcceptInvitation, ResolveRead, ResolveWrite, LinkRead, LinkerStops

\* linkEmployeeAccount, createEmployee, updatePerson and their like, for any
\* persons, employments and accounts: whoever acts through an account is one
\* person, if persons keep their accounts.
THEOREM AccountIsAlwaysOnePerson == AccountsSpec => []AccountIsOnePerson
<1> DEFINE Inv == PersonsKeepAccounts => OneAccount
<1>1. AccountsInit => Inv
  BY DEF AccountsInit, OneAccount
<1>2. AccountTypes /\ Inv /\ [AccountsNext]_accountVars => Inv'
  BY OneAccountStep
<1>3. AccountTypes /\ Inv => AccountIsOnePerson
  <2> SUFFICES ASSUME PersonsKeepAccounts, AccountTypes, OneAccount, NEW u \in UserAccount,
                      NEW e \in ActingThrough(u), NEW f \in ActingThrough(u)
               PROVE  HumanOf(e) = HumanOf(f)
    BY DEF AccountIsOnePerson
  <2>1. ASSUME NEW k \in ActingThrough(u)
        PROVE  HumanOf(k) \in Human /\ human[HumanOf(k)] # NoHuman /\ human[HumanOf(k)].account = u
    BY AbsenceIsNoRow, AccountsAssumption DEF ActingThrough, Serving, OneAccount, AccountTypes
  <2> QED BY <2>1, AbsenceIsNoRow DEF OneAccount
<1> QED BY <1>1, <1>2, <1>3, AccountTypesHold, PTL DEF AccountsSpec

\* What a linker has read of an account: one with a password if it was ACTIVE,
\* and one without links only if it was seeded.
Sound(row) == (row.status = "ACTIVE" => row.password) /\ (~row.linked => row.status = "ACTIVE")

UsersSound ==
  \A u \in UserAccount : Known(u) =>
    /\ Sound(user[u])
    /\ user[u].linked => identity[EmailOf(u)] # NoAccount
    /\ user[u].linked /\ user[u].status = "ACTIVE" => identity[EmailOf(u)] = SignedIn

LinkersSound ==
  \A l \in Linker : linker[l] # Idling =>
    /\ Sound(linker[l].row)
    /\ linker[l].op = "link" /\ linker[l].new => linker[l].row.linked
    /\ linker[l].row.linked /\ Known(linker[l].account) => user[linker[l].account].linked

IdentityInv == UsersSound /\ LinkersSound

\* Accounts are linked once and for all, and new ones are.
LEMMA LinkersLeft ==
  ASSUME LinkersSound,
         \A l \in Linker : linker[l] # Idling => linker[l].account \in UserAccount,
         \A l \in Linker : linker'[l] # Idling => linker'[l] = linker[l],
         \A v \in UserAccount : Known(v)' => user'[v].linked \/ (Known(v) /\ ~user[v].linked)
  PROVE  LinkersSound'
BY DEF LinkersSound, Sound

LEMMA NewRowFacts ==
  ASSUME NEW password \in BOOLEAN
  PROVE  /\ NewRow(password) \in UserRow /\ NewRow(password) # NoAccount /\ NewRow(password).linked
         /\ Sound(NewRow(password)) /\ NewRow(password).password = password
         /\ (NewRow(password).status = "ACTIVE") = password
<1>1. NewRow(password) \in UserRow BY NewRows
<1>2. NewRow(password) # NoAccount BY <1>1, AbsenceIsNoRow
<1> QED BY <1>1, <1>2 DEF NewRow, Sound

\* One account is written, and its identity taken further.
LEMMA AccountWritten ==
  ASSUME AccountTypes, IdentityInv, NEW u \in UserAccount, NEW new \in UserRow,
         user' = [user EXCEPT ![u] = new], Sound(new),
         identity'[EmailOf(u)] \in IdentityRow,
         \A m \in Email \ {EmailOf(u)} : identity'[m] = identity[m],
         identity[EmailOf(u)] = SignedIn => identity'[EmailOf(u)] = SignedIn,
         new.linked /\ new.status = "ACTIVE" => identity'[EmailOf(u)] = SignedIn
  PROVE  UsersSound'
<1>1. user'[u] = new /\ \A v \in UserAccount \ {u} : user'[v] = user[v]
  BY DEF AccountTypes, AccountsTypeOK
<1>2. \A v \in UserAccount : EmailOf(v) \in Email
  BY AccountsAssumption
<1>3. \A v \in UserAccount \ {u} : Known(v)' => Known(v)
  BY <1>1 DEF Known
<1> QED BY <1>1, <1>2, <1>3, AbsenceIsNoRow DEF IdentityInv, UsersSound

LEMMA IdentityStep ==
  ASSUME AccountTypes, IdentityInv, [AccountsNext]_accountVars
  PROVE  IdentityInv'
<1> USE AccountsAssumption
<1>0. /\ \A u \in UserAccount : Known(u) => user[u] \in UserRow
      /\ identity \in [Email -> IdentityRow \cup {NoAccount}]
      /\ user \in [UserAccount -> UserRow \cup {NoAccount}]
      /\ linker \in [Linker -> LinkerRow \cup {Idling}]
      /\ \A l \in Linker : linker[l] # Idling => linker[l].account \in UserAccount /\ linker[l].row \in UserRow
  <2>1. \A l \in Linker : linker[l] # Idling => linker[l].account \in UserAccount /\ linker[l].row \in UserRow
    BY DEF AccountTypes, LinkerRow
  <2> QED BY <2>1 DEF AccountTypes, AccountsTypeOK, Known
<1>1. CASE UNCHANGED <<user, identity, linker>>
  BY <1>1 DEF IdentityInv, UsersSound, LinkersSound, Known
<1>2. ASSUME NEW u \in UserAccount, NEW password \in BOOLEAN, CreateTenantAdmin(u, password)
      PROVE  IdentityInv'
  <2> DEFINE new == NewRow(password)
  <2>1. /\ ~Known(u) /\ user' = [user EXCEPT ![u] = new] /\ identity' = IdentityWith(EmailOf(u), new)
        /\ linker' = linker
    BY <1>2 DEF CreateTenantAdmin
  <2>2. /\ new \in UserRow /\ Sound(new) /\ new.linked
    BY NewRowFacts
  <2> HIDE DEF new
  <2>3. new.status = "ACTIVE" => new.password BY <2>2 DEF Sound
  <2>4. /\ identity'[EmailOf(u)] \in IdentityRow
        /\ \A m \in Email \ {EmailOf(u)} : identity'[m] = identity[m]
        /\ identity[EmailOf(u)] = SignedIn => identity'[EmailOf(u)] = SignedIn
        /\ new.status = "ACTIVE" => identity'[EmailOf(u)] = SignedIn
    BY <1>0, <2>1, <2>2, <2>3, IdentityFacts
  <2>5. LinkersSound'
    <3>1. \A v \in UserAccount : Known(v)' => user'[v].linked \/ (Known(v) /\ user'[v] = user[v])
      BY <1>0, <2>1, <2>2 DEF Known
    <3>2. \A v \in UserAccount : Known(v)' => user'[v].linked \/ (Known(v) /\ ~user[v].linked)
      BY <3>1
    <3> QED BY <1>0, <2>1, <3>2, LinkersLeft DEF IdentityInv
  <2>6. UsersSound'
    BY <2>1, <2>2, <2>4, AccountWritten
  <2> QED BY <2>5, <2>6 DEF IdentityInv
<1>3. ASSUME NEW u \in UserAccount, AcceptInvitation(u)
      PROVE  IdentityInv'
  <2>1. /\ user' = [user EXCEPT ![u] = NewRow(TRUE)] /\ linker' = linker
        /\ identity' = [identity EXCEPT ![EmailOf(u)] = SignedIn]
    BY <1>3 DEF AcceptInvitation, SignedIn
  <2>2. NewRow(TRUE) \in UserRow /\ Sound(NewRow(TRUE)) /\ NewRow(TRUE).linked /\ SignedIn \in IdentityRow
    BY NewRowFacts DEF SignedIn, IdentityRow
  <2>3. identity'[EmailOf(u)] = SignedIn /\ \A m \in Email \ {EmailOf(u)} : identity'[m] = identity[m]
    BY <1>0, <2>1
  <2>4. UsersSound'
    BY <2>1, <2>2, <2>3, AccountWritten
  <2>5. user'[u].linked /\ \A v \in UserAccount \ {u} : user'[v] = user[v]
    BY <1>0, <2>1, <2>2
  <2>6. LinkersSound'
    <3>1. \A v \in UserAccount : Known(v)' => user'[v].linked \/ (Known(v) /\ ~user[v].linked)
      BY <2>5 DEF Known
    <3> QED BY <1>0, <2>1, <3>1, LinkersLeft DEF IdentityInv
  <2> QED BY <2>4, <2>6 DEF IdentityInv
<1>4. ASSUME NEW l \in Linker, NEW k \in LinkerRow, linker' = [linker EXCEPT ![l] = k], Sound(k.row),
             k.op = "link" /\ k.new => k.row.linked,
             k.row.linked /\ Known(k.account) => user[k.account].linked,
             UNCHANGED <<user, identity>>
      PROVE  IdentityInv'
  <2>1. linker'[l] = k /\ \A o \in Linker \ {l} : linker'[o] = linker[o] BY <1>0, <1>4
  <2>2. LinkersSound'
    BY <1>4, <2>1 DEF IdentityInv, LinkersSound, Known, Sound
  <2>3. UsersSound' BY <1>4 DEF IdentityInv, UsersSound, Known
  <2> QED BY <2>2, <2>3 DEF IdentityInv
<1>5. ASSUME NEW u \in UserAccount, NEW l \in Linker, ResolveRead(l, u)
      PROVE  IdentityInv'
  <2> DEFINE k == [op |-> "resolve", account |-> u, row |-> user[u]]
  <2>1. linker' = [linker EXCEPT ![l] = k] /\ Known(u) /\ UNCHANGED <<user, identity>>
    BY <1>5 DEF ResolveRead
  <2>2. k \in LinkerRow /\ k.op = "resolve" /\ k.account = u /\ k.row = user[u] BY <1>0, <2>1 DEF LinkerRow
  <2>3. Sound(k.row) BY <2>1, <2>2 DEF IdentityInv, UsersSound, LinkersSound
  <2> HIDE DEF k
  <2> QED BY <1>4, <2>1, <2>2, <2>3
<1>6. ASSUME NEW u \in UserAccount, NEW l \in Linker, NEW e \in Employment, NEW password \in BOOLEAN,
             LinkRead(l, e, u, password)
      PROVE  IdentityInv'
  <2> DEFINE row == IF Known(u) THEN user[u] ELSE NewRow(password)
             k == [op |-> "link", account |-> u, row |-> row, employment |-> e, new |-> ~Known(u)]
  <2>1. linker' = [linker EXCEPT ![l] = k] /\ UNCHANGED <<user, identity>>
    BY <1>6 DEF LinkRead
  <2>2. row \in UserRow /\ (~Known(u)) \in BOOLEAN BY <1>0, NewRows
  <2>3. Sound(row)
    <3>1. CASE Known(u) BY <3>1 DEF IdentityInv, UsersSound, LinkersSound
    <3>2. CASE ~Known(u) BY <3>2, NewRowFacts
    <3> QED BY <3>1, <3>2
  <2>4. (Known(u) => row = user[u]) /\ (~Known(u) => row.linked) BY NewRowFacts
  <2> HIDE DEF row
  <2>5. k \in LinkerRow /\ k.op = "link" /\ k.account = u /\ k.row = row /\ k.new = ~Known(u)
    BY <2>2 DEF LinkerRow
  <2> HIDE DEF k
  <2> QED BY <1>4, <2>1, <2>3, <2>4, <2>5
<1>7. ASSUME NEW l \in Linker, ResolveWrite(l)
      PROVE  IdentityInv'
  <2> DEFINE u == linker[l].account
             row == linker[l].row
             m == EmailOf(u)
             tied == [user[u] EXCEPT !.linked = TRUE]
  <2>1. /\ linker[l] # Idling /\ linker[l].op = "resolve" /\ linker' = [linker EXCEPT ![l] = Idling]
        /\ \/ ~row.linked /\ identity' = IdentityWith(m, row) /\ user' = [user EXCEPT ![u] = tied]
           \/ row.linked /\ user' = user /\ (identity' = IdentityWith(m, row) \/ identity' = identity)
    BY <1>7 DEF ResolveWrite
  <2>2. u \in UserAccount /\ row \in UserRow /\ Sound(row) /\ Known(u) /\ user[u] \in UserRow /\ m \in Email
    BY <1>0, <2>1 DEF IdentityInv, UsersSound, LinkersSound, AccountTypes
  <2>3. row.linked => user[u].linked
    BY <2>1, <2>2 DEF IdentityInv, UsersSound, LinkersSound
  <2> HIDE DEF u, row, m
  <2>4. /\ tied \in UserRow /\ tied.status = user[u].status /\ tied.password = user[u].password /\ tied.linked
    BY <2>2, UserRows
  <2>5. Sound(tied)
    BY <2>2, <2>4 DEF Sound, IdentityInv, UsersSound, LinkersSound
  <2> HIDE DEF tied
  <2>6. /\ \A n \in Email \ {m} : IdentityWith(m, row)[n] = identity[n]
        /\ IdentityWith(m, row)[m] \in IdentityRow
        /\ identity[m] = SignedIn => IdentityWith(m, row)[m] = SignedIn
        /\ ~row.linked => IdentityWith(m, row)[m] = SignedIn
    BY <1>0, <2>2, IdentityFacts DEF Sound
  <2>7. UsersSound'
    <3>1. CASE ~row.linked
      BY <2>1, <2>2, <2>4, <2>5, <2>6, <3>1, AccountWritten DEF m
    <3>2. CASE row.linked /\ identity' = identity
      BY <2>1, <3>2 DEF IdentityInv, UsersSound, LinkersSound, Known
    <3>3. CASE row.linked /\ identity' = IdentityWith(m, row)
      <4>1. user' = user BY <2>1, <3>3
      <4>2. \A v \in UserAccount : EmailOf(v) \in Email OBVIOUS
      <4> QED BY <2>6, <3>3, <4>1, <4>2, AbsenceIsNoRow DEF IdentityInv, UsersSound, LinkersSound, Known
    <3> QED BY <2>1, <3>1, <3>2, <3>3
  <2>8. \A v \in UserAccount : (Known(v)' <=> Known(v)) /\ (user[v].linked => user'[v].linked)
    <3>1. CASE user' = user BY <3>1 DEF Known
    <3>2. CASE user' = [user EXCEPT ![u] = tied]
      <4>1. tied # NoAccount BY <2>4, AbsenceIsNoRow
      <4> QED BY <1>0, <2>2, <2>4, <3>2, <4>1 DEF Known
    <3> QED BY <2>1, <3>1, <3>2
  <2>9. \A o \in Linker : linker'[o] # Idling => linker'[o] = linker[o]
    BY <1>0, <2>1
  <2>10. LinkersSound'
    BY <1>0, <2>8, <2>9, LinkersLeft DEF IdentityInv
  <2> QED BY <2>7, <2>10 DEF IdentityInv
<1>8. ASSUME NEW l \in Linker, LinkWrite(l)
      PROVE  IdentityInv'
  <2> DEFINE u == linker[l].account
             row == linker[l].row
             m == EmailOf(u)
             new == IF user[u] = NoAccount THEN row ELSE [user[u] EXCEPT !.linked = TRUE]
  <2>1. /\ linker[l] # Idling /\ linker[l].op = "link" /\ linker' = [linker EXCEPT ![l] = Idling]
        /\ linker[l].new => ~Known(u)
        /\ identity' = IdentityWith(m, row) /\ user' = [user EXCEPT ![u] = new]
    BY <1>8 DEF LinkWrite
  <2>2. u \in UserAccount /\ row \in UserRow /\ Sound(row) /\ m \in Email
    BY <1>0, <2>1 DEF IdentityInv, UsersSound, LinkersSound
  <2>3. Known(u) /\ row.linked => user[u].linked
    BY <2>1, <2>2 DEF IdentityInv, UsersSound, LinkersSound
  <2>4. Known(u) => Sound(user[u]) /\ user[u] \in UserRow
                    /\ (user[u].linked /\ user[u].status = "ACTIVE" => identity[m] = SignedIn)
    BY <1>0, <2>2 DEF IdentityInv, UsersSound, LinkersSound
  <2> HIDE DEF u, row, m
  <2>5. CASE Known(u)
    <3>1. new = [user[u] EXCEPT !.linked = TRUE] BY <2>5 DEF Known
    <3>2. /\ new \in UserRow /\ new.status = user[u].status /\ new.password = user[u].password /\ new.linked
      BY <2>4, <2>5, <3>1, UserRows
    <3> HIDE DEF new
    <3>3. Sound(new) BY <2>4, <2>5, <3>2 DEF Sound
    <3>4. IdentityWith(m, row)[m] \in IdentityRow /\ \A n \in Email \ {m} : IdentityWith(m, row)[n] = identity[n]
      BY <1>0, <2>2, IdentityFacts
    <3>5. identity[m] = SignedIn => IdentityWith(m, row)[m] = SignedIn
      BY <1>0, <2>2, IdentityFacts
    <3>6. new.status = "ACTIVE" => IdentityWith(m, row)[m] = SignedIn
      <4>1. CASE row.linked BY <2>3, <2>4, <2>5, <3>2, <3>5, <4>1
      <4>2. CASE ~row.linked BY <1>0, <2>2, <4>2, IdentityFacts DEF Sound
      <4> QED BY <4>1, <4>2
    <3>7. UsersSound'
      BY <2>1, <2>2, <3>2, <3>3, <3>4, <3>5, <3>6, AccountWritten DEF m
    <3>8. user'[u] = new /\ (\A v \in UserAccount \ {u} : user'[v] = user[v])
      BY <1>0, <2>1, <2>2, <3>2
    <3>9. \A v \in UserAccount : Known(v)' => Known(v) /\ (user[v].linked => user'[v].linked)
      BY <2>5, <3>2, <3>8 DEF Known
    <3>10. \A o \in Linker : linker'[o] # Idling => linker'[o] = linker[o]
      BY <1>0, <2>1
    <3>11. LinkersSound'
      BY <1>0, <3>9, <3>10, LinkersLeft DEF IdentityInv
    <3> QED BY <3>7, <3>11 DEF IdentityInv
  <2>6. CASE ~Known(u)
    <3>1. new = row BY <2>6 DEF Known
    <3> HIDE DEF new
    <3>2. linker[l].new BY <2>1, <2>6 DEF AccountTypes, u
    <3>3. row.linked BY <2>1, <3>2 DEF IdentityInv, LinkersSound, row
    <3>4. /\ IdentityWith(m, row)[m] \in IdentityRow /\ \A n \in Email \ {m} : IdentityWith(m, row)[n] = identity[n]
          /\ identity[m] = SignedIn => IdentityWith(m, row)[m] = SignedIn
          /\ row.status = "ACTIVE" => IdentityWith(m, row)[m] = SignedIn
      BY <1>0, <2>2, IdentityFacts DEF Sound
    <3>5. UsersSound'
      BY <2>1, <2>2, <3>1, <3>4, AccountWritten DEF m
    <3>6. \A v \in UserAccount : Known(v)' => user'[v].linked \/ (Known(v) /\ ~user[v].linked)
      BY <1>0, <2>1, <2>2, <3>1, <3>3 DEF Known
    <3>7. \A o \in Linker : linker'[o] # Idling => linker'[o] = linker[o]
      BY <1>0, <2>1
    <3> QED BY <1>0, <3>5, <3>6, <3>7, LinkersLeft DEF IdentityInv
  <2> QED BY <2>5, <2>6
<1>9. ASSUME NEW l \in Linker, LinkerStops(l)
      PROVE  IdentityInv'
  <2>1. /\ UNCHANGED <<user, identity>> /\ \A o \in Linker : linker'[o] # Idling => linker'[o] = linker[o]
    BY <1>0, <1>9 DEF LinkerStops
  <2>2. \A v \in UserAccount : Known(v)' => user'[v].linked \/ (Known(v) /\ ~user[v].linked)
    BY <2>1 DEF Known
  <2>3. LinkersSound' BY <1>0, <2>1, <2>2, LinkersLeft DEF IdentityInv
  <2>4. UsersSound' BY <2>1 DEF IdentityInv, UsersSound, Known
  <2> QED BY <2>3, <2>4 DEF IdentityInv
<1> QED
  BY <1>1, <1>2, <1>3, <1>5, <1>6, <1>7, <1>8, <1>9
  DEF AccountsNext, accountVars, CreateEmployee, UpdateEmployee, Assigns, CreateHuman, UpdateHuman, DeleteHuman,
      ArchiveEmployee, RehireEmployee

\* What login asks for, for any accounts, addresses and handlers that write
\* back what they read before: an account that was set up and is linked has an
\* identity that is ACTIVE and has a password.
THEOREM ActiveAccountAlwaysSignsIn == AccountsSpec => []ActiveAccountSignsIn
<1>1. AccountsInit => IdentityInv
  BY AbsenceIsNoRow DEF AccountsInit, IdentityInv, UsersSound, LinkersSound, Known, Sound
<1>2. IdentityInv => ActiveAccountSignsIn
  BY DEF IdentityInv, UsersSound, ActiveAccountSignsIn, SignedIn
<1> QED BY <1>1, <1>2, IdentityStep, AccountTypesHold, PTL DEF AccountsSpec
===============================================================================
