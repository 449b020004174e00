----------------------------- MODULE PersonRecords -----------------------------
(***************************************************************************)
(* A person and what is recorded of them: contacts, addresses, emergency     *)
(* contacts and listed items, persons/persons.service.ts, and what an        *)
(* employee keeps of it in employees/employees.service.ts.                   *)
(*                                                                         *)
(* Each handler is one action.  Whichever of several rows the database finds *)
(* first, where an order by creation decides, is left open.  Values are left  *)
(* out; only contacts have a type that matters, and a label that is the one  *)
(* of self-service or another.                                              *)
(***************************************************************************)
EXTENDS Naturals, FiniteSets

CONSTANTS ItemId,
          ContactType,
          Key,               \* skills and languages
          RetypesSayPrimary, \* requests that change a contact's type say isPrimary
          NoItem

ASSUME PersonRecordsAssumption == RetypesSayPrimary \in BOOLEAN

VARIABLES person, \* one Person row
          linked, \* whether an Employee row of that person is not deleted
          item

personVars == <<person, linked, item>>

FlaggedKind == {"contact", "address", "emergency"}
ListedKind == {"identity", "education", "experience", "certification"}
KeyedKind == {"skill", "language"}

\* PersonContact, PersonAddress and EmergencyContact rows; type "home" is the
\* one self-service asks for, own the label it gives.
ItemRow ==
  [kind : {"contact"}, type : ContactType, own : BOOLEAN, isPrimary : BOOLEAN]
  \cup [kind : {"address"}, type : {"home", "other"}, isPrimary : BOOLEAN]
  \cup [kind : {"emergency"}, isPrimary : BOOLEAN]
  \cup [kind : ListedKind]
  \cup [kind : KeyedKind, key : Key]

PersonRecordsTypeOK ==
  /\ person \in {"NONE", "LIVE", "DELETED"} /\ linked \in BOOLEAN
  /\ item \in [ItemId -> ItemRow \cup {NoItem}]

PersonRecordsInit == person = "NONE" /\ linked = FALSE /\ item = [i \in ItemId |-> NoItem]

Live(i) == item[i] # NoItem
ItemsOf(kind) == {i \in ItemId : Live(i) /\ item[i].kind = kind}
Primaries(kind) == {i \in ItemsOf(kind) : item[i].isPrimary}

----------------------------------------------------------------------------
\* The person.

CreatePerson ==
  /\ person = "NONE" /\ person' = "LIVE"
  /\ UNCHANGED <<linked, item>>

DeletePerson ==
  /\ person = "LIVE" /\ ~linked
  /\ person' = "DELETED"
  /\ UNCHANGED <<linked, item>>

\* createEmployee asks for a person who is not deleted; archiveEmployee, and
\* rehireEmployee, which does not look at the person.
EmployeeCreated == person = "LIVE" /\ linked' = TRUE /\ UNCHANGED <<person, item>>
EmployeeArchived == linked /\ linked' = FALSE /\ UNCHANGED <<person, item>>
EmployeeRehired == person # "NONE" /\ ~linked /\ linked' = TRUE /\ UNCHANGED <<person, item>>

----------------------------------------------------------------------------
\* Items kept by HR.

\* Rows whose isPrimary gives way to that of a row of this kind, and of this
\* type if they are contacts.
Rivals(row) ==
  {i \in ItemsOf(row.kind) : row.kind = "contact" => item[i].type = row.type}

\* The transaction of createContact, updateContact and the like: the other
\* primaries give way, then the row is written.
Put(i, row) ==
  item' = [j \in ItemId |->
    IF j = i THEN row
    ELSE IF row.isPrimary /\ j \in Rivals(row) THEN [item[j] EXCEPT !.isPrimary = FALSE] ELSE item[j]]

Keeps == person = "LIVE" /\ UNCHANGED <<person, linked>>

CreateContact(i, type, own, isPrimary) ==
  /\ Keeps /\ ~Live(i)
  /\ Put(i, [kind |-> "contact", type |-> type, own |-> own, isPrimary |-> isPrimary])

\* isPrimary may be left out: others give way only if the request says it.
UpdateContact(i, type, says) ==
  /\ Keeps /\ i \in ItemsOf("contact")
  /\ RetypesSayPrimary /\ type # item[i].type => says # {}
  /\ LET row == [item[i] EXCEPT !.type = type] IN
     IF says = {} THEN item' = [item EXCEPT ![i] = row]
     ELSE \E flag \in says : Put(i, [row EXCEPT !.isPrimary = flag])

CreateAddress(i, type, isPrimary) ==
  /\ Keeps /\ ~Live(i)
  /\ Put(i, [kind |-> "address", type |-> type, isPrimary |-> isPrimary])

UpdateAddress(i, type, says) ==
  /\ Keeps /\ i \in ItemsOf("address")
  /\ LET row == [item[i] EXCEPT !.type = type] IN
     IF says = {} THEN item' = [item EXCEPT ![i] = row]
     ELSE \E flag \in says : Put(i, [row EXCEPT !.isPrimary = flag])

CreateEmergencyContact(i, isPrimary) ==
  /\ Keeps /\ ~Live(i)
  /\ Put(i, [kind |-> "emergency", isPrimary |-> isPrimary])

UpdateEmergencyContact(i, isPrimary) ==
  /\ Keeps /\ i \in ItemsOf("emergency")
  /\ Put(i, [item[i] EXCEPT !.isPrimary = isPrimary])

\* addEducation and the like; a skill or a language that is known is updated.
AddListed(i, kind) ==
  /\ Keeps /\ ~Live(i) /\ kind \in ListedKind
  /\ item' = [item EXCEPT ![i] = [kind |-> kind]]

AddKeyed(i, kind, key) ==
  /\ Keeps /\ ~Live(i) /\ kind \in KeyedKind
  /\ \A j \in ItemsOf(kind) : item[j].key # key
  /\ item' = [item EXCEPT ![i] = [kind |-> kind, key |-> key]]

DeleteItem(i) ==
  /\ Keeps /\ Live(i)
  /\ item' = [item EXCEPT ![i] = NoItem]

----------------------------------------------------------------------------
\* Items kept by the employee: updateMyMasterData.

SelfService == linked /\ UNCHANGED <<person, linked>>

UpsertPersonContact(i, type) ==
  /\ SelfService
  /\ LET known == {j \in ItemsOf("contact") : item[j].type = type /\ item[j].own}
         first == \A j \in Primaries("contact") : item[j].type # type IN
     IF known # {} THEN i \in known /\ UNCHANGED item
     ELSE ~Live(i) /\ item' = [item EXCEPT ![i] =
            [kind |-> "contact", type |-> type, own |-> TRUE, isPrimary |-> first]]

\* The primary row, and for addresses also one of that type.
Chosen(kind, type) ==
  IF Primaries(kind) # {} \/ kind = "emergency" THEN Primaries(kind)
  ELSE {j \in ItemsOf(kind) : item[j].type = type}

\* upsertSelfServiceAddress; its row becomes primary, and no other gives way.
UpsertSelfServiceAddress(i, type) ==
  /\ SelfService
  /\ LET known == Chosen("address", type) IN IF known # {} THEN i \in known ELSE ~Live(i)
  /\ item' = [item EXCEPT ![i] = [kind |-> "address", type |-> type, isPrimary |-> TRUE]]

UpsertSelfServiceEmergencyContact(i) ==
  /\ SelfService
  /\ LET known == Chosen("emergency", "home") IN IF known # {} THEN i \in known ELSE ~Live(i)
  /\ item' = [item EXCEPT ![i] = [kind |-> "emergency", isPrimary |-> TRUE]]

----------------------------------------------------------------------------
PersonRecordsNext ==
  \/ CreatePerson \/ DeletePerson
  \/ EmployeeCreated \/ EmployeeArchived \/ EmployeeRehired
  \/ \E i \in ItemId :
       \/ \E type \in ContactType :
            \/ \E own, flag \in BOOLEAN : CreateContact(i, type, own, flag)
            \/ \E says \in {{}, {TRUE}, {FALSE}} : UpdateContact(i, type, says)
            \/ UpsertPersonContact(i, type)
       \/ \E type \in {"home", "other"} :
            \/ \E flag \in BOOLEAN : CreateAddress(i, type, flag)
            \/ \E says \in {{}, {TRUE}, {FALSE}} : UpdateAddress(i, type, says)
            \/ UpsertSelfServiceAddress(i, type)
       \/ \E flag \in BOOLEAN : CreateEmergencyContact(i, flag) \/ UpdateEmergencyContact(i, flag)
       \/ UpsertSelfServiceEmergencyContact(i)
       \/ \E kind \in ListedKind : AddListed(i, kind)
       \/ \E kind \in KeyedKind, key \in Key : AddKeyed(i, kind, key)
       \/ DeleteItem(i)

PersonRecordsSpec == PersonRecordsInit /\ [][PersonRecordsNext]_personVars

----------------------------------------------------------------------------
\* Properties.

\* What createContact, updateContact, upsertPersonContact and their like leave
\* behind, whoever of HR and the employee goes first: a person has one primary
\* contact of a type, one primary address and one primary emergency contact.
OnePrimaryOfAKind ==
  RetypesSayPrimary => \A i, j \in ItemId :
    i # j /\ Live(i) /\ Live(j) /\ item[i].kind = item[j].kind /\ item[i].kind \in FlaggedKind
      /\ (item[i].kind = "contact" => item[i].type = item[j].type)
      => ~(item[i].isPrimary /\ item[j].isPrimary)
=============================================================================
