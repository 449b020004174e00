------------------------------- MODULE Documents -------------------------------
(***************************************************************************)
(* Documents, their versions and their verification:                       *)
(* documents/documents.service.ts, and the submission of a document by the  *)
(* employee in employees/employees.service.ts.                             *)
(*                                                                         *)
(* A handler is a transaction in two steps: it reads the document, and it    *)
(* writes it by id.  Versions of a document are numbered from 1; files and   *)
(* where they are stored, visibility and who owns a document are left out.   *)
(***************************************************************************)
EXTENDS Integers, FiniteSets

CONSTANTS DocumentId, DocumentTypeId,
          MaxVersion,
          Clerk,               \* handlers
          ClerksTakeTurns,
          NoType, NoDocument

ASSUME DocumentsAssumption == MaxVersion \in Nat \ {0} /\ ClerksTakeTurns \in BOOLEAN

VARIABLES document,  \* Document rows
          versions,  \* how many DocumentVersion rows a document has
          docType,   \* whether a type requiresVerification, or "NONE"
          lookedAt,   \* the version a document was verified in last, or 0
          byHand, \* documents whose VERIFIED may be nobody's finding
          clerk

documentVars == <<document, versions, docType, lookedAt, byHand, clerk>>

VerificationStatus == {"NOT_REQUIRED", "PENDING", "VERIFIED", "REJECTED", "EXPIRED"}
\* current is currentVersionId by number, 0 without; expired: expiresAt has passed.
DocumentRow == [type : DocumentTypeId \cup {NoType}, status : VerificationStatus,
                current : 0 .. MaxVersion, expired : BOOLEAN, deleted : BOOLEAN]
NoWork == [op |-> "rest"]

ASSUME NoDocumentIsNoRow == NoDocument \notin DocumentRow

DocumentsTypeOK ==
  /\ document \in [DocumentId -> DocumentRow \cup {NoDocument}]
  /\ versions \in [DocumentId -> 0 .. MaxVersion]
  /\ docType \in [DocumentTypeId -> {"strict", "lax", "NONE"}]
  /\ \A d \in DocumentId : document[d] # NoDocument => document[d].current <= versions[d]

DocumentsInit ==
  /\ document = [d \in DocumentId |-> NoDocument]
  /\ versions = [d \in DocumentId |-> 0]
  /\ docType = [t \in DocumentTypeId |-> "NONE"]
  /\ lookedAt = [d \in DocumentId |-> 0]
  /\ byHand = {}
  /\ clerk = [h \in Clerk |-> NoWork]

ClerkTurn == ClerksTakeTurns => \A h \in Clerk : clerk[h] = NoWork

\* findDocumentOrThrow.
Exists(d) == document[d] # NoDocument /\ ~document[d].deleted
Strict(t) == t # NoType /\ docType[t] = "strict"

----------------------------------------------------------------------------
\* Types.

\* createDocumentType and updateDocumentType.
SetDocumentType(t, requires) ==
  /\ requires \in {"strict", "lax"}
  /\ docType' = [docType EXCEPT ![t] = requires]
  /\ UNCHANGED <<document, versions, lookedAt, byHand, clerk>>

\* Documents that were deleted lose the type.
DeleteDocumentType(t) ==
  /\ docType[t] # "NONE"
  /\ \A d \in DocumentId : Exists(d) => document[d].type # t
  /\ docType' = [docType EXCEPT ![t] = "NONE"]
  /\ document' = [d \in DocumentId |->
       IF document[d] # NoDocument /\ document[d].type = t
       THEN [document[d] EXCEPT !.type = NoType] ELSE document[d]]
  /\ UNCHANGED <<versions, lookedAt, byHand, clerk>>

----------------------------------------------------------------------------
\* Documents.

\* createDocument, with a status of the request or of the type, and perhaps a
\* first version, which sets it back; createMyEmployeeDocument always PENDING.
CreateDocument(d, t, status, withVersion) ==
  /\ document[d] = NoDocument
  /\ t # NoType => docType[t] # "NONE"
  /\ document' = [document EXCEPT ![d] =
       [type |-> t, status |-> IF withVersion /\ Strict(t) THEN "PENDING" ELSE status,
        current |-> IF withVersion THEN 1 ELSE 0, expired |-> FALSE, deleted |-> FALSE]]
  /\ versions' = [versions EXCEPT ![d] = IF withVersion THEN 1 ELSE 0]
  /\ byHand' = byHand \cup {d}
  /\ UNCHANGED <<docType, lookedAt, clerk>>

ExpiryPasses(d) ==
  /\ Exists(d) /\ ~document[d].expired
  /\ document' = [document EXCEPT ![d].expired = TRUE]
  /\ UNCHANGED <<versions, docType, lookedAt, byHand, clerk>>

\* updateDocument sets type, status and expiry as they come.
UpdateDocument(d, t, status, expired) ==
  /\ Exists(d) /\ (t # NoType => docType[t] # "NONE")
  /\ document' = [document EXCEPT ![d].type = t, ![d].status = status, ![d].expired = expired]
  /\ byHand' = IF t = document[d].type /\ status = document[d].status
                  THEN byHand ELSE byHand \cup {d}
  /\ UNCHANGED <<versions, docType, lookedAt, clerk>>

DeleteDocument(d) ==
  /\ Exists(d)
  /\ document' = [document EXCEPT ![d].deleted = TRUE]
  /\ UNCHANGED <<versions, docType, lookedAt, byHand, clerk>>

----------------------------------------------------------------------------
\* Handlers begin.

Reads(h, d, job) ==
  /\ clerk[h] = NoWork /\ Exists(d)
  /\ clerk' = [clerk EXCEPT ![h] = job]
  /\ UNCHANGED <<document, versions, docType, lookedAt, byHand>>

\* requestVerification, verifyDocument, rejectDocument and markDocumentExpired.
SetVerification(h, d, status) ==
  /\ Exists(d)
  /\ status = "VERIFIED" => document[d].current # 0 /\ ~document[d].expired
  /\ Reads(h, d, [op |-> "verify", document |-> d, status |-> status, seen |-> document[d].current])

\* nextVersionNo.
AddVersion(h, d, setCurrent) ==
  Reads(h, d, [op |-> "add", document |-> d, version |-> versions[d] + 1, setCurrent |-> setCurrent])

\* A file, or a version again, becomes the current one.
SetCurrentVersion(h, d, v) ==
  /\ v \in 1 .. versions[d]
  /\ Reads(h, d, [op |-> "current", document |-> d, version |-> v])

----------------------------------------------------------------------------
\* Handlers write.

\* Mutant: a version that becomes current again keeps what was found of another.
AfterNewCurrentOfLater(row, v) ==
  [row EXCEPT !.current = v,
              !.status = IF Strict(row.type) /\ v > row.current THEN "PENDING" ELSE @]

\* updateCurrentVersion: what was found of one version is not said of another,
\* of types that require verification.
AfterNewCurrent(row, v) ==
  [row EXCEPT !.current = v, !.status = IF Strict(row.type) THEN "PENDING" ELSE @]

Finishes(h, op) == clerk[h].op = op /\ clerk' = [clerk EXCEPT ![h] = NoWork]

BecomesCurrent(d, v) ==
  /\ Exists(d)
  /\ document' = [document EXCEPT ![d] = AfterNewCurrent(@, v)]
  /\ byHand' = IF Strict(document[d].type) THEN byHand ELSE byHand \cup {d}

WriteVerification(h) ==
  /\ Finishes(h, "verify")
  /\ LET d == clerk[h].document
         found == clerk[h].status = "VERIFIED" IN
     /\ document' = [document EXCEPT ![d].status = clerk[h].status]
     /\ lookedAt' = IF found THEN [lookedAt EXCEPT ![d] = clerk[h].seen] ELSE lookedAt
     /\ byHand' = IF found THEN byHand \ {d} ELSE byHand
  /\ UNCHANGED <<versions, docType>>

\* Two that count alike: the second is refused by the unique index.
WriteVersion(h) ==
  /\ Finishes(h, "add")
  /\ LET d == clerk[h].document
         v == clerk[h].version IN
     /\ v = versions[d] + 1 /\ v <= MaxVersion
     /\ versions' = [versions EXCEPT ![d] = v]
     /\ IF clerk[h].setCurrent THEN BecomesCurrent(d, v) ELSE UNCHANGED <<document, byHand>>
  /\ UNCHANGED <<docType, lookedAt>>

WriteCurrent(h) ==
  /\ Finishes(h, "current")
  /\ BecomesCurrent(clerk[h].document, clerk[h].version)
  /\ UNCHANGED <<versions, docType, lookedAt>>

ClerkStops(h) ==
  /\ clerk[h] # NoWork /\ clerk' = [clerk EXCEPT ![h] = NoWork]
  /\ UNCHANGED <<document, versions, docType, lookedAt, byHand>>

----------------------------------------------------------------------------
DocumentsNext ==
  \/ /\ ClerkTurn
     /\ \/ \E t \in DocumentTypeId : \/ \E requires \in {"strict", "lax"} : SetDocumentType(t, requires)
                                     \/ DeleteDocumentType(t)
        \/ \E d \in DocumentId :
             \/ \E t \in DocumentTypeId \cup {NoType}, status \in VerificationStatus :
                  \/ \E withVersion \in BOOLEAN : CreateDocument(d, t, status, withVersion)
                  \/ \E expired \in BOOLEAN : UpdateDocument(d, t, status, expired)
             \/ DeleteDocument(d)
             \/ \E h \in Clerk :
                  \/ \E status \in VerificationStatus \ {"NOT_REQUIRED"} : SetVerification(h, d, status)
                  \/ \E setCurrent \in BOOLEAN : AddVersion(h, d, setCurrent)
                  \/ \E v \in 1 .. MaxVersion : SetCurrentVersion(h, d, v)
  \/ \E d \in DocumentId : ExpiryPasses(d)
  \/ \E h \in Clerk : WriteVerification(h) \/ WriteVersion(h) \/ WriteCurrent(h) \/ ClerkStops(h)

DocumentsSpec == DocumentsInit /\ [][DocumentsNext]_documentVars

----------------------------------------------------------------------------
\* Properties, of handlers that take turns.

\* setVerificationStatus against updateCurrentVersion: a document says VERIFIED
\* of the version that was looked at, as long as its status was not set by hand
\* and no version of it was replaced while its type asked for no verification.
VerifiedAsSeen ==
  ClerksTakeTurns => \A d \in DocumentId \ byHand :
    document[d] # NoDocument /\ document[d].status = "VERIFIED" =>
      document[d].current = lookedAt[d] /\ lookedAt[d] # 0
=============================================================================
