---------------------------- MODULE Notifications ----------------------------
(***************************************************************************)
(* Notifications and their delivery: notifications/notifications.service.ts  *)
(* and its delivery adapters, and the invitation mails that employees and    *)
(* tenants create and deliver on their own.                                  *)
(*                                                                         *)
(* A delivery reads the recipients, hands each pending or failed one to an    *)
(* adapter and writes what came back in a later transaction, whatever the     *)
(* recipient has become; its handler may die in between.  A failed mail may   *)
(* have been taken all the same, if it was the server's answer that was lost. *)
(* A recipient keeps two history fields: `sends`, the messages a provider      *)
(* took for it, and `excuses`, how often that went unnoticed: a delivery read  *)
(* it while another one held it, or died after the send, or was told that a   *)
(* mail that was taken had failed.  Wording, variables and destinations are   *)
(* left out.                                                               *)
(***************************************************************************)
EXTENDS Integers, FiniteSets

CONSTANTS Message,    \* Notification rows
          Seat,       \* the places of a notification's recipients
          Reader,     \* users
          Code,       \* template codes of the tenant
          Courier,    \* deliveries under way
          MaxSends,   \* bound: sends and excuses of a recipient
          NoMessage, NoReader, NoCode, Waiting

ASSUME NotificationsAssumption ==
  /\ IsFiniteSet(Courier) /\ MaxSends \in Nat
  /\ NoReader \notin Reader

VARIABLES template,   \* [code -> "none", "active" or "inactive"]
          preference, \* the channels a user disabled for the module
          notice,     \* Notification rows
          recipient,  \* NotificationRecipient rows, by notification and place
          courier     \* what a delivery has read and what the adapters answered

notificationVars == <<template, preference, notice, recipient, courier>>

NotificationChannel == {"IN_APP", "EMAIL", "SMS", "PUSH"}
NotificationStatus == {"PENDING", "SENT", "DELIVERED", "FAILED", "READ", "CANCELLED"}

NotificationRow == [channel : NotificationChannel, status : NotificationStatus, later : BOOLEAN]
RecipientRow == [status : NotificationStatus, user : Reader \cup {NoReader}, read : BOOLEAN,
                 sends : Nat, excuses : Nat]
DeliveryRow == [of : Message, candidates : SUBSET Seat,
                result : [Seat -> {"unknown", "SENT", "DELIVERED", "FAILED"}]]

ASSUME NoNoticeIsNoRow == NoMessage \notin NotificationRow /\ Waiting \notin DeliveryRow

NotificationsTypeOK ==
  /\ template \in [Code -> {"none", "active", "inactive"}]
  /\ preference \in [Reader -> SUBSET NotificationChannel]
  /\ notice \in [Message -> NotificationRow \cup {NoMessage}]
  /\ recipient \in [Message -> [Seat -> RecipientRow]]
  /\ courier \in [Courier -> DeliveryRow \cup {Waiting}]

Newcomer(u, s) == [status |-> s, user |-> u, read |-> FALSE, sends |-> 0, excuses |-> 0]

NotificationsInit ==
  /\ template = [c \in Code |-> "none"]
  /\ preference = [u \in Reader |-> {}]
  /\ notice = [n \in Message |-> NoMessage]
  /\ recipient = [n \in Message |-> [s \in Seat |-> Newcomer(NoReader, "CANCELLED")]]
  /\ courier = [d \in Courier |-> Waiting]

----------------------------------------------------------------------------
\* createTemplate, updateTemplate and disableTemplate; (tenant, code, channel)
\* is unique.
SetTemplate(c, s) ==
  /\ template' = [template EXCEPT ![c] = s]
  /\ UNCHANGED <<preference, notice, recipient, courier>>

\* updatePreferences: upserted by user, channel and module.
UpdatePreference(u, channel) ==
  /\ preference' = [preference EXCEPT ![u] = IF channel \in @ THEN @ \ {channel} ELSE @ \cup {channel}]
  /\ UNCHANGED <<template, notice, recipient, courier>>

\* resolveRecipient: a user who disabled the channel gets a cancelled row.
Resolved(u, channel) ==
  Newcomer(u, IF u \in Reader /\ channel \in (IF u \in Reader THEN preference[u] ELSE {})
              THEN "CANCELLED" ELSE "PENDING")

Created(n, channel, later, users) ==
  /\ notice[n] = NoMessage
  /\ recipient' = [recipient EXCEPT ![n] = [s \in Seat |-> Resolved(users[s], channel)]]
  /\ notice' = [notice EXCEPT ![n] =
       [channel |-> channel, later |-> later,
        status |-> IF \A s \in Seat : recipient'[n][s].status = "CANCELLED"
                   THEN "CANCELLED" ELSE "PENDING"]]
  /\ UNCHANGED <<template, preference, courier>>

\* createNotification; deliverNow goes on with a Deliver of the same handler.
CreateNotification(n, channel, c, later, users) ==
  /\ c # NoCode => template[c] = "active"
  /\ channel = "IN_APP" => \A s \in Seat : users[s] # NoReader
  /\ Created(n, channel, later, users)

\* sendEmployeeAccessInvitationEmail and sendTenantAdminInvitationEmail: no
\* preference is asked, and one user is written to.
SendInvitation(n, u) ==
  /\ notice[n] = NoMessage
  /\ \E s \in Seat :
       recipient' = [recipient EXCEPT ![n] =
         [t \in Seat |-> IF t = s THEN Newcomer(u, "PENDING") ELSE Newcomer(NoReader, "CANCELLED")]]
  /\ notice' = [notice EXCEPT ![n] = [channel |-> "EMAIL", later |-> FALSE, status |-> "PENDING"]]
  /\ UNCHANGED <<template, preference, courier>>

\* scheduledAt passes.
TimeComes(n) ==
  /\ notice[n] # NoMessage /\ notice[n].later
  /\ notice' = [notice EXCEPT ![n].later = FALSE]
  /\ UNCHANGED <<template, preference, recipient, courier>>

----------------------------------------------------------------------------
\* Delivery.

\* Mutant: what was sent is sent again.
DeliverableOrSent(n) == {s \in Seat : recipient[n][s].status \in {"PENDING", "FAILED", "SENT"}}

Deliverable(n) == {s \in Seat : recipient[n][s].status \in {"PENDING", "FAILED"}}

\* The recipients of n that a delivery holds.
Held(n) == UNION {courier[d].candidates : d \in {e \in Courier : courier[e] # Waiting /\ courier[e].of = n}}

Excused(rows, seats) ==
  [s \in Seat |-> IF s \in seats THEN [rows[s] EXCEPT !.excuses = @ + 1] ELSE rows[s]]

\* deliverNotification reads; nothing to deliver returns at once.
BeginDelivery(d, n) ==
  /\ courier[d] = Waiting
  /\ notice[n] # NoMessage /\ ~notice[n].later /\ Deliverable(n) # {}
  /\ \A s \in Deliverable(n) \cap Held(n) : recipient[n][s].excuses < MaxSends
  /\ courier' = [courier EXCEPT ![d] =
       [of |-> n, candidates |-> Deliverable(n), result |-> [s \in Seat |-> "unknown"]]]
  /\ recipient' = [recipient EXCEPT ![n] = Excused(@, Deliverable(n) \cap Held(n))]
  /\ UNCHANGED <<template, preference, notice>>

\* What the adapter of the channel may answer for a recipient.
Answers(n, s) ==
  CASE notice[n].channel = "IN_APP" -> {IF recipient[n][s].user = NoReader THEN "FAILED" ELSE "DELIVERED"}
    [] notice[n].channel = "EMAIL" -> {"SENT", "FAILED"}
    [] notice[n].channel \in {"SMS", "PUSH"} -> {"FAILED"}

Answered(d, s, answer, sent, lost) ==
  LET n == courier[d].of IN
  /\ recipient[n][s].sends + sent <= MaxSends /\ recipient[n][s].excuses + lost <= MaxSends
  /\ courier' = [courier EXCEPT ![d].result[s] = answer]
  /\ recipient' = [recipient EXCEPT ![n][s].sends = @ + sent, ![n][s].excuses = @ + lost]
  /\ UNCHANGED <<template, preference, notice>>

Asked(d, s) ==
  /\ courier[d] # Waiting
  /\ s \in courier[d].candidates /\ courier[d].result[s] = "unknown"

Deliver(d, s, answer) ==
  /\ Asked(d, s) /\ answer \in Answers(courier[d].of, s)
  /\ Answered(d, s, answer, IF answer = "FAILED" THEN 0 ELSE 1, 0)

\* The mail server took the message, but its answer did not come: sendMail
\* throws, and the adapter calls that a failure as any other.
MailAnswerLost(d, s) ==
  /\ Asked(d, s) /\ notice[courier[d].of].channel = "EMAIL"
  /\ Answered(d, s, "FAILED", 1, 1)

\* isSuccessfulDelivery, aggregateNotificationStatus.
Successful == {"SENT", "DELIVERED", "READ"}

Aggregate(channel, rows) ==
  LET statuses == {rows[s].status : s \in Seat} IN
  CASE statuses = {"CANCELLED"} -> "CANCELLED"
    [] statuses = {"READ"} -> "READ"
    [] statuses \notin {{"CANCELLED"}, {"READ"}} /\ statuses \cap Successful # {} ->
         IF channel = "IN_APP" THEN "DELIVERED" ELSE "SENT"
    [] statuses \cap Successful = {} /\ statuses # {"CANCELLED"} ->
         IF "FAILED" \in statuses THEN "FAILED" ELSE "PENDING"

RecordDelivery(d) ==
  /\ courier[d] # Waiting
  /\ \A s \in courier[d].candidates : courier[d].result[s] # "unknown"
  /\ LET n == courier[d].of
         rows == [s \in Seat |-> IF s \in courier[d].candidates
                                 THEN [recipient[n][s] EXCEPT !.status = courier[d].result[s]]
                                 ELSE recipient[n][s]]
     IN /\ recipient' = [recipient EXCEPT ![n] = rows]
        /\ notice' = [notice EXCEPT ![n].status = Aggregate(notice[n].channel, rows)]
  /\ courier' = [courier EXCEPT ![d] = Waiting]
  /\ UNCHANGED <<template, preference>>

\* The handler dies: nothing says that these messages are out.
DeliveryDies(d) ==
  /\ courier[d] # Waiting
  /\ LET sent == {s \in Seat : courier[d].result[s] \in {"SENT", "DELIVERED"}} IN
     recipient' = [recipient EXCEPT ![courier[d].of] = Excused(@, sent)]
  /\ courier' = [courier EXCEPT ![d] = Waiting]
  /\ UNCHANGED <<template, preference, notice>>

----------------------------------------------------------------------------
\* Reading.

\* maybeMarkNotificationRead
Unread(rows) == {s \in Seat : ~rows[s].read /\ rows[s].status # "CANCELLED"}

ReadBy(row) == [row EXCEPT !.status = "READ", !.read = TRUE]

\* markRead: one row of the user, read or not.
MarkRead(n, u) ==
  /\ notice[n] # NoMessage
  /\ \E s \in Seat :
       /\ recipient[n][s].user = u
       /\ recipient' = [recipient EXCEPT ![n][s] = ReadBy(@)]
  /\ notice' = [notice EXCEPT ![n].status = IF Unread(recipient'[n]) = {} THEN "READ" ELSE @]
  /\ UNCHANGED <<template, preference, courier>>

\* markAllRead: every unread row of the user, the cancelled ones too; the
\* notifications keep their status.
MarkAllRead(u) ==
  /\ \E n \in Message, s \in Seat : recipient[n][s].user = u /\ ~recipient[n][s].read
  /\ recipient' = [n \in Message |-> [s \in Seat |->
       IF recipient[n][s].user = u /\ ~recipient[n][s].read
       THEN ReadBy(recipient[n][s]) ELSE recipient[n][s]]]
  /\ UNCHANGED <<template, preference, notice, courier>>

----------------------------------------------------------------------------
NotificationsNext ==
  \/ \E c \in Code, s \in {"active", "inactive"} : SetTemplate(c, s)
  \/ \E u \in Reader, channel \in NotificationChannel : UpdatePreference(u, channel)
  \/ \E n \in Message, channel \in NotificationChannel, c \in Code \cup {NoCode}, later \in BOOLEAN,
        users \in [Seat -> Reader \cup {NoReader}] : CreateNotification(n, channel, c, later, users)
  \/ \E n \in Message, u \in Reader : SendInvitation(n, u) \/ MarkRead(n, u)
  \/ \E n \in Message : TimeComes(n)
  \/ \E d \in Courier, n \in Message : BeginDelivery(d, n)
  \/ \E d \in Courier, s \in Seat :
       MailAnswerLost(d, s) \/ \E a \in {"SENT", "DELIVERED", "FAILED"} : Deliver(d, s, a)
  \/ \E d \in Courier : RecordDelivery(d) \/ DeliveryDies(d)
  \/ \E u \in Reader : MarkAllRead(u)

NotificationsSpec == NotificationsInit /\ [][NotificationsNext]_notificationVars

(***************************************************************************)
(* A recipient gets a message once, plus at most once for each time a second *)
(* delivery read it while the first still had it, a delivery died after the  *)
(* send, or the answer to a mail was lost; and a message that was read is    *)
(* read by all it was addressed to.                                         *)
(* (retryableStatuses, deliverNotification, the adapter's catch,              *)
(* maybeMarkNotificationRead)                                               *)
(***************************************************************************)
SentPaidFor ==
  \A n \in Message : notice[n] # NoMessage =>
    /\ \A s \in Seat : recipient[n][s].sends <= 1 + recipient[n][s].excuses
    /\ notice[n].status = "READ" => Unread(recipient[n]) = {}
=============================================================================
