------------------------------- MODULE Outbox -------------------------------
(***************************************************************************)
(* The transactional outbox: history/history.service.ts.  Every business   *)
(* transaction inserts its events as PENDING messages.  A call of          *)
(* processOutboxMessages is a worker: it collects a batch of messages that *)
(* are due, then takes them one at a time; a conditional update claims a   *)
(* message, publishing it follows, and a last update by id records the     *)
(* outcome.  Each of these is a transaction of its own.  Administrators    *)
(* put messages back with retryOutboxMessage, a read and a later write.    *)
(* Workers are started by POST /outbox/messages/process; the repository    *)
(* has no scheduler that does so.                                          *)
(***************************************************************************)
EXTENDS Naturals, Sequences, FiniteSets

CONSTANTS Message,
          Malformed,    \* messages that publishOutboxMessage refuses
          Worker,       \* processOutboxMessages calls that run concurrently
          Admin,        \* retryOutboxMessage calls that run concurrently
          Limit,        \* messages of a batch
          MaxAttempts,  \* as the calls give it
          MaxRetries,   \* bound of the model: retries of one message
          MaxCrashes,   \* bound of the model: workers that die
          Idle

ASSUME OutboxAssumption ==
  /\ Malformed \subseteq Message
  /\ IsFiniteSet(Worker)
  /\ Limit \in Nat \ {0} /\ MaxAttempts \in Nat
  /\ MaxRetries \in Nat /\ MaxCrashes \in Nat

VARIABLES status,    \* OutboxMessage.status, "NONE" before it is enqueued
          attempts,  \* OutboxMessage.attempts
          due,       \* availableAt <= now
          worker,    \* what is left of each worker's batch
          admin,     \* the retry between its read and its write
          published, \* how often a message was published
          retried,   \* how often it was put back
          crashes

vars == <<status, attempts, due, worker, admin, published, retried, crashes>>

OutboxStatus == {"NONE", "PENDING", "PROCESSING", "PUBLISHED", "FAILED"}

\* What is left of a batch, in order, and whether its first message is claimed.
Batch == [left : Seq(Message) \ {<<>>}, claimed : BOOLEAN]
Retry == [id : Message, attempts : Nat]

ASSUME IdleAssumption == Idle \notin Batch \cup Retry

TypeOK ==
  /\ status \in [Message -> OutboxStatus]
  /\ attempts \in [Message -> Nat]
  /\ due \in [Message -> BOOLEAN]
  /\ worker \in [Worker -> Batch \cup {Idle}]
  /\ admin \in [Admin -> Retry \cup {Idle}]
  /\ published \in [Message -> Nat]
  /\ retried \in [Message -> 0 .. MaxRetries]
  /\ crashes \in 0 .. MaxCrashes

Init ==
  /\ status = [m \in Message |-> "NONE"]
  /\ attempts = [m \in Message |-> 0]
  /\ due = [m \in Message |-> FALSE]
  /\ worker = [w \in Worker |-> Idle]
  /\ admin = [a \in Admin |-> Idle]
  /\ published = [m \in Message |-> 0]
  /\ retried = [m \in Message |-> 0]
  /\ crashes = 0

----------------------------------------------------------------------------

\* outboxMessage.create in a business transaction.
Enqueue(m) ==
  /\ status[m] = "NONE"
  /\ status' = [status EXCEPT ![m] = "PENDING"]
  /\ due' = [due EXCEPT ![m] = TRUE]
  /\ UNCHANGED <<attempts, worker, admin, published, retried, crashes>>

TimePasses(m) ==
  /\ status[m] # "NONE" /\ ~due[m]
  /\ due' = [due EXCEPT ![m] = TRUE]
  /\ UNCHANGED <<status, attempts, worker, admin, published, retried, crashes>>

Eligible == {m \in Message : status[m] = "PENDING" /\ due[m] /\ attempts[m] < MaxAttempts}

\* Mutant: only full batches.
FullBatches ==
  {q \in [1 .. Limit -> Eligible] : \A i, j \in DOMAIN q : q[i] = q[j] => i = j}

\* The query of processOutboxMessages: up to Limit messages, all that are
\* eligible when there are no more than that; by availableAt, so in any order.
Batches ==
  {q \in UNION {[1 .. n -> Eligible] : n \in 1 .. Limit} :
     /\ \A i, j \in DOMAIN q : q[i] = q[j] => i = j
     /\ Len(q) = Limit \/ Cardinality(Eligible) = Len(q)}

Collect(w) ==
  /\ worker[w] = Idle
  /\ \E q \in Batches : worker' = [worker EXCEPT ![w] = [left |-> q, claimed |-> FALSE]]
  /\ UNCHANGED <<status, attempts, due, admin, published, retried, crashes>>

\* The batch after its first message.
Rest(b) == IF Len(b.left) = 1 THEN Idle ELSE [left |-> Tail(b.left), claimed |-> FALSE]

\* Mutant: the claim is an update by id.
ClaimById(w) ==
  /\ worker[w] # Idle /\ ~worker[w].claimed
  /\ LET m == Head(worker[w].left)
     IN /\ status' = [status EXCEPT ![m] = "PROCESSING"]
        /\ attempts' = [attempts EXCEPT ![m] = @ + 1]
  /\ worker' = [worker EXCEPT ![w].claimed = TRUE]
  /\ UNCHANGED <<due, admin, published, retried, crashes>>

\* The conditional updateMany of processSingleOutboxMessage.
Claim(w) ==
  /\ worker[w] # Idle /\ ~worker[w].claimed
  /\ LET m == Head(worker[w].left)
     IN IF status[m] = "PENDING"
        THEN /\ status' = [status EXCEPT ![m] = "PROCESSING"]
             /\ attempts' = [attempts EXCEPT ![m] = @ + 1]
             /\ worker' = [worker EXCEPT ![w].claimed = TRUE]
        ELSE /\ worker' = [worker EXCEPT ![w] = Rest(@)]
             /\ UNCHANGED <<status, attempts>>
  /\ UNCHANGED <<due, admin, published, retried, crashes>>

\* publishOutboxMessage and the update by id that records it.
Publish(w) ==
  /\ worker[w] # Idle /\ worker[w].claimed
  /\ LET m == Head(worker[w].left)
     IN /\ m \notin Malformed
        /\ status' = [status EXCEPT ![m] = "PUBLISHED"]
        /\ published' = [published EXCEPT ![m] = @ + 1]
  /\ worker' = [worker EXCEPT ![w] = Rest(@)]
  /\ UNCHANGED <<attempts, due, admin, retried, crashes>>

\* Mutant: an error is only logged.
FailSilently(w) ==
  /\ worker[w] # Idle /\ worker[w].claimed
  /\ worker' = [worker EXCEPT ![w] = Rest(@)]
  /\ UNCHANGED <<status, attempts, due, admin, published, retried, crashes>>

\* The catch block: the message is malformed, or the update that records the
\* publication reports an error, after it has taken effect or not.
Fail(w) ==
  /\ worker[w] # Idle /\ worker[w].claimed
  /\ LET m == Head(worker[w].left)
     IN /\ status' = [status EXCEPT ![m] = "FAILED"]
        /\ due' = [due EXCEPT ![m] = FALSE]
        /\ \E n \in IF m \in Malformed THEN {0} ELSE {0, 1} :
             published' = [published EXCEPT ![m] = @ + n]
  /\ worker' = [worker EXCEPT ![w] = Rest(@)]
  /\ UNCHANGED <<attempts, admin, retried, crashes>>

\* The process of a worker dies, or the update of its catch block throws.
Crash(w) ==
  /\ worker[w] # Idle
  /\ crashes < MaxCrashes
  /\ crashes' = crashes + 1
  /\ worker' = [worker EXCEPT ![w] = Idle]
  /\ UNCHANGED <<status, attempts, due, admin, published, retried>>

\* retryOutboxMessage finds the message, in any status.
RetryRead(a, m) ==
  /\ admin[a] = Idle
  /\ status[m] # "NONE"
  /\ retried[m] + Cardinality({b \in Admin : admin[b] # Idle /\ admin[b].id = m})
       < MaxRetries
  /\ \E n \in {0, attempts[m]} :
       admin' = [admin EXCEPT ![a] = [id |-> m, attempts |-> n]]
  /\ UNCHANGED <<status, attempts, due, worker, published, retried, crashes>>

\* Its write, by id: the attempts are those it has read, or zero.
RetryCommit(a) ==
  /\ admin[a] # Idle
  /\ LET r == admin[a]
     IN /\ status' = [status EXCEPT ![r.id] = "PENDING"]
        /\ attempts' = [attempts EXCEPT ![r.id] = r.attempts]
        /\ \E b \in BOOLEAN : due' = [due EXCEPT ![r.id] = b]
        /\ retried' = [retried EXCEPT ![r.id] = @ + 1]
  /\ admin' = [admin EXCEPT ![a] = Idle]
  /\ UNCHANGED <<worker, published, crashes>>

Next ==
  \/ \E m \in Message : Enqueue(m) \/ TimePasses(m)
  \/ \E w \in Worker : Collect(w) \/ Claim(w) \/ Publish(w) \/ Fail(w) \/ Crash(w)
  \/ \E a \in Admin : RetryCommit(a) \/ \E m \in Message : RetryRead(a, m)

Spec == Init /\ [][Next]_vars

\* A running worker takes its steps and time goes on.  That workers are started
\* again and again, and that an update does not fail for ever, are assumptions
\* about the operator and the database; without them nothing need be sent.
WorkersRun == \A w \in Worker : WF_vars(Claim(w)) /\ WF_vars(Publish(w) \/ Fail(w))
TimeRuns == \A m \in Message : WF_vars(TimePasses(m))
OperatorCalls == \A w \in Worker : WF_vars(Collect(w))
DatabaseRecovers == \A w \in Worker : SF_vars(Publish(w))

FairSpec == Spec /\ WorkersRun /\ TimeRuns /\ OperatorCalls
ReliableSpec == FairSpec /\ DatabaseRecovers

----------------------------------------------------------------------------

Sending(m) == {w \in Worker : worker[w] # Idle /\ worker[w].claimed
                                /\ Head(worker[w].left) = m}

\* The conditional claim hands every PENDING period of a message to one worker:
\* with workers that race on one batch, die, or overlap with retries, a message
\* is published, or about to be, at most once more than it was put back.
PublishesPaidFor ==
  \A m \in Message :
    published[m] + Cardinality(Sending(m)) + (IF status[m] = "PENDING" THEN 1 ELSE 0)
      <= 1 + retried[m]

\* Either the try or the catch of processSingleOutboxMessage writes an outcome:
\* no claimed message stays PROCESSING unless a worker dies.
ClaimIsResolved ==
  \A m \in Message :
    status[m] = "PROCESSING" ~> (status[m] # "PROCESSING" \/ crashes > 0)

\* With operators who keep calling process, every pending message is taken up
\* while it has attempts left, also one that did not fit into a batch, was lost
\* with one, or was put back with a later date.
EveryEventTakenUp ==
  \A m \in Message :
    (status[m] = "PENDING" /\ attempts[m] < MaxAttempts)
      ~> (status[m] # "PENDING" \/ attempts[m] >= MaxAttempts)

\* docs/enterprise-backend-roadmap.md:337, "Retry with backoff on failure.", and
\* :871, "Outbox reliably publishes pending events.": a well-formed event is
\* published when workers keep being called and the database recovers.
EveryEventPublished ==
  \A m \in Message \ Malformed : status[m] = "PENDING" ~> status[m] = "PUBLISHED"
=============================================================================
