---------------------------- MODULE OutboxProofs ----------------------------
(***************************************************************************)
(* That no message of the outbox is published more often than it was put   *)
(* back, for every number of messages, workers, retries and crashes.       *)
(***************************************************************************)
EXTENDS Outbox, FiniteSetTheorems, TLAPS

\* What the argument needs of the types; a batch may have been read long ago.
OutboxTyped ==
  /\ status \in [Message -> OutboxStatus]
  /\ attempts \in [Message -> Nat]
  /\ worker \in [Worker -> Batch \cup {Idle}]
  /\ admin \in [Admin -> Retry \cup {Idle}]
  /\ published \in [Message -> Nat]
  /\ retried \in [Message -> Nat]

\* Nobody sends, or has sent, a message that was never enqueued, and nobody
\* means to put one back.
Unsent ==
  /\ \A m \in Message : status[m] = "NONE" => published[m] = 0 /\ Sending(m) = {}
  /\ \A a \in Admin : admin[a] # Idle => status[admin[a].id] # "NONE"

\* The publications paid for: one for the message, one for each retry.
Paid(m) ==
  published[m] + Cardinality(Sending(m)) + (IF status[m] = "PENDING" THEN 1 ELSE 0)
    <= 1 + retried[m]

OutboxInv == OutboxTyped /\ Unsent /\ \A m \in Message : Paid(m)

----------------------------------------------------------------------------

LEMMA SendersCounted ==
  ASSUME NEW m \in Message
  PROVE  IsFiniteSet(Sending(m)) /\ Cardinality(Sending(m)) \in Nat
<1>1. Sending(m) \subseteq Worker /\ IsFiniteSet(Worker)
  BY OutboxAssumption DEF Sending
<1>2. IsFiniteSet(Sending(m))
  BY <1>1, FS_Subset
<1> QED
  BY <1>2, FS_CardinalityType

\* A worker that goes on to something it has not claimed sends nothing.
LEMMA SenderLeaves ==
  ASSUME OutboxTyped, NEW w \in Worker, NEW b \in Batch \cup {Idle},
         worker' = [worker EXCEPT ![w] = b], b = Idle \/ ~b.claimed, NEW m \in Message
  PROVE  /\ Sending(m)' = Sending(m) \ {w}
         /\ Cardinality(Sending(m))' =
              IF w \in Sending(m) THEN Cardinality(Sending(m)) - 1 ELSE Cardinality(Sending(m))
<1>1. worker'[w] = b /\ \A v \in Worker \ {w} : worker'[v] = worker[v]
  BY DEF OutboxTyped
<1>2. Sending(m)' = Sending(m) \ {w}
  BY <1>1 DEF Sending
<1>3. Cardinality(Sending(m) \ {w}) =
        IF w \in Sending(m) THEN Cardinality(Sending(m)) - 1 ELSE Cardinality(Sending(m))
  BY SendersCounted, FS_RemoveElement
<1> QED
  BY <1>2, <1>3

\* A step of the workers that claims nothing: what they publish, and where it
\* ends, is paid for by a claim.
LEMMA WorkerMovesOn ==
  ASSUME OutboxInv, NEW w \in Worker, NEW b \in Batch \cup {Idle},
         worker' = [worker EXCEPT ![w] = b], b = Idle \/ ~b.claimed,
         status' \in [Message -> OutboxStatus], published' \in [Message -> Nat],
         UNCHANGED <<attempts, admin, retried>>,
         \A m \in Message : status[m] # "NONE" => status'[m] # "NONE",
         \A m \in Message :
           \/ published'[m] = published[m] /\ status'[m] = status[m]
           \/ /\ w \in Sending(m) /\ status'[m] \notin {"PENDING", "NONE"}
              /\ published'[m] = published[m] \/ published'[m] = published[m] + 1
  PROVE  OutboxInv'
<1>1. OutboxTyped'
  BY DEF OutboxInv, OutboxTyped
<1>2. ASSUME NEW m \in Message
      PROVE  /\ Paid(m)'
             /\ status'[m] = "NONE" => published'[m] = 0 /\ Sending(m)' = {}
  <2> DEFINE n == Cardinality(Sending(m))
  <2>1. /\ n \in Nat /\ published[m] \in Nat /\ retried[m] \in Nat
        /\ Paid(m) /\ (status[m] = "NONE" => published[m] = 0 /\ Sending(m) = {})
    BY SendersCounted DEF OutboxInv, OutboxTyped, Unsent
  <2>2. /\ Sending(m)' = Sending(m) \ {w}
        /\ Cardinality(Sending(m))' = IF w \in Sending(m) THEN n - 1 ELSE n
    BY SenderLeaves DEF OutboxInv
  <2> HIDE DEF n
  <2>3. published[m] + n + (IF status[m] = "PENDING" THEN 1 ELSE 0) <= 1 + retried[m]
    BY <2>1 DEF Paid, n
  <2>4. CASE published'[m] = published[m] /\ status'[m] = status[m]
    BY <2>1, <2>2, <2>3, <2>4 DEF Paid
  <2>5. CASE /\ w \in Sending(m) /\ status'[m] \notin {"PENDING", "NONE"}
             /\ published'[m] = published[m] \/ published'[m] = published[m] + 1
    BY <2>1, <2>2, <2>3, <2>5 DEF Paid
  <2> QED
    BY <2>4, <2>5
<1>3. Unsent'
  BY <1>2 DEF OutboxInv, OutboxTyped, Unsent, Retry
<1> QED
  BY <1>1, <1>2, <1>3 DEF OutboxInv

\* Steps that leave the workers alone.
LEMMA WorkersUntouched ==
  ASSUME OutboxInv, worker' = worker, published' = published,
         status' \in [Message -> OutboxStatus], retried' \in [Message -> Nat],
         admin' \in [Admin -> Retry \cup {Idle}], attempts' \in [Message -> Nat],
         \A a \in Admin : admin'[a] # Idle => status'[admin'[a].id] # "NONE",
         \A m \in Message :
           \/ status'[m] = status[m] /\ retried'[m] = retried[m]
           \/ status[m] = "NONE" /\ status'[m] = "PENDING" /\ retried'[m] = retried[m]
           \/ status[m] # "NONE" /\ status'[m] = "PENDING" /\ retried'[m] = retried[m] + 1
  PROVE  OutboxInv'
<1>1. OutboxTyped'
  BY DEF OutboxInv, OutboxTyped
<1>2. ASSUME NEW m \in Message
      PROVE  /\ Paid(m)'
             /\ status'[m] = "NONE" => published'[m] = 0 /\ Sending(m)' = {}
  <2> DEFINE n == Cardinality(Sending(m))
  <2>1. /\ n \in Nat /\ published[m] \in Nat /\ retried[m] \in Nat
        /\ Paid(m) /\ (status[m] = "NONE" => published[m] = 0 /\ Sending(m) = {})
    BY SendersCounted DEF OutboxInv, OutboxTyped, Unsent
  <2>2. Sending(m)' = Sending(m) /\ (Sending(m) = {} => n = 0)
    BY FS_EmptySet DEF Sending
  <2>3. published[m] + n + (IF status[m] = "PENDING" THEN 1 ELSE 0) <= 1 + retried[m]
    BY <2>1 DEF Paid
  <2>4. Cardinality(Sending(m))' = n
    BY <2>2
  <2> HIDE DEF n
  <2> QED
    BY <2>1, <2>2, <2>3, <2>4 DEF Paid
<1>3. Unsent'
  BY <1>2 DEF Unsent
<1> QED
  BY <1>1, <1>2, <1>3 DEF OutboxInv

\* What is left of a batch is a batch.
LEMMA RestOfBatch ==
  ASSUME NEW b \in Batch
  PROVE  /\ Head(b.left) \in Message
         /\ Rest(b) \in Batch \cup {Idle} /\ (Rest(b) = Idle \/ ~Rest(b).claimed)
<1>1. b.left \in Seq(Message) /\ b.left # <<>>
  BY DEF Batch
<1>2. Head(b.left) \in Message /\ Len(b.left) \in Nat \ {0}
  BY <1>1
<1>3. CASE Len(b.left) = 1
  BY <1>2, <1>3 DEF Rest
<1>4. CASE Len(b.left) # 1
  <2>1. Tail(b.left) \in Seq(Message) /\ Len(Tail(b.left)) = Len(b.left) - 1
    BY <1>1
  <2>2. Tail(b.left) # <<>>
    <3>1. Len(Tail(b.left)) # 0 /\ Len(<<>>) = 0
      BY <1>2, <1>4, <2>1
    <3> QED
      BY <3>1, Zenon
  <2> QED
    BY <1>2, <1>4, <2>1, <2>2 DEF Rest, Batch
<1> QED
  BY <1>3, <1>4

LEMMA EnqueueInv ==
  ASSUME OutboxInv, NEW m \in Message, Enqueue(m)
  PROVE  OutboxInv'
<1>1. /\ status[m] = "NONE" /\ status' = [status EXCEPT ![m] = "PENDING"]
      /\ worker' = worker /\ published' = published /\ retried' = retried /\ admin' = admin
      /\ attempts' = attempts
  BY DEF Enqueue
<1>2. /\ status' \in [Message -> OutboxStatus] /\ retried' \in [Message -> Nat]
      /\ admin' \in [Admin -> Retry \cup {Idle}] /\ attempts' \in [Message -> Nat]
      /\ \A n \in Message : status'[n] = IF n = m THEN "PENDING" ELSE status[n]
  BY <1>1 DEF OutboxInv, OutboxTyped, OutboxStatus
<1>3. \A a \in Admin : admin'[a] # Idle => status'[admin'[a].id] # "NONE"
  BY <1>1, <1>2 DEF OutboxInv, OutboxTyped, Unsent, Retry
<1> QED
  BY <1>1, <1>2, <1>3, WorkersUntouched

LEMMA CollectInv ==
  ASSUME OutboxInv, NEW w \in Worker, Collect(w)
  PROVE  OutboxInv'
<1>1. PICK q \in Batches : worker' = [worker EXCEPT ![w] = [left |-> q, claimed |-> FALSE]]
  BY DEF Collect
<1>2. PICK n \in 1 .. Limit : q \in [1 .. n -> Eligible]
  BY DEF Batches
<1>3. q \in Seq(Message) /\ q # <<>>
  <2>1. n \in Nat \ {0}
    BY OutboxAssumption
  <2>2. q \in [1 .. n -> Message]
    BY <1>2 DEF Eligible
  <2> QED
    BY <2>1, <2>2
<1> DEFINE b == [left |-> q, claimed |-> FALSE]
<1>4. b \in Batch /\ ~b.claimed
  BY <1>3 DEF Batch
<1>5. /\ UNCHANGED <<attempts, admin, retried>> /\ status' = status /\ published' = published
  BY DEF Collect
<1>6. status' \in [Message -> OutboxStatus] /\ published' \in [Message -> Nat]
  BY <1>5 DEF OutboxInv, OutboxTyped
<1> HIDE DEF b
<1>7. worker' = [worker EXCEPT ![w] = b]
  BY <1>1 DEF b
<1> QED
  BY <1>4, <1>5, <1>6, <1>7, WorkerMovesOn

LEMMA ClaimInv ==
  ASSUME OutboxInv, NEW w \in Worker, Claim(w)
  PROVE  OutboxInv'
<1> DEFINE m == Head(worker[w].left)
<1>1. /\ worker[w] \in Batch /\ worker[w] # Idle /\ ~worker[w].claimed /\ m \in Message
      /\ UNCHANGED <<admin, retried, published>>
  BY RestOfBatch DEF Claim, OutboxInv, OutboxTyped
<1>2. CASE status[m] # "PENDING"
  <2>1. worker' = [worker EXCEPT ![w] = Rest(worker[w])] /\ status' = status
    BY <1>2 DEF Claim
  <2>u. UNCHANGED <<attempts, admin, retried>>
    BY <1>2 DEF Claim
  <2>2. PICK b \in Batch \cup {Idle} : b = Rest(worker[w]) /\ (b = Idle \/ ~b.claimed)
    BY <1>1, RestOfBatch
  <2>3. status' \in [Message -> OutboxStatus] /\ published' \in [Message -> Nat]
    BY <1>1, <2>1 DEF OutboxInv, OutboxTyped
  <2>4. worker' = [worker EXCEPT ![w] = b] /\ published' = published
    BY <1>1, <2>1, <2>2
  <2> QED
    BY <2>1, <2>2, <2>3, <2>4, <2>u, WorkerMovesOn
<1>3. CASE status[m] = "PENDING"
  <2>1. PICK h \in Message : h = m
    BY <1>1
  <2> DEFINE b == [worker[w] EXCEPT !.claimed = TRUE]
  <2>2. /\ status' = [status EXCEPT ![h] = "PROCESSING"]
        /\ worker' = [worker EXCEPT ![w] = b]
        /\ attempts' = [attempts EXCEPT ![h] = @ + 1]
    BY <1>3, <2>1 DEF Claim
  <2>3. b \in Batch /\ b.claimed /\ Head(b.left) = h /\ b # Idle
    BY <1>1, <2>1, IdleAssumption DEF Batch
  <2>4. OutboxTyped'
    BY <1>1, <2>2, <2>3 DEF OutboxInv, OutboxTyped, OutboxStatus
  <2>5. /\ worker'[w] = b /\ \A v \in Worker \ {w} : worker'[v] = worker[v]
        /\ status'[h] = "PROCESSING" /\ \A n \in Message \ {h} : status'[n] = status[n]
    BY <2>2 DEF OutboxInv, OutboxTyped
  <2>6. /\ Sending(h)' = Sending(h) \cup {w} /\ w \notin Sending(h)
        /\ \A n \in Message \ {h} : Sending(n)' = Sending(n)
    <3>1. w \notin Sending(h) /\ w \in Sending(h)'
      BY <1>1, <2>3, <2>5 DEF Sending
    <3>2. \A n \in Message : \A v \in Worker \ {w} : v \in Sending(n)' <=> v \in Sending(n)
      BY <2>5 DEF Sending
    <3>3. \A n \in Message \ {h} : w \notin Sending(n) /\ w \notin Sending(n)'
      BY <1>1, <2>3, <2>5 DEF Sending
    <3>4. \A n \in Message : Sending(n) \subseteq Worker /\ Sending(n)' \subseteq Worker
      BY DEF Sending
    <3> QED
      BY <3>1, <3>2, <3>3, <3>4
  <2>7. Cardinality(Sending(h))' = Cardinality(Sending(h)) + 1
    BY <2>6, SendersCounted, FS_AddElement
  <2>8. Paid(h)'
    <3>1. /\ Cardinality(Sending(h)) \in Nat /\ published[h] \in Nat /\ retried[h] \in Nat
      BY SendersCounted DEF OutboxInv, OutboxTyped
    <3>2. published[h] + Cardinality(Sending(h)) + 1 <= 1 + retried[h]
      BY <1>3, <2>1 DEF OutboxInv, Paid
    <3> QED
      BY <1>1, <2>5, <2>7, <3>1, <3>2 DEF Paid
  <2>9. ASSUME NEW n \in Message \ {h} PROVE Paid(n)'
    BY <1>1, <2>5, <2>6, <2>9 DEF OutboxInv, Paid
  <2>10. Unsent'
    BY <1>1, <2>5, <2>6 DEF OutboxInv, OutboxTyped, Unsent, Retry
  <2> QED
    BY <2>4, <2>8, <2>9, <2>10 DEF OutboxInv
<1> QED
  BY <1>2, <1>3

LEMMA SendInv ==
  ASSUME OutboxInv, NEW w \in Worker, Publish(w) \/ Fail(w)
  PROVE  OutboxInv'
<1>1. PICK m \in Message : m = Head(worker[w].left)
  BY RestOfBatch DEF Publish, Fail, OutboxInv, OutboxTyped
<1>2. worker[w] \in Batch /\ w \in Sending(m) /\ UNCHANGED <<attempts, admin, retried>>
  BY <1>1 DEF Publish, Fail, OutboxInv, OutboxTyped, Sending
<1>3. PICK n \in {0, 1}, s \in {"PUBLISHED", "FAILED"} :
        /\ status' = [status EXCEPT ![m] = s]
        /\ published' = [published EXCEPT ![m] = @ + n]
  BY <1>1 DEF Publish, Fail
<1>4. /\ status' \in [Message -> OutboxStatus] /\ published' \in [Message -> Nat]
      /\ \A k \in Message : status'[k] = IF k = m THEN s ELSE status[k]
      /\ \A k \in Message : published'[k] = IF k = m THEN published[k] + n ELSE published[k]
      /\ published[m] \in Nat
  BY <1>3 DEF OutboxInv, OutboxTyped, OutboxStatus
<1>5. PICK b \in Batch \cup {Idle} : b = Rest(worker[w]) /\ (b = Idle \/ ~b.claimed)
  BY <1>2, RestOfBatch
<1>6. worker' = [worker EXCEPT ![w] = b]
  BY <1>5 DEF Publish, Fail
<1>7. \A k \in Message : status[k] # "NONE" => status'[k] # "NONE"
  BY <1>4
<1>8. \A k \in Message :
           \/ published'[k] = published[k] /\ status'[k] = status[k]
           \/ /\ w \in Sending(k) /\ status'[k] \notin {"PENDING", "NONE"}
              /\ published'[k] = published[k] \/ published'[k] = published[k] + 1
  BY <1>2, <1>4
<1> QED
  BY <1>2, <1>4, <1>5, <1>6, <1>7, <1>8, WorkerMovesOn

LEMMA CrashInv ==
  ASSUME OutboxInv, NEW w \in Worker, Crash(w)
  PROVE  OutboxInv'
<1>1. /\ worker' = [worker EXCEPT ![w] = Idle] /\ UNCHANGED <<attempts, admin, retried>>
      /\ status' = status /\ published' = published
  BY DEF Crash
<1>2. status' \in [Message -> OutboxStatus] /\ published' \in [Message -> Nat]
  BY <1>1 DEF OutboxInv, OutboxTyped
<1> QED
  BY <1>1, <1>2, WorkerMovesOn

LEMMA RetryInv ==
  ASSUME OutboxInv, NEW a \in Admin, RetryCommit(a) \/ \E m \in Message : RetryRead(a, m)
  PROVE  OutboxInv'
<1>1. CASE RetryCommit(a)
  <2>1. PICK r \in Retry : r = admin[a]
    BY <1>1 DEF RetryCommit, OutboxInv, OutboxTyped
  <2>2. /\ status' = [status EXCEPT ![r.id] = "PENDING"]
        /\ retried' = [retried EXCEPT ![r.id] = @ + 1]
        /\ attempts' = [attempts EXCEPT ![r.id] = r.attempts]
        /\ admin' = [admin EXCEPT ![a] = Idle] /\ worker' = worker /\ published' = published
    BY <1>1, <2>1 DEF RetryCommit
  <2>3. r.id \in Message /\ status[r.id] # "NONE"
    BY <1>1, <2>1 DEF Retry, RetryCommit, OutboxInv, Unsent
  <2>4. /\ status' \in [Message -> OutboxStatus] /\ retried' \in [Message -> Nat]
        /\ admin' \in [Admin -> Retry \cup {Idle}] /\ attempts' \in [Message -> Nat]
        /\ \A n \in Message : status'[n] = IF n = r.id THEN "PENDING" ELSE status[n]
        /\ \A n \in Message : retried'[n] = IF n = r.id THEN retried[n] + 1 ELSE retried[n]
    BY <2>2, <2>3 DEF OutboxInv, OutboxTyped, OutboxStatus, Retry
  <2>5. \A b \in Admin : admin'[b] # Idle => admin'[b] = admin[b]
    BY <2>2 DEF OutboxInv, OutboxTyped
  <2>6. \A b \in Admin : admin'[b] # Idle => status'[admin'[b].id] # "NONE"
    BY <2>4, <2>5 DEF OutboxInv, OutboxTyped, Unsent, Retry
  <2> QED
    BY <2>2, <2>3, <2>4, <2>6, WorkersUntouched
<1>2. ASSUME NEW m \in Message, RetryRead(a, m) PROVE OutboxInv'
  <2>1. PICK n \in {0, attempts[m]} : admin' = [admin EXCEPT ![a] = [id |-> m, attempts |-> n]]
    BY <1>2 DEF RetryRead
  <2>2. /\ status[m] # "NONE" /\ status' = status /\ attempts' = attempts /\ worker' = worker
        /\ published' = published /\ retried' = retried
    BY <1>2 DEF RetryRead
  <2>3. [id |-> m, attempts |-> n] \in Retry
    BY DEF Retry, OutboxInv, OutboxTyped
  <2>4. /\ status' \in [Message -> OutboxStatus] /\ retried' \in [Message -> Nat]
        /\ admin' \in [Admin -> Retry \cup {Idle}] /\ attempts' \in [Message -> Nat]
    BY <2>1, <2>2, <2>3 DEF OutboxInv, OutboxTyped
  <2>5. admin'[a].id = m /\ \A b \in Admin \ {a} : admin'[b] = admin[b]
    BY <2>1 DEF OutboxInv, OutboxTyped
  <2>6. \A b \in Admin : admin'[b] # Idle => status'[admin'[b].id] # "NONE"
    BY <2>2, <2>5 DEF OutboxInv, Unsent
  <2> QED
    BY <2>2, <2>4, <2>6, WorkersUntouched
<1> QED
  BY <1>1, <1>2

LEMMA OutboxInvariant == Spec => []OutboxInv
<1>1. Init => OutboxInv
  <2> SUFFICES ASSUME Init PROVE OutboxInv
    OBVIOUS
  <2>1. OutboxTyped
    BY DEF Init, OutboxTyped, OutboxStatus
  <2>2. \A m \in Message : Sending(m) = {} /\ status[m] = "NONE"
                           /\ published[m] = 0 /\ retried[m] = 0
    BY DEF Init, Sending
  <2>3. Unsent
    BY <2>2 DEF Init, Unsent
  <2>4. \A m \in Message : Paid(m)
    BY <2>2, FS_EmptySet DEF Paid
  <2> QED
    BY <2>1, <2>3, <2>4 DEF OutboxInv
<1>2. OutboxInv /\ [Next]_vars => OutboxInv'
  <2> SUFFICES ASSUME OutboxInv, [Next]_vars PROVE OutboxInv'
    OBVIOUS
  <2>1. ASSUME NEW m \in Message, Enqueue(m) PROVE OutboxInv'
    BY <2>1, EnqueueInv
  <2>2. CASE (\E m \in Message : TimePasses(m)) \/ UNCHANGED vars
    <3>1. /\ status' = status /\ attempts' = attempts /\ worker' = worker /\ admin' = admin
          /\ published' = published /\ retried' = retried
      BY <2>2 DEF TimePasses, vars
    <3>2. /\ status' \in [Message -> OutboxStatus] /\ retried' \in [Message -> Nat]
          /\ admin' \in [Admin -> Retry \cup {Idle}] /\ attempts' \in [Message -> Nat]
          /\ \A a \in Admin : admin'[a] # Idle => status'[admin'[a].id] # "NONE"
      BY <3>1 DEF OutboxInv, OutboxTyped, Unsent
    <3> QED
      BY <3>1, <3>2, WorkersUntouched
  <2>3. ASSUME NEW w \in Worker, Collect(w) \/ Claim(w) \/ Publish(w) \/ Fail(w) \/ Crash(w)
        PROVE  OutboxInv'
    BY <2>3, CollectInv, ClaimInv, SendInv, CrashInv
  <2>4. ASSUME NEW a \in Admin, RetryCommit(a) \/ \E m \in Message : RetryRead(a, m)
        PROVE  OutboxInv'
    BY <2>4, RetryInv
  <2> QED
    BY <2>1, <2>2, <2>3, <2>4 DEF Next
<1> QED
  BY <1>1, <1>2, PTL DEF Spec

\* The conditional claim of processSingleOutboxMessage hands every PENDING
\* period of a message to one worker, however many race, die or overlap with
\* retries: it is published, or about to be, at most once more than put back.
THEOREM MessagesPublishedAsPaidFor == Spec => []PublishesPaidFor
<1>1. OutboxInv => PublishesPaidFor
  BY DEF OutboxInv, Paid, PublishesPaidFor
<1> QED
  BY <1>1, OutboxInvariant, PTL
=============================================================================
