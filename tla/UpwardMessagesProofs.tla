------------------------ MODULE UpwardMessagesProofs ------------------------
(***************************************************************************)
(* Theorems about UpwardMessages, for every queue size, nonce width, set   *)
(* of payloads and interval.                                               *)
(***************************************************************************)
EXTENDS UpwardMessages, SequenceTheorems, TLAPS

\* The nonce is at most one past what it was: what submit may write into it.
LEMMA NonceFits ==
    ASSUME TypeOK, NEW p \in Payload, Refusal(p) = "none"
    PROVE  /\ nonce # MaxNonce
           /\ Len(messageQueue) < MaxMessagesPerCommit
  BY BoundsAssumption DEF TypeOK, Refusal, QueueIsFull

\* Type correctness: no call of submit, commit or migration leaves the queue
\* over its limit or the nonce over its width.
THEOREM TypeCorrect == Spec => []TypeOK
<1>1. Init => TypeOK
  BY BoundsAssumption DEF Init, TypeOK
<1>2. TypeOK /\ [Next]_vars => TypeOK'
  <2> SUFFICES ASSUME TypeOK, [Next]_vars
               PROVE  TypeOK'
    OBVIOUS
  <2> USE BoundsAssumption, IntervalsAssumption
  <2>1. ASSUME NEW i \in Intervals, migration_to_v1(i)
        PROVE  TypeOK'
    BY <2>1 DEF TypeOK, migration_to_v1
  <2>2. ASSUME NEW p \in Payload, SubmitAccepted(p)
        PROVE  TypeOK'
    <3> DEFINE m == [nonce |-> nonce + 1, payload |-> p, acceptedAt |-> now]
    <3>1. nonce # MaxNonce /\ Len(messageQueue) < MaxMessagesPerCommit
      BY <2>2, NonceFits DEF SubmitAccepted
    <3>2. m \in Message
      BY DEF Message, TypeOK
    <3>3. messageQueue' = Append(messageQueue, m)
      BY <2>2 DEF SubmitAccepted, NextNonce
    <3> HIDE DEF m
    <3>4. messageQueue' \in Seq(Message) /\ Len(messageQueue') = Len(messageQueue) + 1
      BY <3>2, <3>3 DEF TypeOK
    <3>5. Len(messageQueue') <= MaxMessagesPerCommit
      BY <3>1, <3>4 DEF TypeOK
    <3>6. nonce' \in 0..MaxNonce
      BY <2>2, <3>1 DEF SubmitAccepted, NextNonce, TypeOK
    <3> QED
      BY <2>2, <3>4, <3>5, <3>6 DEF SubmitAccepted, TypeOK
  <2>3. ASSUME NEW p \in Payload, SubmitRefused(p)
        PROVE  TypeOK'
    BY <2>3 DEF TypeOK, SubmitRefused, Refusal, Errors
  <2>4. ASSUME on_initialize
        PROVE  TypeOK'
    <3> DEFINE batch == [i \in 1..Len(messageQueue) |->
                           [message |-> messageQueue[i], block |-> now']]
    <3>1. now' \in Nat
      BY <2>4 DEF on_initialize, TypeOK
    <3>2. batch \in Seq(Commitment)
      BY <3>1 DEF Commitment, TypeOK
    <3>3. committed' \in Seq(Commitment)
      <4>1. CASE committed' = committed
        BY <4>1 DEF TypeOK
      <4>2. CASE committed' = committed \o batch
        BY <3>2, <4>2 DEF TypeOK
      <4> QED
        BY <2>4, <4>1, <4>2 DEF on_initialize, commit
    <3>4. messageQueue' \in Seq(Message) /\ Len(messageQueue') <= MaxMessagesPerCommit
      <4>1. CASE messageQueue' = messageQueue
        BY <4>1 DEF TypeOK
      <4>2. CASE messageQueue' = <<>>
        BY <4>2
      <4> QED
        BY <2>4, <4>1, <4>2 DEF on_initialize, commit
    <3> QED
      BY <2>4, <3>1, <3>3, <3>4 DEF on_initialize, TypeOK
  <2>5. ASSUME UNCHANGED vars
        PROVE  TypeOK'
    BY <2>5 DEF vars, TypeOK
  <2> QED
    BY <2>1, <2>2, <2>3, <2>4, <2>5 DEF Next, submit
<1> QED
  BY <1>1, <1>2, PTL DEF Spec

-----------------------------------------------------------------------------
\* The inductive form of NoncesContiguous: the numbers of the committed
\* messages and, behind them, of the queued ones.
NonceInv ==
    /\ Len(committed) + Len(messageQueue) = nonce
    /\ \A i \in 1..Len(committed) : committed[i].message.nonce = i
    /\ \A i \in 1..Len(messageQueue) : messageQueue[i].nonce = Len(committed) + i

\* What commit does to the history: the queue is appended to it as it is.
LEMMA CommitAppends ==
    ASSUME TypeOK, now' \in Nat,
           committed' = committed \o
             [i \in 1..Len(messageQueue) |-> [message |-> messageQueue[i], block |-> now']]
    PROVE  /\ Len(committed') = Len(committed) + Len(messageQueue)
           /\ \A i \in 1..Len(committed') :
                committed'[i].message = IF i <= Len(committed)
                                        THEN committed[i].message
                                        ELSE messageQueue[i - Len(committed)]
<1> DEFINE batch == [i \in 1..Len(messageQueue) |->
                       [message |-> messageQueue[i], block |-> now']]
<1>1. batch \in Seq(Commitment) /\ Len(batch) = Len(messageQueue)
  BY DEF TypeOK, Commitment
<1>2. committed \in Seq(Commitment) /\ messageQueue \in Seq(Message)
  BY DEF TypeOK
<1>3. \A i \in 1..Len(batch) : batch[i].message = messageQueue[i]
  BY <1>1
<1>4. committed' = committed \o batch
  OBVIOUS
<1> HIDE DEF batch
<1>5. /\ Len(committed \o batch) = Len(committed) + Len(batch)
      /\ \A i \in 1..Len(committed) + Len(batch) :
           (committed \o batch)[i] = IF i <= Len(committed)
                                     THEN committed[i] ELSE batch[i - Len(committed)]
  BY <1>1, <1>2, ConcatProperties
<1>6. Len(committed) \in Nat /\ Len(batch) \in Nat
  BY <1>1, <1>2, LenProperties
<1> QED
  BY <1>1, <1>3, <1>4, <1>5, <1>6

\* The numbers of the messages are 1, 2, ... without gap or repetition, through
\* refusals, commits, migrations and a nonce at its limit.
THEOREM NoncesNeverSkip == Spec => []NoncesContiguous
<1>1. Init => NonceInv
  BY DEF Init, NonceInv
<1>2. TypeOK /\ TypeOK' /\ NonceInv /\ [Next]_vars => NonceInv'
  <2> SUFFICES ASSUME TypeOK, TypeOK', NonceInv, [Next]_vars
               PROVE  NonceInv'
    OBVIOUS
  <2>1. ASSUME NEW i \in Intervals, migration_to_v1(i)
        PROVE  NonceInv'
    BY <2>1 DEF NonceInv, migration_to_v1
  <2>2. ASSUME NEW p \in Payload, SubmitAccepted(p)
        PROVE  NonceInv'
    <3> DEFINE m == [nonce |-> nonce + 1, payload |-> p, acceptedAt |-> now]
    <3>1. /\ m \in Message
          /\ m.nonce = nonce + 1
          /\ nonce' = nonce + 1
          /\ committed' = committed
          /\ messageQueue' = Append(messageQueue, m)
      BY <2>2 DEF SubmitAccepted, NextNonce, Message, TypeOK
    <3> HIDE DEF m
    <3>2. messageQueue \in Seq(Message) /\ Len(committed) \in Nat
      BY DEF TypeOK
    <3>3. /\ Len(messageQueue') = Len(messageQueue) + 1
          /\ \A i \in 1..Len(messageQueue) : messageQueue'[i] = messageQueue[i]
          /\ messageQueue'[Len(messageQueue) + 1] = m
      BY <3>1, <3>2, AppendProperties
    <3>4. nonce \in Nat /\ Len(messageQueue) \in Nat
      BY BoundsAssumption DEF TypeOK
    <3>5. /\ \A i \in 1..Len(committed) : committed[i].message.nonce = i
          /\ \A i \in 1..Len(messageQueue) : messageQueue[i].nonce = Len(committed) + i
      BY DEF NonceInv
    <3>6. Len(committed) + (Len(messageQueue) + 1) = nonce + 1
      <4>1. Len(committed) + Len(messageQueue) = nonce
        BY DEF NonceInv
      <4>2. Len(committed) \in Nat
        BY <3>2
      <4> QED
        BY <3>4, <4>1, <4>2
    <3>7. Len(messageQueue') = Len(messageQueue) + 1
      BY <3>3
    <3>8. ASSUME NEW i \in 1..Len(messageQueue')
          PROVE  messageQueue'[i].nonce = Len(committed) + i
      <4>1. i = Len(messageQueue) + 1 \/ i \in 1..Len(messageQueue)
        BY <3>4, <3>7
      <4>2. CASE i = Len(messageQueue) + 1
        <5>1. messageQueue'[i].nonce = nonce + 1
          BY <3>1, <3>3, <4>2
        <5> QED
          BY <3>6, <4>2, <5>1
      <4>3. CASE i \in 1..Len(messageQueue)
        BY <3>3, <3>5, <4>3
      <4> QED
        BY <4>1, <4>2, <4>3
    <3>9. Len(committed) + Len(messageQueue') = nonce'
      BY <3>1, <3>6, <3>7
    <3> QED
      BY <3>1, <3>5, <3>8, <3>9 DEF NonceInv
  <2>3. ASSUME NEW p \in Payload, SubmitRefused(p)
        PROVE  NonceInv'
    BY <2>3 DEF NonceInv, SubmitRefused
  <2>4. ASSUME on_initialize
        PROVE  NonceInv'
    <3>1. CASE commit
      <4>1. now' \in Nat
        BY DEF TypeOK
      <4>2. /\ Len(committed') = Len(committed) + Len(messageQueue)
            /\ \A i \in 1..Len(committed') :
                 committed'[i].message = IF i <= Len(committed)
                                         THEN committed[i].message
                                         ELSE messageQueue[i - Len(committed)]
        BY <3>1, <4>1, CommitAppends DEF commit
      <4>3. messageQueue' = <<>> /\ nonce' = nonce
        BY <2>4, <3>1 DEF commit, on_initialize
      <4>4. Len(committed) \in Nat /\ Len(messageQueue) \in Nat
        BY DEF TypeOK
      <4>5. ASSUME NEW i \in 1..Len(committed')
            PROVE  committed'[i].message.nonce = i
        <5>1. CASE i <= Len(committed)
          BY <4>2, <4>4, <5>1 DEF NonceInv
        <5>2. CASE i > Len(committed)
          <6>1. i - Len(committed) \in 1..Len(messageQueue)
            BY <4>2, <4>4, <5>2
          <6>2. messageQueue[i - Len(committed)].nonce = Len(committed) + (i - Len(committed))
            BY <6>1 DEF NonceInv
          <6> QED
            BY <4>2, <4>4, <5>2, <6>2
        <5> QED
          BY <4>4, <5>1, <5>2
      <4>6. Len(messageQueue') = 0
        BY <4>3
      <4> QED
        BY <4>2, <4>3, <4>4, <4>5, <4>6 DEF NonceInv
    <3>2. CASE UNCHANGED <<messageQueue, committed>>
      BY <2>4, <3>2 DEF on_initialize, NonceInv
    <3> QED
      BY <2>4, <3>1, <3>2 DEF on_initialize
  <2>5. ASSUME UNCHANGED vars
        PROVE  NonceInv'
    BY <2>5 DEF vars, NonceInv
  <2> QED
    BY <2>1, <2>2, <2>3, <2>4, <2>5 DEF Next, submit
<1>3. TypeOK /\ NonceInv => NoncesContiguous
  <2> SUFFICES ASSUME TypeOK, NonceInv
               PROVE  NoncesContiguous
    OBVIOUS
  <2>1. committed \in Seq(Commitment) /\ messageQueue \in Seq(Message)
    BY DEF TypeOK
  <2>2. Len(committed) \in Nat /\ Len(messageQueue) \in Nat
    BY <2>1
  <2>3. \A i \in 1..Len(committed) : committed[i].message \in Message
    <3>1. \A i \in 1..Len(committed) : committed[i] \in Commitment
      BY <2>1, ElementOfSeq
    <3> QED
      BY <3>1 DEF Commitment
  <2>4. CommittedMessages \in Seq(Message) /\ Len(CommittedMessages) = Len(committed)
    BY <2>1, <2>3 DEF CommittedMessages
  <2>5. \A i \in 1..Len(committed) : CommittedMessages[i].nonce = i
    BY DEF CommittedMessages, NonceInv
  <2>6. /\ Len(AllMessages) = Len(committed) + Len(messageQueue)
        /\ \A i \in 1..Len(committed) + Len(messageQueue) :
             AllMessages[i] = IF i <= Len(committed) THEN CommittedMessages[i]
                              ELSE messageQueue[i - Len(committed)]
    <3> HIDE DEF CommittedMessages
    <3>1. /\ Len(CommittedMessages \o messageQueue) = Len(CommittedMessages) + Len(messageQueue)
          /\ \A i \in 1..Len(CommittedMessages) + Len(messageQueue) :
               (CommittedMessages \o messageQueue)[i] =
                 IF i <= Len(CommittedMessages) THEN CommittedMessages[i]
                 ELSE messageQueue[i - Len(CommittedMessages)]
      BY <2>1, <2>4, ConcatProperties
    <3> QED
      BY <2>4, <3>1 DEF AllMessages
  <2>7. ASSUME NEW i \in 1..Len(AllMessages)
        PROVE  AllMessages[i].nonce = i
    <3>1. CASE i <= Len(committed)
      BY <2>2, <2>5, <2>6, <3>1
    <3>2. CASE i > Len(committed)
      <4>1. i - Len(committed) \in 1..Len(messageQueue)
        BY <2>2, <2>6, <3>2
      <4>2. messageQueue[i - Len(committed)].nonce = Len(committed) + (i - Len(committed))
        BY <4>1 DEF NonceInv
      <4> QED
        BY <2>2, <2>6, <3>2, <4>2
    <3> QED
      BY <2>2, <3>1, <3>2
  <2> QED
    BY <2>6, <2>7 DEF NoncesContiguous, NonceInv
<1> QED
  BY <1>1, <1>2, <1>3, TypeCorrect, PTL DEF Spec

-----------------------------------------------------------------------------
\* Between two multiples of k the remainder counts up.
LEMMA RemainderCounts ==
    ASSUME NEW n \in Nat, NEW k \in Nat \ {0}, (n + 1) % k # 0
    PROVE  (n + 1) % k = (n % k) + 1
<1> DEFINE q == n \div k
           r == n % k
           Q == (n + 1) \div k
           R == (n + 1) % k
<1>1. /\ q \in Int /\ Q \in Int
      /\ r \in 0..(k - 1) /\ R \in 1..(k - 1)
      /\ n = k * q + r
      /\ n + 1 = k * Q + R
  OBVIOUS
<1> HIDE DEF q, r, Q, R
<1>2. k * (Q - q) = r + 1 - R
  BY <1>1
<1>3. ~(Q - q >= 1)
  <2>1. Q - q >= 1 => k * (Q - q) >= k
    BY <1>1
  <2> QED
    BY <1>1, <1>2, <2>1
<1>4. ~(Q - q <= -1)
  <2>1. Q - q <= -1 => k * (Q - q) <= -k
    BY <1>1
  <2> QED
    BY <1>1, <1>2, <2>1
<1>5. Q - q = 0
  BY <1>1, <1>3, <1>4
<1> QED
  BY <1>1, <1>2, <1>5 DEF r, R

LEMMA RemainderBelow ==
    ASSUME NEW n \in Nat, NEW k \in Nat \ {0}
    PROVE  n % k \in 0..(k - 1)
  OBVIOUS

\* The inductive form of WaitIsBounded: no message waits longer than since the
\* last multiple of the interval, and none is there before the migration, which
\* is the only change of the interval.
WaitInv ==
    /\ storageVersion = 0 => interval = 0
    /\ interval = 0 => messageQueue = <<>>
    /\ \A i \in 1..Len(messageQueue) :
         /\ messageQueue[i].acceptedAt <= now
         /\ now - messageQueue[i].acceptedAt <= now % interval

\* The wait is bounded by every interval, also by one that the migration sets.
THEOREM WaitBounded == Spec => []WaitIsBounded
<1> USE IntervalsAssumption
<1>1. Init => WaitInv
  BY DEF Init, WaitInv
<1>2. TypeOK /\ WaitInv /\ [Next]_vars => WaitInv'
  <2> SUFFICES ASSUME TypeOK, WaitInv, [Next]_vars
               PROVE  WaitInv'
    OBVIOUS
  <2> interval \in Nat /\ now \in Nat /\ messageQueue \in Seq(Message)
    BY DEF TypeOK
  <2>1. ASSUME NEW i \in Intervals, migration_to_v1(i)
        PROVE  WaitInv'
    <3>1. messageQueue' = <<>> /\ storageVersion' = 1 /\ interval' # 0
      BY <2>1 DEF WaitInv, migration_to_v1
    <3> QED
      BY <3>1 DEF WaitInv
  <2>2. ASSUME NEW p \in Payload, SubmitAccepted(p)
        PROVE  WaitInv'
    <3> DEFINE m == [nonce |-> nonce + 1, payload |-> p, acceptedAt |-> now]
    <3>1. /\ m.acceptedAt = now
          /\ messageQueue' = Append(messageQueue, m)
          /\ interval # 0
          /\ UNCHANGED <<storageVersion, interval, now>>
      BY <2>2 DEF SubmitAccepted, NextNonce, BlockIsOpen
    <3>2. m \in Message
      BY <2>2, BoundsAssumption DEF Message, TypeOK
    <3> HIDE DEF m
    <3>3. /\ Len(messageQueue') = Len(messageQueue) + 1
          /\ \A i \in 1..Len(messageQueue) : messageQueue'[i] = messageQueue[i]
          /\ messageQueue'[Len(messageQueue) + 1] = m
      BY <3>1, <3>2, AppendProperties
    <3>4. now % interval >= 0
      BY <3>1, RemainderBelow
    <3>5. ASSUME NEW i \in 1..Len(messageQueue')
          PROVE  /\ messageQueue'[i].acceptedAt <= now
                 /\ now - messageQueue'[i].acceptedAt <= now % interval
      <4>1. CASE i = Len(messageQueue) + 1
        BY <3>1, <3>3, <3>4, <4>1
      <4>2. CASE i \in 1..Len(messageQueue)
        BY <3>3, <4>2 DEF WaitInv
      <4> QED
        BY <3>3, <4>1, <4>2
    <3> QED
      BY <3>1, <3>5 DEF WaitInv
  <2>3. ASSUME NEW p \in Payload, SubmitRefused(p)
        PROVE  WaitInv'
    BY <2>3 DEF WaitInv, SubmitRefused
  <2>4. ASSUME on_initialize
        PROVE  WaitInv'
    <3>1. now' = now + 1 /\ interval # 0 /\ UNCHANGED <<storageVersion, interval>>
      BY <2>4 DEF on_initialize
    <3>2. CASE CommitDue
      BY <2>4, <3>1, <3>2 DEF on_initialize, commit, WaitInv
    <3>3. CASE ~CommitDue
      <4>1. messageQueue' = messageQueue /\ (now + 1) % interval # 0
        BY <2>4, <3>1, <3>3 DEF on_initialize, CommitDue
      <4>2. (now + 1) % interval = (now % interval) + 1
        BY <3>1, <4>1, RemainderCounts
      <4>3. now % interval \in Nat
        BY <3>1, RemainderBelow
      <4>4. ASSUME NEW i \in 1..Len(messageQueue)
            PROVE  messageQueue[i].acceptedAt \in Nat
        <5>1. messageQueue[i] \in Message
          BY ElementOfSeq
        <5> QED
          BY <5>1 DEF Message
      <4>5. \A i \in 1..Len(messageQueue') :
              /\ messageQueue'[i].acceptedAt <= now'
              /\ now' - messageQueue'[i].acceptedAt <= now' % interval'
        BY <3>1, <4>1, <4>2, <4>3, <4>4 DEF WaitInv
      <4>6. interval' # 0 /\ storageVersion' # 0
        BY <3>1 DEF WaitInv
      <4> QED
        BY <4>5, <4>6 DEF WaitInv
    <3> QED
      BY <3>2, <3>3
  <2>5. ASSUME UNCHANGED vars
        PROVE  WaitInv'
    BY <2>5 DEF vars, WaitInv
  <2> QED
    BY <2>1, <2>2, <2>3, <2>4, <2>5 DEF Next, submit
<1>3. TypeOK /\ WaitInv => WaitIsBounded
  <2> SUFFICES ASSUME TypeOK, WaitInv, NEW i \in 1..Len(messageQueue)
               PROVE  now - messageQueue[i].acceptedAt < interval
    BY DEF WaitIsBounded
  <2>1. messageQueue \in Seq(Message) /\ messageQueue # <<>>
    BY DEF TypeOK
  <2>2. interval \in Nat \ {0} /\ now \in Nat
    BY <2>1 DEF TypeOK, WaitInv
  <2>3. messageQueue[i] \in Message
    BY <2>1, ElementOfSeq
  <2>4. messageQueue[i].acceptedAt \in Nat
    BY <2>3 DEF Message
  <2>5. now % interval \in 0..(interval - 1)
    BY <2>2, RemainderBelow
  <2> QED
    BY <2>2, <2>4, <2>5 DEF WaitInv
<1> QED
  BY <1>1, <1>2, <1>3, TypeCorrect, PTL DEF Spec

-----------------------------------------------------------------------------
\* The history and the queue as one sequence, of the present state or the next.
LEMMA AllOf ==
    ASSUME NEW c \in Seq(Commitment), NEW q \in Seq(Message), NEW all,
           all = [i \in 1..Len(c) |-> c[i].message] \o q
    PROVE  /\ all \in Seq(Message)
           /\ Len(all) = Len(c) + Len(q)
           /\ \A i \in 1..Len(c) + Len(q) :
                all[i] = IF i <= Len(c) THEN c[i].message ELSE q[i - Len(c)]
<1>1. PICK m : m = [i \in 1..Len(c) |-> c[i].message]
  OBVIOUS
<1>2. \A i \in 1..Len(c) : c[i].message \in Message
  <2>1. \A i \in 1..Len(c) : c[i] \in Commitment
    BY ElementOfSeq
  <2> QED
    BY <2>1 DEF Commitment
<1>3. m \in Seq(Message) /\ Len(m) = Len(c)
  BY <1>1, <1>2
<1>4. \A i \in 1..Len(c) : m[i] = c[i].message
  BY <1>1
<1>5. all = m \o q
  BY <1>1
<1>6. /\ m \o q \in Seq(Message)
      /\ Len(m \o q) = Len(m) + Len(q)
      /\ \A i \in 1..Len(m) + Len(q) :
           (m \o q)[i] = IF i <= Len(m) THEN m[i] ELSE q[i - Len(m)]
  BY <1>3, ConcatProperties
<1>7. Len(c) \in Nat /\ Len(q) \in Nat
  OBVIOUS
<1>8. ASSUME NEW i \in 1..Len(c) + Len(q)
      PROVE  all[i] = IF i <= Len(c) THEN c[i].message ELSE q[i - Len(c)]
  <2>1. all[i] = IF i <= Len(c) THEN m[i] ELSE q[i - Len(c)]
    BY <1>3, <1>5, <1>6
  <2>2. CASE i <= Len(c)
    <3>1. i \in 1..Len(c)
      BY <1>7, <2>2
    <3> QED
      BY <1>4, <2>1, <2>2, <3>1
  <2> QED
    BY <2>1, <2>2
<1> QED
  BY <1>3, <1>5, <1>6, <1>8

\* A queue that grows at its end makes the sequence of all grow at its end.
LEMMA AllGrows ==
    ASSUME NEW c \in Seq(Commitment), NEW q \in Seq(Message), NEW m \in Message,
           NEW all, all = [i \in 1..Len(c) |-> c[i].message] \o q,
           NEW more, more = [i \in 1..Len(c) |-> c[i].message] \o Append(q, m)
    PROVE  /\ Len(more) = Len(all) + 1
           /\ more[Len(all) + 1] = m
           /\ \A i \in 1..Len(all) : more[i] = all[i]
<1>1. PICK r : r = Append(q, m)
  OBVIOUS
<1>2. /\ r \in Seq(Message) /\ Len(r) = Len(q) + 1
      /\ \A i \in 1..Len(q) : r[i] = q[i]
      /\ r[Len(q) + 1] = m
  BY <1>1, AppendProperties
<1>3. more = [i \in 1..Len(c) |-> c[i].message] \o r
  BY <1>1
<1>4. /\ Len(all) = Len(c) + Len(q)
      /\ \A i \in 1..Len(c) + Len(q) :
           all[i] = IF i <= Len(c) THEN c[i].message ELSE q[i - Len(c)]
  BY AllOf
<1>5. /\ Len(more) = Len(c) + Len(r)
      /\ \A i \in 1..Len(c) + Len(r) :
           more[i] = IF i <= Len(c) THEN c[i].message ELSE r[i - Len(c)]
  BY <1>2, <1>3, AllOf
<1>6. Len(c) \in Nat /\ Len(q) \in Nat
  OBVIOUS
<1>7. more[Len(all) + 1] = m
  BY <1>2, <1>4, <1>5, <1>6
<1>8. ASSUME NEW i \in 1..Len(all)
      PROVE  more[i] = all[i]
  <2>1. CASE i <= Len(c)
    BY <1>2, <1>4, <1>5, <1>6, <2>1
  <2>2. CASE i > Len(c)
    <3>1. i - Len(c) \in 1..Len(q)
      BY <1>4, <1>6, <2>2
    <3> QED
      BY <1>2, <1>4, <1>5, <1>6, <2>2, <3>1
  <2> QED
    BY <1>4, <1>6, <2>1, <2>2
<1> QED
  BY <1>2, <1>4, <1>5, <1>6, <1>7, <1>8

LEMMA PayloadsGrow ==
    ASSUME NEW all \in Seq(Message), NEW more \in Seq(Message), NEW m \in Message,
           Len(more) = Len(all) + 1, more[Len(all) + 1] = m,
           \A i \in 1..Len(all) : more[i] = all[i]
    PROVE  [i \in 1..Len(more) |-> more[i].payload] =
             Append([i \in 1..Len(all) |-> all[i].payload], m.payload)
<1>1. PICK s, t : /\ s = [i \in 1..Len(all) |-> all[i].payload]
                  /\ t = [i \in 1..Len(more) |-> more[i].payload]
  OBVIOUS
<1>2. /\ \A i \in 1..Len(all) : all[i].payload \in Payload
      /\ \A i \in 1..Len(more) : more[i].payload \in Payload
      /\ m.payload \in Payload
  <2>1. /\ \A i \in 1..Len(all) : all[i] \in Message
        /\ \A i \in 1..Len(more) : more[i] \in Message
    BY ElementOfSeq
  <2> QED
    BY <2>1 DEF Message
<1>3. /\ s \in Seq(Payload) /\ Len(s) = Len(all)
      /\ t \in Seq(Payload) /\ Len(t) = Len(more)
  BY <1>1, <1>2
<1>4. PICK a : a = Append(s, m.payload)
  OBVIOUS
<1>5. /\ a \in Seq(Payload) /\ Len(a) = Len(s) + 1
      /\ \A i \in 1..Len(s) : a[i] = s[i]
      /\ a[Len(s) + 1] = m.payload
  BY <1>2, <1>3, <1>4, AppendProperties
<1>6. ASSUME NEW i \in 1..Len(t)
      PROVE  t[i] = a[i]
  <2>1. i \in 1..Len(all) \/ i = Len(all) + 1
    BY <1>3
  <2>2. CASE i \in 1..Len(all)
    BY <1>1, <1>3, <1>5, <2>2
  <2>3. CASE i = Len(all) + 1
    BY <1>1, <1>3, <1>5, <2>3
  <2> QED
    BY <2>1, <2>2, <2>3
<1>7. t = a
  BY <1>3, <1>5, <1>6, SeqEqual
<1> QED
  BY <1>1, <1>4, <1>7

\* What the channel promises, without its liveness: the messages are handed over
\* in the order in which they were accepted, and each of them once.
THEOREM ChannelKept == Spec => /\ Channel!ChannelInit
                               /\ [][Channel!ChannelNext]_(Channel!channelVars)
<1>1. Init => Channel!ChannelInit
  <2> SUFFICES ASSUME Init
               PROVE  Channel!ChannelInit
    OBVIOUS
  <2>1. committed = <<>> /\ messageQueue = <<>>
    BY DEF Init
  <2>2. AllMessages = <<>>
    BY <2>1 DEF AllMessages, CommittedMessages
  <2> QED
    BY <2>1, <2>2 DEF Channel!ChannelInit
<1>2. TypeOK /\ TypeOK' /\ [Next]_vars => [Channel!ChannelNext]_(Channel!channelVars)
  <2> SUFFICES ASSUME TypeOK, TypeOK', [Next]_vars
               PROVE  [Channel!ChannelNext]_(Channel!channelVars)
    OBVIOUS
  <2>1. /\ committed \in Seq(Commitment) /\ messageQueue \in Seq(Message)
        /\ committed' \in Seq(Commitment) /\ messageQueue' \in Seq(Message)
    BY DEF TypeOK
  <2>2. PICK all, more :
          /\ all = AllMessages
          /\ more = [i \in 1..Len(committed') |-> committed'[i].message] \o messageQueue'
    OBVIOUS
  <2>3. all = [i \in 1..Len(committed) |-> committed[i].message] \o messageQueue
    BY <2>2 DEF AllMessages, CommittedMessages
  <2>4. AllMessages' = more
    BY <2>2 DEF AllMessages, CommittedMessages
  <2>5. all \in Seq(Message) /\ more \in Seq(Message)
    BY <2>1, <2>2, <2>3, AllOf
  <2>6. ASSUME UNCHANGED <<committed, messageQueue>>
        PROVE  UNCHANGED Channel!channelVars
    BY <2>6 DEF Channel!channelVars, AllMessages, CommittedMessages
  <2>7. ASSUME NEW i \in Intervals, migration_to_v1(i)
        PROVE  UNCHANGED Channel!channelVars
    BY <2>6, <2>7 DEF migration_to_v1
  <2>8. ASSUME NEW p \in Payload, SubmitRefused(p)
        PROVE  UNCHANGED Channel!channelVars
    BY <2>6, <2>8 DEF SubmitRefused
  <2>9. ASSUME NEW p \in Payload, SubmitAccepted(p)
        PROVE  Channel!Accept(p)
    <3>1. PICK m : m = [nonce |-> nonce + 1, payload |-> p, acceptedAt |-> now]
      OBVIOUS
    <3>2. m \in Message /\ m.payload = p
      BY <3>1, BoundsAssumption DEF Message, TypeOK
    <3>3. messageQueue' = Append(messageQueue, m) /\ committed' = committed
      BY <2>9, <3>1 DEF SubmitAccepted, NextNonce
    <3>4. more = [i \in 1..Len(committed) |-> committed[i].message]
                   \o Append(messageQueue, m)
      BY <2>2, <3>3
    <3>5. /\ Len(more) = Len(all) + 1 /\ more[Len(all) + 1] = m
          /\ \A i \in 1..Len(all) : more[i] = all[i]
      BY <2>1, <2>3, <3>2, <3>4, AllGrows
    <3>6. [i \in 1..Len(more) |-> more[i].payload] =
            Append([i \in 1..Len(all) |-> all[i].payload], m.payload)
      BY <2>5, <3>2, <3>5, PayloadsGrow
    <3> QED
      BY <2>2, <2>4, <3>2, <3>3, <3>6 DEF Channel!Accept
  <2>10. ASSUME on_initialize, commit
         PROVE  Channel!HandOver \/ UNCHANGED Channel!channelVars
    <3>1. /\ Len(committed') = Len(committed) + Len(messageQueue)
          /\ \A i \in 1..Len(committed') :
               committed'[i].message = IF i <= Len(committed)
                                       THEN committed[i].message
                                       ELSE messageQueue[i - Len(committed)]
      BY <2>10, CommitAppends DEF commit, TypeOK
    <3>2. messageQueue' = <<>>
      BY <2>10 DEF commit
    <3>3. /\ Len(all) = Len(committed) + Len(messageQueue)
          /\ \A i \in 1..Len(committed) + Len(messageQueue) :
               all[i] = IF i <= Len(committed) THEN committed[i].message
                        ELSE messageQueue[i - Len(committed)]
      BY <2>1, <2>3, AllOf
    <3>4. Len(messageQueue') = 0 /\ Len(committed) \in Nat /\ Len(messageQueue) \in Nat
      BY <2>1, <3>2
    <3>5. /\ Len(more) = Len(committed')
          /\ \A i \in 1..Len(committed') : more[i] = committed'[i].message
      <4>1. /\ Len(more) = Len(committed') + Len(messageQueue')
            /\ \A i \in 1..Len(committed') + Len(messageQueue') :
                 more[i] = IF i <= Len(committed') THEN committed'[i].message
                           ELSE messageQueue'[i - Len(committed')]
        BY <2>1, <2>2, AllOf
      <4> QED
        BY <3>1, <3>4, <4>1
    <3>6. more = all
      BY <2>5, <3>1, <3>3, <3>4, <3>5, SeqEqual
    <3>7. AllMessages' = AllMessages
      BY <2>2, <2>4, <3>6
    <3>8. Len(AllMessages) = Len(committed')
      BY <2>2, <3>1, <3>3
    <3>9. CASE Len(messageQueue) = 0
      <4>1. Len(committed') = Len(committed)
        BY <3>1, <3>4, <3>9
      <4> QED
        BY <3>7, <4>1 DEF Channel!channelVars
    <3>10. CASE Len(messageQueue) # 0
      <4>1. PICK s : s = [i \in 1..Len(AllMessages) |-> AllMessages[i].payload]
        OBVIOUS
      <4>2. Len(s) = Len(AllMessages)
        BY <3>1, <3>4, <3>8, <4>1
      <4>3. Len(committed) < Len(AllMessages)
        BY <3>1, <3>4, <3>8, <3>10
      <4> QED
        BY <3>7, <3>8, <4>1, <4>2, <4>3 DEF Channel!HandOver
    <3> QED
      BY <3>9, <3>10
  <2>11. ASSUME on_initialize, ~commit
         PROVE  UNCHANGED Channel!channelVars
    BY <2>6, <2>11 DEF on_initialize
  <2>12. ASSUME UNCHANGED vars
         PROVE  UNCHANGED Channel!channelVars
    BY <2>6, <2>12 DEF vars
  <2> QED
    BY <2>7, <2>8, <2>9, <2>10, <2>11, <2>12, Zenon DEF Next, submit, Channel!ChannelNext
<1> QED
  BY <1>1, <1>2, TypeCorrect, PTL DEF Spec
=============================================================================
