--------------------------- MODULE UpwardMessages ---------------------------
(***************************************************************************)
(* The pallet octopus-upward-messages: messages for the mainchain are      *)
(* numbered, queued, and committed as one batch every `interval` blocks.   *)
(* A block runs on_initialize first; the calls of `submit` that the        *)
(* extrinsics and the session hooks make come between two of them.         *)
(***************************************************************************)
EXTENDS Integers, Sequences

CONSTANTS
    UserTypes,              \* Lock, BurnAsset, LockNft: sent by an extrinsic
    SessionTypes,           \* PlanNewEra, EraPayout: sent by a session hook
    Sizes,                  \* the payload sizes that are tried
    MaxMessagePayloadSize,
    MaxMessagesPerCommit,
    MaxNonce,               \* 2^64 - 1 in the code
    Intervals,              \* the commit intervals that are tried
    MaxBlock                \* bound: blocks that are observed

ASSUME BoundsAssumption ==
    /\ MaxMessagePayloadSize \in Nat
    /\ MaxMessagesPerCommit \in Nat
    /\ MaxNonce \in Nat
    /\ MaxBlock \in Nat
ASSUME IntervalsAssumption == Intervals \subseteq Nat \ {0}
ASSUME SizesAssumption == Sizes \subseteq Nat

VARIABLES
    storageVersion,     \* the pallet's version on chain
    interval,           \* Interval
    messageQueue,       \* MessageQueue
    nonce,              \* Nonce
    result,             \* what the last call of submit returned
    now,                \* number of the block being built
    committed           \* history: the committed messages, each with its block

vars == <<storageVersion, interval, messageQueue, nonce, result, now, committed>>

PayloadTypes == UserTypes \cup SessionTypes
Payload == [payload_type : PayloadTypes, size : Sizes]

\* acceptedAt is history: the block in which the message was queued.
Message == [nonce : Nat, payload : Payload, acceptedAt : Nat]
Commitment == [message : Message, block : Nat]

Errors == {"QueueSizeLimitReached", "PayloadTooLarge", "NonceOverflow"}

TypeOK ==
    /\ storageVersion \in {0, 1}
    /\ interval \in Intervals \cup {0}
    /\ messageQueue \in Seq(Message)
    /\ Len(messageQueue) <= MaxMessagesPerCommit
    /\ nonce \in 0..MaxNonce
    /\ result \in Errors \cup {"none", "accepted"}
    /\ now \in Nat
    /\ committed \in Seq(Commitment)
-----------------------------------------------------------------------------
\* A chain is either born with version 1 and the interval of its genesis, or
\* it is upgraded from version 0, which had no interval in storage.
Init ==
    /\ \/ storageVersion = 1 /\ interval \in Intervals
       \/ storageVersion = 0 /\ interval = 0
    /\ messageQueue = <<>>
    /\ nonce = 0
    /\ result = "none"
    /\ now = 0
    /\ committed = <<>>

migration_to_v1(newInterval) ==
    /\ storageVersion = 0
    /\ storageVersion' = 1
    /\ interval' = newInterval
    /\ UNCHANGED <<messageQueue, nonce, result, now, committed>>

QueueIsFullTooLate == Len(messageQueue) > MaxMessagesPerCommit
QueueIsFull == Len(messageQueue) >= MaxMessagesPerCommit

NextNonce == nonce + 1

\* The checks of submit in the order in which the code makes them.
Refusal(p) ==
    LET tooLarge == p.size > MaxMessagePayloadSize
    IN  IF p.payload_type \in UserTypes
        THEN IF QueueIsFull THEN "QueueSizeLimitReached"
             ELSE IF tooLarge THEN "PayloadTooLarge"
             ELSE IF nonce = MaxNonce THEN "NonceOverflow" ELSE "none"
        ELSE IF nonce = MaxNonce THEN "NonceOverflow"
             ELSE IF tooLarge THEN "PayloadTooLarge"
             ELSE IF QueueIsFull THEN "QueueSizeLimitReached" ELSE "none"

\* No block is open while the interval is zero (see on_initialize). The horizon
\* of the bound leaves room for the commit of what is submitted.
BlockIsOpen == interval # 0 /\ now + interval <= MaxBlock

\* Buggy variants of definitions below, used only to show that the properties
\* can be violated.
SubmitRefusedBumpsNonce(p) ==
    /\ BlockIsOpen
    /\ Refusal(p) # "none"
    /\ result' = Refusal(p)
    /\ nonce' = IF nonce < MaxNonce THEN NextNonce ELSE nonce
    /\ UNCHANGED <<storageVersion, interval, messageQueue, now, committed>>

SubmitAcceptedAtFront(p) ==
    /\ BlockIsOpen
    /\ Refusal(p) = "none"
    /\ nonce' = NextNonce
    /\ messageQueue' =
         <<[nonce |-> nonce', payload |-> p, acceptedAt |-> now]>> \o messageQueue
    /\ result' = "accepted"
    /\ UNCHANGED <<storageVersion, interval, now, committed>>

CommitDueWhenFull == now' % interval = 0 /\ Len(messageQueue) > 1

SubmitAccepted(p) ==
    /\ BlockIsOpen
    /\ Refusal(p) = "none"
    /\ nonce' = NextNonce
    /\ messageQueue' =
         Append(messageQueue, [nonce |-> nonce', payload |-> p, acceptedAt |-> now])
    /\ result' = "accepted"
    /\ UNCHANGED <<storageVersion, interval, now, committed>>

\* try_mutate writes neither Nonce nor MessageQueue when the closure fails.
SubmitRefused(p) ==
    /\ BlockIsOpen
    /\ Refusal(p) # "none"
    /\ result' = Refusal(p)
    /\ UNCHANGED <<storageVersion, interval, messageQueue, nonce, now, committed>>

submit(p) == SubmitAccepted(p) \/ SubmitRefused(p)

CommitDue == now' % interval = 0

commit ==
    /\ messageQueue' = <<>>
    /\ committed' = committed \o
         [i \in 1..Len(messageQueue) |-> [message |-> messageQueue[i], block |-> now']]

\* The remainder by an interval of zero panics: no block can be built then.
on_initialize ==
    /\ now < MaxBlock
    /\ interval # 0
    /\ now' = now + 1
    /\ IF CommitDue THEN commit ELSE UNCHANGED <<messageQueue, committed>>
    /\ UNCHANGED <<storageVersion, interval, nonce, result>>

Next ==
    \/ \E i \in Intervals : migration_to_v1(i)
    \/ \E p \in Payload : submit(p)
    \/ on_initialize

\* Blocks keep being built, and an upgraded chain runs its migration.
Fairness ==
    /\ WF_vars(on_initialize)
    /\ WF_vars(\E i \in Intervals : migration_to_v1(i))

Spec == Init /\ [][Next]_vars /\ Fairness
-----------------------------------------------------------------------------
\* Everything accepted, in order of acceptance.
CommittedMessages == [i \in 1..Len(committed) |-> committed[i].message]
AllMessages == CommittedMessages \o messageQueue

\* The relayer can tell that nothing is missing: the committed messages and
\* then the queued ones are numbered 1, 2, ..., Nonce, whatever was refused
\* in between and however the batches were cut.
NoncesContiguous ==
    /\ Len(AllMessages) = nonce
    /\ \A i \in 1..Len(AllMessages) : AllMessages[i].nonce = i

\* The first message in the queue never waits for `interval` blocks: the queue
\* is committed at the next multiple of the interval.
WaitIsBounded ==
    \A i \in 1..Len(messageQueue) : now - messageQueue[i].acceptedAt < interval

\* What the pallet is for: the channel UpwardChannel.
Channel == INSTANCE UpwardChannel WITH
    accepted <- [i \in 1..Len(AllMessages) |-> AllMessages[i].payload],
    handedOver <- Len(committed)

\* The pallet implements the ordered exactly-once channel, with its liveness.
ImplementsChannel == Channel!ChannelSpec
=============================================================================
