--------------------------- MODULE AppchainProofs ---------------------------
(***************************************************************************)
(* Theorems about Appchain, for any number of validators, any stakes, any  *)
(* window and any bounds.                                                  *)
(***************************************************************************)
EXTENDS Appchain, SumTheorems, FiniteSetTheorems, SequenceTheorems, TLAPS

\* TypeOK is not inductive by itself: the position must be one of the
\* extrinsic's observations, so that no payload may be empty, and only a
\* chain with an active era executes one.
TypeInv ==
    /\ TypeOK
    /\ \A p \in pool : p.observations # <<>>
    /\ extrinsic # None =>
         /\ position \in 1..Len(extrinsic.observations)
         /\ era # None

-----------------------------------------------------------------------------
\* Observations.

LEMMA ObservationKinds ==
    ASSUME NEW obs \in Observation
    PROVE  \/ IsSetUpdate(obs) /\ obs.index \in SetIds /\ obs = ValidatorSetUpdate(obs.index)
           \/ /\ ~IsSetUpdate(obs) /\ obs.index \in NotificationIds
              /\ obs = Notification(obs.index)
              /\ obs.type \in NotificationTypes
<1>1. CASE \E n \in NotificationIds : obs = Notification(n)
  BY <1>1, TypesAssumption DEF IsSetUpdate, Notification, NotificationTypes
<1>2. CASE \E s \in SetIds : obs = ValidatorSetUpdate(s)
  BY <1>2 DEF IsSetUpdate, ValidatorSetUpdate
<1> QED
  BY <1>1, <1>2 DEF Observation

LEMMA NotificationIsObservation ==
    ASSUME NEW n \in NotificationIds
    PROVE  /\ Notification(n) \in Observation
           /\ Notification(n).index = n
           /\ ~IsSetUpdate(Notification(n))
  BY TypesAssumption DEF Notification, Observation, IsSetUpdate, NotificationTypes

\* What a run reports: the set it asked for, or a page of notifications that
\* starts at the id it has read.
LEMMA ObservedShape ==
    ASSUME TypeOK, NEW r \in Run, NEW sets \in 0..publishedSets, NEW notes \in 0..published,
           Observed(r, sets, notes) # <<>>
    PROVE  LET obs == Observed(r, sets, notes)
           IN  /\ obs \in Seq(Observation)
               /\ Len(obs) \in Nat \ {0}
               /\ \/ /\ Len(obs) = 1
                     /\ obs[1] = ValidatorSetUpdate(r.nextSetId)
                     /\ r.nextSetId \in 1..publishedSets
                  \/ /\ Len(obs) <= RequestEventLimit
                     /\ r.nextNotificationId + Len(obs) <= published
                     /\ \A k \in 1..Len(obs) : obs[k] = Notification(r.nextNotificationId + k - 1)
<1> DEFINE obs == Observed(r, sets, notes)
<1>0. /\ sets \in Nat /\ notes \in Nat /\ publishedSets \in Nat /\ published \in Nat
      /\ sets <= publishedSets /\ notes <= published
      /\ publishedSets <= MaxSets /\ published <= MaxNotifications
  BY BoundsAssumption DEF TypeOK
<1>1. CASE r.nextSetId \in 1..sets
  <2>1. obs = <<ValidatorSetUpdate(r.nextSetId)>>
    BY <1>1 DEF Observed
  <2>2. r.nextSetId \in 1..publishedSets /\ r.nextSetId \in SetIds
    BY <1>0, <1>1, BoundsAssumption DEF SetIds
  <2>3. ValidatorSetUpdate(r.nextSetId) \in Observation
    BY <2>2 DEF Observation
  <2> QED
    BY <2>1, <2>2, <2>3
<1>2. CASE r.nextSetId \notin 1..sets
  <2> DEFINE first == r.nextNotificationId
             n == PageOf(first, notes)
  <2>1. first \in Nat
    BY IdsAssumption DEF Run
  <2>2. n \in Nat /\ n <= RequestEventLimit /\ (n > 0 => first + n <= notes)
    BY <1>0, <2>1, BoundsAssumption DEF PageOf
  <2>3. obs = [k \in 1..n |-> Notification(first + k - 1)]
    BY <1>2 DEF Observed, NotificationsFrom
  <2> HIDE DEF n, obs
  <2>4. \A k \in 1..n : first + k - 1 \in NotificationIds
    BY <1>0, <2>1, <2>2, BoundsAssumption DEF NotificationIds
  <2>5. \A k \in 1..n : Notification(first + k - 1) \in Observation
    BY <2>4, NotificationIsObservation
  <2>6. obs \in Seq(Observation) /\ Len(obs) = n
    BY <2>2, <2>3, <2>5
  <2>7. n # 0
    <3> SUFFICES ASSUME n = 0 PROVE FALSE
      OBVIOUS
    <3>1. obs = <<>>
      BY <2>6, EmptySeq
    <3> QED
      BY <3>1 DEF obs
  <2>8. first + n <= published
    BY <1>0, <2>1, <2>2, <2>7
  <2>9. \A k \in 1..Len(obs) : obs[k] = Notification(first + k - 1)
    BY <2>3, <2>6
  <2> QED
    BY <2>2, <2>6, <2>7, <2>8, <2>9 DEF obs
<1> QED
  BY <1>1, <1>2
-----------------------------------------------------------------------------
\* Type correctness.

LEMMA CurrentObservation ==
    ASSUME TypeInv, extrinsic # None
    PROVE  observation \in Observation /\ val_id \in Validators
  BY DEF TypeInv, TypeOK, Payload, observation, val_id

\* The loop stays within the extrinsic's observations.
LEMMA NextObservationType ==
    ASSUME TypeInv, extrinsic # None, NextObservation
    PROVE  /\ extrinsic' \in Payload \cup {None}
           /\ position' \in Nat
           /\ extrinsic' # None => position' \in 1..Len(extrinsic'.observations)
<1>1. extrinsic.observations \in Seq(Observation) /\ position \in Nat
  BY DEF TypeInv, TypeOK, Payload
<1>2. Len(extrinsic.observations) \in Nat
  BY <1>1
<1> QED
  BY <1>1, <1>2 DEF TypeInv, TypeOK, NextObservation

LEMMA VoteType ==
    ASSUME TypeInv, extrinsic # None, Vote(observation)
    PROVE  /\ observations' \in SUBSET Observation
           /\ observing' \in [Observation -> SUBSET Validators]
  BY CurrentObservation DEF TypeInv, TypeOK, Vote, Votes

LEMMA TypeInvInitially == Init => TypeInv
<1> SUFFICES ASSUME Init
             PROVE  TypeInv
  OBVIOUS
<1>1. /\ nextSetId \in 0..MaxId /\ nextNotificationId \in 0..MaxId
      /\ plannedValidators \in 0..MaxId \cup {ForcedSet}
      /\ publishedSets \in 0..MaxSets /\ published \in 0..MaxNotifications
      /\ eraIndex \in 0..MaxEra /\ forces \in 0..MaxForces
  BY BoundsAssumption, IdsAssumption DEF Init
<1>2. DOMAIN notificationHistory = {}
  BY DEF Init
<1>3. era \in Eras \cup {None}
  BY ErasAssumption DEF Init
<1>4. observations \in SUBSET Observation /\ observing \in [Observation -> SUBSET Validators]
  BY DEF Init
<1>5. processed \in Seq(NotificationIds)
  BY DEF Init
<1>6. \A n \in DOMAIN notificationHistory : notificationHistory[n] \in Results
  BY <1>2
<1>7. TypeOK
  <2> SUFFICES /\ isActivated \in BOOLEAN /\ position \in Nat
               /\ DOMAIN notificationHistory \in SUBSET NotificationIds
               /\ \A r \in running : r \in Run
               /\ \A p \in pool : p \in Payload
               /\ extrinsic \in Payload \cup {None}
    BY <1>1, <1>3, <1>4, <1>5, <1>6 DEF TypeOK
  <2> QED
    BY <1>2 DEF Init
<1> QED
  BY <1>7 DEF Init, TypeInv

LEMMA TypeInvNext == TypeInv /\ [Next]_vars => TypeInv'
<1> SUFFICES ASSUME TypeInv, [Next]_vars
             PROVE  TypeInv'
  OBVIOUS
<1> USE DEF TypeInv, TypeOK
<1>1. ASSUME PublishValidatorSet
      PROVE  TypeInv'
  BY <1>1, BoundsAssumption DEF PublishValidatorSet, counterVars, voteVars, eraVars,
       workerVars, extrinsicVars
<1>2. ASSUME PublishNotification
      PROVE  TypeInv'
  BY <1>2, BoundsAssumption DEF PublishNotification, counterVars, voteVars, eraVars,
       workerVars, extrinsicVars
<1>3. ASSUME NEW e \in Eras, NewEra(e)
      PROVE  TypeInv'
  <2>1. eraIndex' \in 0..MaxEra
    BY <1>3, BoundsAssumption DEF NewEra
  <2> QED
    BY <1>3, <2>1 DEF NewEra, BetweenExtrinsics, mainchainVars, counterVars, voteVars,
       workerVars, extrinsicVars
<1>4. ASSUME NEW v \in Validators, StartRun(v)
      PROVE  TypeInv'
  <2>1. \A r \in running' : r \in Run
    BY <1>4 DEF StartRun, Run
  <2> QED
    BY <1>4, <2>1 DEF StartRun, BetweenExtrinsics, mainchainVars, counterVars, voteVars,
       eraVars, extrinsicVars
<1>5. ASSUME NEW v \in Validators, observing_mainchain(v)
      PROVE  TypeInv'
  <2>1. PICK r \in running : \E sets \in 0..publishedSets, notes \in 0..published :
               EndRun(r, sets, notes)
    BY <1>5 DEF observing_mainchain
  <2>2. PICK sets \in 0..publishedSets, notes \in 0..published : EndRun(r, sets, notes)
    BY <2>1
  <2> DEFINE obs == Observed(r, sets, notes)
             p == [by |-> r.by, observations |-> obs]
  <2>3. pool' = pool \/ (obs # <<>> /\ pool' = pool \cup {p})
    BY <2>2 DEF EndRun
  <2>4. obs # <<>> => p \in Payload
    <3>1. r \in Run /\ r.by \in Validators
      BY DEF Run
    <3>2. obs # <<>> => obs \in Seq(Observation)
      BY <3>1, ObservedShape
    <3> HIDE DEF obs
    <3> QED
      BY <3>1, <3>2 DEF Payload
  <2>5. /\ \A q \in pool' : q \in Payload
        /\ \A q \in pool' : q.observations # <<>>
    <3> HIDE DEF obs
    <3> QED
      BY <2>3, <2>4
  <2> QED
    BY <2>2, <2>5 DEF EndRun, BetweenExtrinsics, mainchainVars, counterVars, voteVars,
       eraVars, extrinsicVars
<1>6. ASSUME NEW p \in pool, Drop(p)
      PROVE  TypeInv'
  BY <1>6 DEF Drop, BetweenExtrinsics, mainchainVars, counterVars, voteVars,
     eraVars, extrinsicVars
<1>7. ASSUME NEW p \in pool, submit_observations(p)
      PROVE  TypeInv'
  <2>1. pool' \subseteq pool
    BY <1>7 DEF submit_observations
  <2>2. /\ extrinsic' \in Payload \cup {None}
        /\ position' \in Nat
        /\ extrinsic' # None => /\ position' \in 1..Len(extrinsic'.observations)
                                /\ era' # None
    <3>1. p.observations \in Seq(Observation) /\ p.observations # <<>>
      BY DEF Payload
    <3>2. Len(p.observations) \in Nat \ {0}
      BY <3>1, EmptySeq
    <3>3. CASE is_active_validator(p.by)
      BY <1>7, <3>2, <3>3 DEF submit_observations, is_active_validator, eraVars
    <3>4. CASE ~is_active_validator(p.by)
      BY <1>7, <3>4 DEF submit_observations, extrinsicVars, BetweenExtrinsics
    <3> QED
      BY <3>3, <3>4
  <2> QED
    BY <1>7, <2>1, <2>2 DEF submit_observations, mainchainVars, counterVars, voteVars, eraVars
<1>8. ASSUME ObservationFails
      PROVE  TypeInv'
  BY <1>8, NextObservationType DEF ObservationFails, Unaffected, mainchainVars,
     counterVars, voteVars, eraVars, workerVars
<1>9. ASSUME ObservationCounts
      PROVE  TypeInv'
  BY <1>9, NextObservationType, VoteType DEF ObservationCounts, Unaffected, mainchainVars,
     counterVars, eraVars, workerVars
<1>10. ASSUME UpdateValidatorSet
       PROVE  TypeInv'
  <2>1. plannedValidators' \in 0..MaxId
    BY <1>10, CurrentObservation, ObservationKinds, BoundsAssumption, IdsAssumption
       DEF UpdateValidatorSet, SetIds
  <2>2. nextSetId' \in 0..MaxId
    BY <1>10, IdsAssumption DEF UpdateValidatorSet, Fails, IdOverflows
  <2> QED
    BY <1>10, <2>1, <2>2, NextObservationType, VoteType
       DEF UpdateValidatorSet, Unaffected, mainchainVars, eraVars, workerVars
<1>11. ASSUME NEW result \in Results, ProcessNotification(result)
       PROVE  TypeInv'
  <2>1. observation.index \in NotificationIds
    BY <1>11, CurrentObservation, ObservationKinds DEF ProcessNotification
  <2>2. nextNotificationId' \in 0..MaxId
    BY <1>11, IdsAssumption DEF ProcessNotification, Fails, IdOverflows
  <2>3. processed' \in Seq(NotificationIds)
    BY <1>11, <2>1 DEF ProcessNotification
  <2>4. /\ DOMAIN notificationHistory' \in SUBSET NotificationIds
        /\ \A n \in DOMAIN notificationHistory' : notificationHistory'[n] \in Results
    BY <1>11, <2>1 DEF ProcessNotification
  <2> QED
    BY <1>11, <2>2, <2>3, <2>4, NextObservationType, VoteType
       DEF ProcessNotification, Unaffected, mainchainVars, eraVars, workerVars
<1>12. ASSUME NEW b \in BOOLEAN, force_set_is_activated(b)
       PROVE  TypeInv'
  BY <1>12 DEF force_set_is_activated, mainchainVars, counterVars, voteVars, eraVars,
     workerVars, extrinsicVars
<1>13. ASSUME Governance
       PROVE  TypeInv'
  <2>1. /\ RootChange
        /\ nextSetId' \in 0..MaxId /\ nextNotificationId' \in 0..MaxId
        /\ plannedValidators' \in 0..MaxId \cup {ForcedSet}
    BY <1>13, IdsAssumption DEF Governance, force_set_next_set_id,
       force_set_planned_validators, force_set_next_notification_id
  <2>2. forces' \in 0..MaxForces
    <3>1. forces' = forces + 1 /\ forces < MaxForces
      BY <2>1 DEF RootChange
    <3>2. forces \in Nat /\ MaxForces \in Nat
      BY BoundsAssumption
    <3> QED
      BY <3>1, <3>2
  <2> QED
    BY <2>1, <2>2 DEF RootChange, BetweenExtrinsics, mainchainVars, voteVars, eraVars, workerVars, extrinsicVars
<1>14. ASSUME UNCHANGED vars
       PROVE  TypeInv'
  BY <1>14 DEF vars, mainchainVars, counterVars, voteVars, eraVars, workerVars, extrinsicVars
<1> QED
  BY <1>1, <1>2, <1>3, <1>4, <1>5, <1>6, <1>7, <1>8, <1>9, <1>10, <1>11, <1>12, <1>13, <1>14
     DEF Next, Operation, submit_observation

\* Type correctness, under whatever the root origin forces: no vote, retry or
\* rolled back observation takes the loop, the counters or the maps of the
\* votes out of their ranges.
THEOREM TypeCorrect == Spec => []TypeOK
<1>1. TypeInv => TypeOK
  BY DEF TypeInv
<1> QED
  BY <1>1, TypeInvInitially, TypeInvNext, PTL DEF Spec
-----------------------------------------------------------------------------
\* The inductive invariant behind ProcessedInOrder and PlannedIsLatest.

\* The counters agree with the history and with the mainchain.
CountersInv ==
    /\ ProcessedInOrder
    /\ PlannedIsLatest
    /\ nextNotificationId <= published
    /\ nextSetId >= 1

\* What a run has read is not ahead of the chain.
RunsInv ==
    \A r \in running : /\ r.nextNotificationId <= nextNotificationId
                       /\ r.nextSetId <= nextSetId

\* A payload is one published set, or a page of published notifications
\* without a gap that starts at or before the next one.
IsSetPayload(obs) ==
    Len(obs) = 1 /\ IsSetUpdate(obs[1]) /\ obs[1].index <= publishedSets

IsPage(obs) ==
    /\ Len(obs) <= RequestEventLimit
    /\ obs[1].index <= nextNotificationId
    /\ obs[1].index + Len(obs) <= published
    /\ \A k \in 1..Len(obs) : obs[k] = Notification(obs[1].index + k - 1)
    /\ ~IsSetUpdate(obs[1])

PayloadsInv ==
    /\ \A p \in pool : IsSetPayload(p.observations) \/ IsPage(p.observations)
    /\ extrinsic # None =>
         IsSetPayload(extrinsic.observations) \/ IsPage(extrinsic.observations)

\* In the middle of a page: its voter has voted for all that is before the
\* current position and still to be processed, and the votes for that do not
\* suffice.
PositionInv ==
    extrinsic # None /\ ~IsSetUpdate(observation) =>
        \A i \in NotificationIds : nextNotificationId <= i /\ i < observation.index =>
            /\ val_id \in observing[Notification(i)]
            /\ ~IsSupermajority(observing[Notification(i)])

DeliveryInv == CountersInv /\ RunsInv /\ PayloadsInv /\ VotesAreNested /\ PositionInv

\* More validators do not hold less stake.
LEMMA StakeMonotone ==
    ASSUME NEW e \in Eras, NEW ws \in SUBSET Validators, NEW vs \in SUBSET ws
    PROVE  StakeOf(e, vs) \in Nat /\ StakeOf(e, vs) <= StakeOf(e, ws)
<1>1. \A v \in Validators : e.stake[v] \in Nat
  BY ErasAssumption
<1>2. IsFiniteSet(ws) /\ IsFiniteSet(vs)
  BY ValidatorsAssumption, FS_Subset
<1> QED
  BY <1>1, <1>2, SumNat, SumOfSubset DEF StakeOf

\* More voters do not lose a supermajority.
LEMMA SupermajorityMonotone ==
    ASSUME TypeOK, era # None, NEW vs \in SUBSET Validators, NEW ws \in SUBSET Validators,
           vs \subseteq ws, IsSupermajority(vs)
    PROVE  IsSupermajority(ws)
<1>1. era \in Eras
  BY DEF TypeOK
<1>2. /\ StakeOf(era, vs) \in Nat /\ StakeOf(era, ws) \in Nat
      /\ StakeOf(era, Validators) \in Nat
      /\ StakeOf(era, vs) <= StakeOf(era, ws)
  BY <1>1, StakeMonotone
<1> QED
  BY <1>2 DEF IsSupermajority

\* As long as the published notifications stay away from the end of u32, the
\* window does not wrap around.
LEMMA WindowDoesNotWrap ==
    ASSUME TypeOK, nextNotificationId <= published
    PROVE  WindowEnd = nextNotificationId + RequestEventLimit
<1>1. nextNotificationId + RequestEventLimit \in 0..MaxId
  BY BoundsAssumption, IdsAssumption DEF TypeOK
<1>2. \A x \in 0..MaxId : x % (MaxId + 1) = x
  BY IdsAssumption
<1> QED
  BY <1>1, <1>2 DEF WindowEnd

\* The bounded vectors never refuse a vote when every validator has a place.
LEMMA RoomForEveryVote ==
    ASSUME TypeInv, extrinsic # None
    PROVE  HasRoom(observation)
<1> DEFINE obs == observation
<1>1. obs \in Observation /\ val_id \in Validators
  BY CurrentObservation
<1>2. ASSUME obs \notin observations
      PROVE  Cardinality({o \in observations :
                            o.type = obs.type /\ o.index = obs.index}) < MaxObservations
  <2>1. \A o \in observations : ~(o.type = obs.type /\ o.index = obs.index)
    <3> SUFFICES ASSUME NEW o \in observations, o.type = obs.type, o.index = obs.index
                 PROVE  FALSE
      OBVIOUS
    <3>1. o \in Observation
      BY DEF TypeInv, TypeOK
    <3>2. IsSetUpdate(o) <=> IsSetUpdate(obs)
      BY DEF IsSetUpdate
    <3>3. o = obs
      BY <1>1, <3>1, <3>2, ObservationKinds
    <3> QED
      BY <1>2, <3>3
  <2>2. {o \in observations : o.type = obs.type /\ o.index = obs.index} = {}
    BY <2>1
  <2>3. Cardinality({o \in observations : o.type = obs.type /\ o.index = obs.index}) = 0
    BY <2>2, FS_EmptySet
  <2> QED
    BY <2>3, BoundsAssumption
<1>3. ASSUME val_id \notin observing[obs]
      PROVE  Cardinality(observing[obs]) < MaxValidators
  <2>1. observing[obs] \subseteq Validators /\ observing[obs] # Validators
    BY <1>1, <1>3 DEF TypeInv, TypeOK
  <2>2. /\ Cardinality(observing[obs]) <= Cardinality(Validators)
        /\ Cardinality(observing[obs]) # Cardinality(Validators)
    BY <2>1, FS_Subset, ValidatorsAssumption
  <2>3. Cardinality(observing[obs]) \in Nat /\ Cardinality(Validators) \in Nat
    BY <2>1, FS_Subset, FS_CardinalityType, ValidatorsAssumption
  <2> QED
    BY <2>2, <2>3, ValidatorsAssumption
<1> QED
  BY <1>2, <1>3 DEF HasRoom

\* Where a page stands.
LEMMA PagePosition ==
    ASSUME TypeInv, PayloadsInv, extrinsic # None, ~IsSetUpdate(observation)
    PROVE  LET obs == extrinsic.observations
           IN  /\ IsPage(obs)
               /\ obs[1].index \in NotificationIds
               /\ observation.index = obs[1].index + position - 1
               /\ observation.index \in NotificationIds
               /\ observation = Notification(observation.index)
               /\ observation.index < published
<1> DEFINE obs == extrinsic.observations
<1>1. obs \in Seq(Observation) /\ position \in 1..Len(obs) /\ Len(obs) \in Nat
  BY DEF TypeInv, TypeOK, Payload
<1>2. 1 \in 1..Len(obs) /\ obs[1] \in Observation
  BY <1>1
<1>3. IsPage(obs)
  <2> SUFFICES ASSUME IsSetPayload(obs) PROVE FALSE
    BY DEF PayloadsInv
  <2>1. position = 1
    BY <1>1 DEF IsSetPayload
  <2> QED
    BY <2>1 DEF IsSetPayload, observation
<1>4. obs[1].index \in NotificationIds
  BY <1>2, <1>3, ObservationKinds DEF IsPage
<1>5. observation = Notification(obs[1].index + position - 1)
  BY <1>1, <1>3 DEF IsPage, observation
<1>6. observation.index = obs[1].index + position - 1
  BY <1>5 DEF Notification
<1>7. observation.index \in NotificationIds
  BY CurrentObservation, ObservationKinds
<1>8. observation.index < published
  <2>1. published \in Nat /\ position \in Nat /\ position <= Len(obs)
    BY <1>1, BoundsAssumption DEF TypeInv, TypeOK
  <2>2. obs[1].index \in Nat /\ obs[1].index + Len(obs) <= published
    BY <1>3, <1>4, BoundsAssumption DEF IsPage, NotificationIds
  <2> QED
    BY <1>1, <1>6, <2>1, <2>2
<1> QED
  BY <1>3, <1>4, <1>5, <1>6, <1>7, <1>8

\* A set is the only observation of its payload.
LEMMA SetPosition ==
    ASSUME TypeInv, PayloadsInv, extrinsic # None, IsSetUpdate(observation), NextObservation
    PROVE  extrinsic' = None /\ observation.index <= publishedSets
<1> DEFINE obs == extrinsic.observations
<1>1. obs \in Seq(Observation) /\ position \in 1..Len(obs) /\ Len(obs) \in Nat
  BY DEF TypeInv, TypeOK, Payload
<1>2. ~IsPage(obs)
  <2> SUFFICES ASSUME IsPage(obs) PROVE FALSE
    OBVIOUS
  <2>1. obs[1] \in Observation /\ ~IsSetUpdate(obs[1])
    BY <1>1 DEF IsPage
  <2>2. obs[1].index \in Nat
    BY <2>1, ObservationKinds, BoundsAssumption DEF NotificationIds
  <2>3. observation = Notification(obs[1].index + position - 1)
    BY <1>1 DEF IsPage, observation
  <2>4. obs[1].index + position - 1 \in NotificationIds
    <3>1. /\ obs[1].index + Len(obs) <= published /\ published <= MaxNotifications
          /\ published \in Nat /\ MaxNotifications \in Nat
      BY BoundsAssumption DEF IsPage, TypeInv, TypeOK
    <3>2. /\ obs[1].index + position - 1 \in Nat
          /\ obs[1].index + position - 1 <= MaxNotifications - 1
      BY <1>1, <2>2, <3>1
    <3> QED
      BY <3>1, <3>2 DEF NotificationIds
  <2> QED
    BY <2>3, <2>4, NotificationIsObservation
<1>3. IsSetPayload(obs)
  BY <1>2 DEF PayloadsInv
<1>4. position = 1
  BY <1>1, <1>3 DEF IsSetPayload
<1> QED
  BY <1>3, <1>4 DEF IsSetPayload, NextObservation, observation

\* The observation that follows one of a page is the next notification.
LEMMA NextOfPage ==
    ASSUME TypeInv, PayloadsInv, extrinsic # None, ~IsSetUpdate(observation),
           NextObservation, extrinsic' # None
    PROVE  extrinsic' = extrinsic /\ observation'.index = observation.index + 1
<1> DEFINE obs == extrinsic.observations
<1>1. obs \in Seq(Observation) /\ position \in 1..Len(obs) /\ Len(obs) \in Nat
  BY DEF TypeInv, TypeOK, Payload
<1>2. extrinsic' = extrinsic /\ position' = position + 1 /\ position < Len(obs)
  BY DEF NextObservation
<1>3. IsPage(obs) /\ obs[1].index \in Nat /\ observation.index = obs[1].index + position - 1
  BY PagePosition, BoundsAssumption DEF NotificationIds
<1>4. position + 1 \in 1..Len(obs)
  BY <1>1, <1>2
<1>5. observation' = obs[position + 1]
  BY <1>2 DEF observation
<1>6. obs[position + 1] = Notification(obs[1].index + (position + 1) - 1)
  BY <1>3, <1>4 DEF IsPage
<1> QED
  BY <1>1, <1>2, <1>3, <1>5, <1>6 DEF Notification

\* A vote changes the votes for the current observation only.
LEMMA VoteEffect ==
    ASSUME TypeInv, extrinsic # None, Vote(observation), NEW n \in NotificationIds
    PROVE  observing'[Notification(n)] =
             IF observation = Notification(n)
             THEN observing[Notification(n)] \cup {val_id}
             ELSE observing[Notification(n)]
<1>1. observing \in [Observation -> SUBSET Validators] /\ Notification(n) \in Observation
  BY NotificationIsObservation DEF TypeInv, TypeOK
<1> QED
  BY <1>1, CurrentObservation DEF Vote, Votes

LEMMA DeliveryInvInitially == Init => DeliveryInv
<1> SUFFICES ASSUME Init PROVE DeliveryInv
  OBVIOUS
<1>1. CountersInv
  <2>1. DOMAIN notificationHistory = 0..nextNotificationId - 1
    BY DEF Init
  <2>2. Len(processed) = 0
    BY DEF Init
  <2> QED
    BY <2>1, <2>2 DEF Init, CountersInv, ProcessedInOrder, PlannedIsLatest
<1>2. RunsInv /\ PayloadsInv /\ PositionInv
  BY DEF Init, RunsInv, PayloadsInv, PositionInv
<1>3. VotesAreNested
  <2>1. \A n \in NotificationIds : observing[Notification(n)] = {}
    BY NotificationIsObservation DEF Init
  <2> QED
    BY <2>1 DEF VotesAreNested
<1> QED
  BY <1>1, <1>2, <1>3 DEF DeliveryInv

\* A page that fails in the middle of its execution fails because the
\* notification has been processed already.
LEMMA PageFailsBehind ==
    ASSUME TypeInv, DeliveryInv, extrinsic # None, ~IsSetUpdate(observation),
           Fails(observation)
    PROVE  observation.index < nextNotificationId
<1>1. /\ HasRoom(observation)
      /\ era # None
  BY RoomForEveryVote DEF TypeInv
<1>2. nextNotificationId # MaxId
  <2>1. nextNotificationId <= MaxNotifications
    BY BoundsAssumption DEF DeliveryInv, CountersInv, TypeInv, TypeOK
  <2> QED
    BY <2>1, BoundsAssumption, IdsAssumption DEF TypeInv, TypeOK
<1>3. ~check_observation(observation)
  BY <1>1, <1>2 DEF Fails, IdOverflows
<1>4. WindowEnd = nextNotificationId + RequestEventLimit
  BY WindowDoesNotWrap DEF DeliveryInv, CountersInv, TypeInv
<1> DEFINE obs == extrinsic.observations
<1>5. /\ IsPage(obs) /\ obs[1].index \in Nat
      /\ observation.index = obs[1].index + position - 1
  BY PagePosition, BoundsAssumption DEF DeliveryInv, NotificationIds
<1>6. position \in 1..Len(obs) /\ Len(obs) \in Nat
  BY DEF TypeInv, TypeOK, Payload
<1>7. observation.index < nextNotificationId + RequestEventLimit
  <2>1. Len(obs) <= RequestEventLimit /\ obs[1].index <= nextNotificationId
    BY <1>5 DEF IsPage
  <2> QED
    BY <1>5, <1>6, <2>1, BoundsAssumption, IdsAssumption DEF TypeInv, TypeOK
<1>8. observation.index \in Nat
  BY <1>5, <1>6
<1> QED
  BY <1>3, <1>4, <1>7, <1>8, IdsAssumption DEF check_observation, TypeInv, TypeOK

\* What takes effect is the next notification.
LEMMA ProcessedIsNext ==
    ASSUME TypeInv, DeliveryInv, NEW result \in Results, ProcessNotification(result)
    PROVE  /\ observation.index = nextNotificationId
           /\ nextNotificationId < published
<1> DEFINE c == observation.index
           next == nextNotificationId
<1>1. /\ extrinsic # None /\ ~IsSetUpdate(observation)
      /\ ~Fails(observation) /\ IsSupermajority(Votes(observation))
  BY DEF ProcessNotification
<1>2. /\ c \in NotificationIds /\ observation = Notification(c) /\ c < published
  BY <1>1, PagePosition DEF DeliveryInv
<1>3. c >= next /\ c \in Nat /\ next \in Nat
  BY <1>1, <1>2, IdsAssumption, BoundsAssumption
     DEF Fails, check_observation, TypeInv, TypeOK, NotificationIds
<1>4. ASSUME next < c
      PROVE  FALSE
  <2>1. next \in NotificationIds
    BY <1>2, <1>3, <1>4, BoundsAssumption DEF NotificationIds
  <2>2. /\ val_id \in observing[Notification(next)]
        /\ ~IsSupermajority(observing[Notification(next)])
    BY <1>1, <1>3, <1>4, <2>1 DEF DeliveryInv, PositionInv
  <2>3. observing[Notification(c)] \subseteq observing[Notification(next)]
    BY <1>2, <1>3, <1>4, <2>1 DEF DeliveryInv, VotesAreNested
  <2>4. Votes(observation) \subseteq observing[Notification(next)]
    BY <1>2, <2>2, <2>3 DEF Votes
  <2>5. observing[Notification(next)] \in SUBSET Validators
    BY <2>1, NotificationIsObservation DEF TypeInv, TypeOK
  <2>6. IsSupermajority(observing[Notification(next)])
    BY <1>1, <2>4, <2>5, SupermajorityMonotone DEF TypeInv
  <2> QED
    BY <2>2, <2>6
<1> QED
  BY <1>2, <1>3, <1>4

\* The steps that neither vote nor execute.
LEMMA DeliveryInvOutside ==
    ASSUME TypeInv, DeliveryInv,
           \/ PublishValidatorSet
           \/ PublishNotification
           \/ \E e \in Eras : NewEra(e)
           \/ \E p \in pool : Drop(p)
           \/ \E b \in BOOLEAN : force_set_is_activated(b)
           \/ UNCHANGED vars
    PROVE  DeliveryInv'
<1>1. /\ publishedSets <= publishedSets' /\ published <= published'
      /\ UNCHANGED <<nextSetId, plannedValidators, nextNotificationId,
                     notificationHistory, processed>>
      /\ UNCHANGED voteVars
      /\ UNCHANGED <<running, extrinsic, position>>
      /\ pool' \subseteq pool
      /\ extrinsic # None => UNCHANGED era
  BY DEF PublishValidatorSet, PublishNotification, NewEra, Drop, force_set_is_activated,
     BetweenExtrinsics, mainchainVars, counterVars, voteVars, eraVars, workerVars,
     extrinsicVars, vars, TypeInv, TypeOK
<1>2. /\ publishedSets \in Nat /\ published \in Nat /\ publishedSets' \in Nat /\ published' \in Nat
      /\ nextSetId \in Nat /\ nextNotificationId \in Nat
  BY DEF PublishValidatorSet, PublishNotification, NewEra, Drop, force_set_is_activated,
     mainchainVars, vars, TypeInv, TypeOK
<1>3. CountersInv'
  BY <1>1, <1>2 DEF DeliveryInv, CountersInv, ProcessedInOrder, PlannedIsLatest
<1>4. RunsInv' /\ VotesAreNested'
  BY <1>1 DEF DeliveryInv, RunsInv, VotesAreNested, voteVars
<1>5. PayloadsInv'
  <2>1. ASSUME NEW q \in Payload, q.observations # <<>>,
               IsSetPayload(q.observations) \/ IsPage(q.observations)
        PROVE  (IsSetPayload(q.observations) \/ IsPage(q.observations))'
    <3>1. q.observations \in Seq(Observation) /\ Len(q.observations) \in Nat \ {0}
      BY <2>1, EmptySeq DEF Payload
    <3>2. q.observations[1] \in Observation
      BY <3>1
    <3>3. q.observations[1].index \in Nat
      BY <3>2, ObservationKinds, BoundsAssumption DEF SetIds, NotificationIds
    <3>4. CASE IsSetPayload(q.observations)
      BY <1>1, <1>2, <3>3, <3>4 DEF IsSetPayload
    <3>5. CASE IsPage(q.observations)
      BY <1>1, <1>2, <3>1, <3>3, <3>5 DEF IsPage
    <3> QED
      BY <2>1, <3>4, <3>5
  <2>2. \A q \in pool' : IsSetPayload(q.observations)' \/ IsPage(q.observations)'
    BY <1>1, <2>1 DEF TypeInv, TypeOK, DeliveryInv, PayloadsInv
  <2>3. extrinsic # None => extrinsic \in Payload /\ extrinsic.observations # <<>>
    BY DEF TypeInv, TypeOK
  <2>4. extrinsic # None =>
          IsSetPayload(extrinsic.observations)' \/ IsPage(extrinsic.observations)'
    BY <1>1, <2>1, <2>3 DEF DeliveryInv, PayloadsInv
  <2> QED
    BY <1>1, <2>2, <2>4 DEF PayloadsInv
<1>6. PositionInv'
  BY <1>1 DEF DeliveryInv, PositionInv, observation, val_id, voteVars, IsSupermajority
<1> QED
  BY <1>3, <1>4, <1>5, <1>6 DEF DeliveryInv

\* A run takes the chain's counters with it.
LEMMA DeliveryInvStartRun ==
    ASSUME TypeInv, DeliveryInv, NEW v \in Validators, StartRun(v)
    PROVE  DeliveryInv'
<1>1. /\ UNCHANGED <<publishedSets, published, nextSetId, plannedValidators,
                     nextNotificationId, notificationHistory, processed,
                     observing, pool, extrinsic, position, era>>
      /\ running' = running \cup {[by |-> v, nextSetId |-> nextSetId,
                                   nextNotificationId |-> nextNotificationId]}
  BY DEF StartRun, mainchainVars, counterVars, voteVars, eraVars, extrinsicVars
<1>2. nextSetId \in Nat /\ nextNotificationId \in Nat
  BY DEF TypeInv, TypeOK
<1>3. RunsInv'
  BY <1>1, <1>2 DEF DeliveryInv, RunsInv
<1>4. CountersInv' /\ VotesAreNested' /\ PayloadsInv'
  BY <1>1 DEF DeliveryInv, CountersInv, ProcessedInOrder, PlannedIsLatest, VotesAreNested,
     PayloadsInv, IsSetPayload, IsPage
<1>5. PositionInv'
  BY <1>1 DEF StartRun, BetweenExtrinsics, PositionInv
<1> QED
  BY <1>3, <1>4, <1>5 DEF DeliveryInv

\* What a run submits is a page that starts at or before the next notification.
LEMMA DeliveryInvEndRun ==
    ASSUME TypeInv, DeliveryInv, NEW v \in Validators, observing_mainchain(v)
    PROVE  DeliveryInv'
<1>1. PICK r \in running : \E sets \in 0..publishedSets, notes \in 0..published :
             EndRun(r, sets, notes)
  BY DEF observing_mainchain
<1>2. PICK sets \in 0..publishedSets, notes \in 0..published : EndRun(r, sets, notes)
  BY <1>1
<1> DEFINE obs == Observed(r, sets, notes)
           p == [by |-> r.by, observations |-> obs]
<1>3. /\ pool' = pool \/ (obs # <<>> /\ pool' = pool \cup {p})
      /\ running' \subseteq running
      /\ UNCHANGED <<publishedSets, published, nextSetId, plannedValidators,
                     nextNotificationId, notificationHistory, processed,
                     observing, extrinsic, position, era>>
      /\ extrinsic = None
  BY <1>2 DEF EndRun, BetweenExtrinsics, mainchainVars, counterVars, voteVars, eraVars,
     extrinsicVars
<1>4. r \in Run /\ r.nextNotificationId <= nextNotificationId
  BY DEF TypeInv, TypeOK, DeliveryInv, RunsInv
<1>5. obs # <<>> => IsSetPayload(obs) \/ IsPage(obs)
  <2> SUFFICES ASSUME obs # <<>>
               PROVE  IsSetPayload(obs) \/ IsPage(obs)
    OBVIOUS
  <2> HIDE DEF obs
  <2>1. /\ obs \in Seq(Observation)
        /\ Len(obs) \in Nat \ {0}
        /\ \/ /\ Len(obs) = 1
              /\ obs[1] = ValidatorSetUpdate(r.nextSetId)
              /\ r.nextSetId \in 1..publishedSets
           \/ /\ Len(obs) <= RequestEventLimit
              /\ r.nextNotificationId + Len(obs) <= published
              /\ \A k \in 1..Len(obs) : obs[k] = Notification(r.nextNotificationId + k - 1)
    BY <1>4, ObservedShape DEF TypeInv, obs
  <2>2. CASE /\ Len(obs) = 1
             /\ obs[1] = ValidatorSetUpdate(r.nextSetId)
             /\ r.nextSetId \in 1..publishedSets
    BY <2>2 DEF TypeInv, TypeOK, ValidatorSetUpdate, IsSetUpdate, IsSetPayload
  <2>3. CASE /\ Len(obs) <= RequestEventLimit
             /\ r.nextNotificationId + Len(obs) <= published
             /\ \A k \in 1..Len(obs) : obs[k] = Notification(r.nextNotificationId + k - 1)
    <3>1. r.nextNotificationId \in Nat
      BY <1>4, IdsAssumption DEF Run
    <3>2. obs[1] = Notification(r.nextNotificationId)
      BY <2>1, <2>3, <3>1
    <3>3. r.nextNotificationId \in NotificationIds
      BY <2>1, <2>3, <3>1, BoundsAssumption DEF TypeInv, TypeOK, NotificationIds
    <3>4. obs[1].index = r.nextNotificationId /\ ~IsSetUpdate(obs[1])
      BY <3>2, <3>3, NotificationIsObservation
    <3> QED
      BY <1>4, <2>3, <3>4 DEF IsPage
  <2> QED
    BY <2>1, <2>2, <2>3
<1>6. PayloadsInv'
  <2>1. \A q \in pool' : IsSetPayload(q.observations) \/ IsPage(q.observations)
    <3> HIDE DEF obs
    <3> QED
      BY <1>3, <1>5 DEF DeliveryInv, PayloadsInv
  <2> QED
    BY <1>3, <2>1 DEF PayloadsInv, IsSetPayload, IsPage
<1>7. CountersInv' /\ VotesAreNested' /\ RunsInv'
  BY <1>3 DEF DeliveryInv, CountersInv, ProcessedInOrder, PlannedIsLatest, VotesAreNested,
     RunsInv
<1>8. PositionInv'
  BY <1>3 DEF PositionInv
<1> QED
  BY <1>6, <1>7, <1>8 DEF DeliveryInv

\* The first observation of a page is at or before the next notification.
LEMMA DeliveryInvSubmit ==
    ASSUME TypeInv, DeliveryInv, NEW p \in pool, submit_observations(p)
    PROVE  DeliveryInv'
<1>1. /\ UNCHANGED <<publishedSets, published, nextSetId, plannedValidators,
                     nextNotificationId, notificationHistory, processed,
                     observing, running, era>>
      /\ pool' \subseteq pool
      /\ extrinsic = None
      /\ extrinsic' = None \/ (extrinsic' = p /\ position' = 1)
  BY DEF submit_observations, BetweenExtrinsics, mainchainVars, counterVars, voteVars,
     eraVars, extrinsicVars
<1>2. CountersInv' /\ VotesAreNested' /\ RunsInv'
  BY <1>1 DEF DeliveryInv, CountersInv, ProcessedInOrder, PlannedIsLatest, VotesAreNested,
     RunsInv
<1>3. PayloadsInv'
  BY <1>1 DEF DeliveryInv, PayloadsInv, IsSetPayload, IsPage
<1>4. PositionInv'
  <2> SUFFICES ASSUME extrinsic' # None, ~IsSetUpdate(observation'),
                      NEW i \in NotificationIds, nextNotificationId <= i, i < observation'.index
               PROVE  FALSE
    BY <1>1 DEF PositionInv, IsSetUpdate
  <2>1. observation' = p.observations[1]
    BY <1>1 DEF observation
  <2>2. p.observations \in Seq(Observation) /\ p.observations # <<>>
    BY DEF TypeInv, TypeOK, Payload
  <2>3. p.observations[1] \in Observation
    BY <2>2, EmptySeq
  <2>4. p.observations[1].index <= nextNotificationId
    BY <2>1 DEF DeliveryInv, PayloadsInv, IsSetPayload, IsPage
  <2>5. p.observations[1].index \in Nat /\ i \in Nat /\ nextNotificationId \in Nat
    BY <2>3, ObservationKinds, BoundsAssumption, IdsAssumption
       DEF SetIds, NotificationIds, TypeInv, TypeOK
  <2> QED
    BY <2>1, <2>4, <2>5
<1> QED
  BY <1>2, <1>3, <1>4 DEF DeliveryInv

\* What the loop leaves in place, whatever an observation does.
LEMMA PayloadsInvStays ==
    ASSUME TypeInv, DeliveryInv, extrinsic # None, NextObservation,
           UNCHANGED <<publishedSets, published, pool>>,
           nextNotificationId' \in Nat, nextNotificationId <= nextNotificationId'
    PROVE  PayloadsInv'
<1>1. extrinsic' = extrinsic \/ extrinsic' = None
  BY DEF NextObservation
<1>2. ASSUME NEW q \in Payload, q.observations # <<>>,
             IsSetPayload(q.observations) \/ IsPage(q.observations)
      PROVE  (IsSetPayload(q.observations) \/ IsPage(q.observations))'
  <2>1. q.observations \in Seq(Observation) /\ Len(q.observations) \in Nat \ {0}
    BY <1>2, EmptySeq DEF Payload
  <2>2. q.observations[1] \in Observation
    BY <2>1
  <2>3. q.observations[1].index \in Nat
    BY <2>2, ObservationKinds, BoundsAssumption DEF SetIds, NotificationIds
  <2>4. nextNotificationId \in Nat
    BY DEF TypeInv, TypeOK
  <2> QED
    BY <1>2, <2>3, <2>4 DEF IsSetPayload, IsPage
<1>3. \A q \in pool' : IsSetPayload(q.observations)' \/ IsPage(q.observations)'
  BY <1>2 DEF TypeInv, TypeOK, DeliveryInv, PayloadsInv
<1>4. extrinsic # None => extrinsic \in Payload /\ extrinsic.observations # <<>>
  <2>1. extrinsic \in Payload /\ position \in 1..Len(extrinsic.observations)
    BY DEF TypeInv, TypeOK
  <2>2. extrinsic.observations \in Seq(Observation)
    BY <2>1 DEF Payload
  <2>3. Len(extrinsic.observations) # 0
    BY <2>1, <2>2
  <2> QED
    BY <2>1, <2>2, <2>3, EmptySeq
<1>5. extrinsic' # None =>
        (IsSetPayload(extrinsic.observations) \/ IsPage(extrinsic.observations))'
  BY <1>1, <1>2, <1>4 DEF DeliveryInv, PayloadsInv
<1> QED
  BY <1>3, <1>5 DEF PayloadsInv

LEMMA DeliveryInvFails ==
    ASSUME TypeInv, DeliveryInv, ObservationFails
    PROVE  DeliveryInv'
<1>1. /\ UNCHANGED <<publishedSets, published, nextSetId, plannedValidators,
                     nextNotificationId, notificationHistory, processed,
                     observing, running, pool, era>>
      /\ extrinsic # None /\ NextObservation /\ Fails(observation)
  BY DEF ObservationFails, Unaffected, mainchainVars, counterVars, voteVars, eraVars,
     workerVars
<1>2. CountersInv' /\ VotesAreNested' /\ RunsInv'
  BY <1>1 DEF DeliveryInv, CountersInv, ProcessedInOrder, PlannedIsLatest, VotesAreNested,
     RunsInv
<1>3. PayloadsInv'
  BY <1>1, PayloadsInvStays DEF TypeInv, TypeOK
<1>4. PositionInv'
  <2>1. CASE IsSetUpdate(observation)
    BY <1>1, <2>1, SetPosition DEF DeliveryInv, PositionInv
  <2>2. CASE ~IsSetUpdate(observation) /\ extrinsic' # None
    <3>1. observation.index < nextNotificationId
      BY <1>1, <2>2, PageFailsBehind
    <3>2. observation'.index = observation.index + 1
      BY <1>1, <2>2, NextOfPage DEF DeliveryInv
    <3>3. observation.index \in Nat /\ nextNotificationId \in Nat
      BY <1>1, <2>2, PagePosition, BoundsAssumption
         DEF DeliveryInv, TypeInv, TypeOK, NotificationIds
    <3>4. \A i \in NotificationIds : ~(nextNotificationId <= i /\ i < observation'.index)
      BY <3>1, <3>2, <3>3, BoundsAssumption DEF NotificationIds
    <3> QED
      BY <1>1, <3>4 DEF PositionInv
  <2> QED
    BY <2>1, <2>2 DEF PositionInv
<1> QED
  BY <1>2, <1>3, <1>4 DEF DeliveryInv

LEMMA DeliveryInvCounts ==
    ASSUME TypeInv, DeliveryInv, ObservationCounts
    PROVE  DeliveryInv'
<1>1. /\ UNCHANGED <<publishedSets, published, nextSetId, plannedValidators,
                     nextNotificationId, notificationHistory, processed,
                     running, pool, era>>
      /\ extrinsic # None /\ NextObservation /\ ~Fails(observation)
      /\ Vote(observation) /\ ~IsSupermajority(Votes(observation))
  BY DEF ObservationCounts, Unaffected, mainchainVars, counterVars, eraVars, workerVars
<1>2. CountersInv' /\ RunsInv'
  BY <1>1 DEF DeliveryInv, CountersInv, ProcessedInOrder, PlannedIsLatest, RunsInv
<1>3. PayloadsInv'
  BY <1>1, PayloadsInvStays DEF TypeInv, TypeOK
<1>4. CASE IsSetUpdate(observation)
  <2>1. \A n \in NotificationIds : observing'[Notification(n)] = observing[Notification(n)]
    BY <1>1, <1>4, VoteEffect, NotificationIsObservation
  <2>2. VotesAreNested'
    BY <1>1, <2>1 DEF DeliveryInv, VotesAreNested
  <2>3. PositionInv'
    BY <1>1, <1>4, SetPosition DEF DeliveryInv, PositionInv
  <2> QED
    BY <1>2, <1>3, <2>2, <2>3 DEF DeliveryInv
<1>5. CASE ~IsSetUpdate(observation)
  <2> DEFINE c == observation.index
  <2>1. c \in NotificationIds /\ observation = Notification(c)
    BY <1>1, <1>5, PagePosition DEF DeliveryInv
  <2>2. \A n \in NotificationIds :
          observing'[Notification(n)] = IF n = c THEN observing[Notification(n)] \cup {val_id}
                                        ELSE observing[Notification(n)]
    <3>1. \A n \in NotificationIds : observation = Notification(n) <=> n = c
      BY <2>1, NotificationIsObservation
    <3> QED
      BY <1>1, <3>1, VoteEffect
  <2>3. \A i \in NotificationIds : nextNotificationId <= i /\ i < c =>
          /\ val_id \in observing[Notification(i)]
          /\ ~IsSupermajority(observing[Notification(i)])
    BY <1>1, <1>5 DEF DeliveryInv, PositionInv
  <2>4. VotesAreNested'
    <3> SUFFICES ASSUME NEW i \in NotificationIds, NEW j \in NotificationIds,
                        nextNotificationId <= i, i < j
                 PROVE  observing'[Notification(j)] \subseteq observing'[Notification(i)]
      BY <1>1 DEF VotesAreNested
    <3>1. observing[Notification(j)] \subseteq observing[Notification(i)]
      BY DEF DeliveryInv, VotesAreNested
    <3>2. CASE j = c
      BY <2>2, <2>3, <3>1, <3>2, BoundsAssumption DEF NotificationIds
    <3>3. CASE j # c
      BY <2>2, <3>1, <3>3
    <3> QED
      BY <3>2, <3>3
  <2>5. PositionInv'
    <3>1. SUFFICES ASSUME extrinsic' # None, NEW i \in NotificationIds,
                          nextNotificationId <= i, i < observation'.index
                   PROVE  /\ val_id' \in observing'[Notification(i)]
                          /\ ~IsSupermajority(observing[Notification(i)])'
      BY <1>1 DEF PositionInv
    <3>2. extrinsic' = extrinsic /\ observation'.index = c + 1
      BY <1>1, <1>5, <3>1, NextOfPage DEF DeliveryInv
    <3>3. val_id' = val_id
      BY <3>2 DEF val_id
    <3>4. i < c \/ i = c
      BY <2>1, <3>1, <3>2, BoundsAssumption DEF NotificationIds
    <3>5. CASE i < c
      <4>1. observing'[Notification(i)] = observing[Notification(i)]
        <5>1. i # c
          BY <2>1, <3>5, BoundsAssumption DEF NotificationIds
        <5> QED
          BY <2>2, <5>1
      <4> QED
        BY <1>1, <2>3, <3>1, <3>3, <3>5, <4>1 DEF IsSupermajority
    <3>6. CASE i = c
      <4>1. observing'[Notification(i)] = Votes(observation)
        BY <2>1, <2>2, <3>6 DEF Votes
      <4>2. val_id \in Votes(observation)
        BY DEF Votes
      <4> QED
        BY <1>1, <3>3, <4>1, <4>2 DEF IsSupermajority
    <3> QED
      BY <3>4, <3>5, <3>6
  <2> QED
    BY <1>2, <1>3, <2>4, <2>5 DEF DeliveryInv
<1> QED
  BY <1>4, <1>5

LEMMA DeliveryInvUpdate ==
    ASSUME TypeInv, DeliveryInv, UpdateValidatorSet
    PROVE  DeliveryInv'
<1>1. /\ UNCHANGED <<publishedSets, published, nextNotificationId, notificationHistory,
                     processed, running, pool, era>>
      /\ extrinsic # None /\ NextObservation /\ ~Fails(observation)
      /\ Vote(observation) /\ IsSetUpdate(observation)
      /\ plannedValidators' = observation.index /\ nextSetId' = nextSetId + 1
  BY DEF UpdateValidatorSet, Unaffected, mainchainVars, eraVars, workerVars
<1>2. observation.index = nextSetId
  BY <1>1 DEF Fails, check_observation
<1>3. extrinsic' = None /\ observation.index <= publishedSets
  BY <1>1, SetPosition DEF DeliveryInv
<1>4. nextSetId \in Nat
  BY DEF TypeInv, TypeOK
<1>5. CountersInv'
  BY <1>1, <1>2, <1>3, <1>4 DEF DeliveryInv, CountersInv, ProcessedInOrder, PlannedIsLatest
<1>6. RunsInv'
  <2>1. \A r \in running : r.nextSetId \in Nat
    BY DEF TypeInv, TypeOK, Run
  <2> QED
    BY <1>1, <1>4, <2>1 DEF DeliveryInv, RunsInv
<1>7. PayloadsInv'
  BY <1>1, PayloadsInvStays DEF TypeInv, TypeOK
<1>8. VotesAreNested'
  <2>1. \A n \in NotificationIds : observing'[Notification(n)] = observing[Notification(n)]
    BY <1>1, VoteEffect, NotificationIsObservation
  <2> QED
    BY <1>1, <2>1 DEF DeliveryInv, VotesAreNested
<1>9. PositionInv'
  BY <1>3 DEF PositionInv
<1> QED
  BY <1>5, <1>6, <1>7, <1>8, <1>9 DEF DeliveryInv

LEMMA DeliveryInvProcess ==
    ASSUME TypeInv, DeliveryInv, NEW result \in Results, ProcessNotification(result)
    PROVE  DeliveryInv'
<1> DEFINE c == observation.index
<1>1. /\ UNCHANGED <<publishedSets, published, nextSetId, plannedValidators,
                     running, pool, era>>
      /\ extrinsic # None /\ NextObservation /\ Vote(observation)
      /\ ~IsSetUpdate(observation)
      /\ nextNotificationId' = nextNotificationId + 1
      /\ processed' = Append(processed, c)
      /\ DOMAIN notificationHistory' = DOMAIN notificationHistory \cup {c}
  BY DEF ProcessNotification, Unaffected, mainchainVars, eraVars, workerVars
<1>2. c = nextNotificationId /\ nextNotificationId < published
  BY ProcessedIsNext
<1>3. nextNotificationId \in Nat /\ published \in Nat
  BY DEF TypeInv, TypeOK
<1>4. CountersInv'
  <2>1. processed \in Seq(NotificationIds) /\ Len(processed) = nextNotificationId
    BY DEF TypeInv, TypeOK, DeliveryInv, CountersInv, ProcessedInOrder
  <2>2. c \in NotificationIds
    BY <1>1, PagePosition DEF DeliveryInv
  <2>3. /\ Len(processed') = Len(processed) + 1
        /\ \A i \in 1..Len(processed) : processed'[i] = processed[i]
        /\ processed'[Len(processed) + 1] = c
    BY <1>1, <2>1, <2>2, AppendProperties
  <2>4. DOMAIN notificationHistory' = 0..nextNotificationId' - 1
    <3>1. DOMAIN notificationHistory = 0..nextNotificationId - 1
      BY DEF DeliveryInv, CountersInv, ProcessedInOrder
    <3> QED
      BY <1>1, <1>2, <1>3, <3>1
  <2>5. \A i \in 1..Len(processed') : processed'[i] = i - 1
    BY <1>2, <1>3, <2>1, <2>3 DEF DeliveryInv, CountersInv, ProcessedInOrder
  <2> QED
    BY <1>1, <1>2, <1>3, <2>1, <2>3, <2>4, <2>5
       DEF DeliveryInv, CountersInv, ProcessedInOrder, PlannedIsLatest
<1>5. RunsInv'
  <2>1. \A r \in running : r.nextNotificationId \in Nat
    BY DEF TypeInv, TypeOK, Run
  <2> QED
    BY <1>1, <1>3, <2>1 DEF DeliveryInv, RunsInv
<1>6. PayloadsInv'
  BY <1>1, <1>3, PayloadsInvStays
<1>7. VotesAreNested'
  <2>1. ASSUME NEW n \in NotificationIds, nextNotificationId' <= n
        PROVE  observing'[Notification(n)] = observing[Notification(n)]
    <3>1. n # c /\ Notification(n).index = n
      BY <1>1, <1>2, <1>3, <2>1, NotificationIsObservation, BoundsAssumption DEF NotificationIds
    <3> QED
      BY <1>1, <3>1, VoteEffect
  <2> SUFFICES ASSUME NEW i \in NotificationIds, NEW j \in NotificationIds,
                      nextNotificationId' <= i, i < j
               PROVE  observing'[Notification(j)] \subseteq observing'[Notification(i)]
    BY DEF VotesAreNested
  <2>2. nextNotificationId <= i /\ nextNotificationId' <= j
    BY <1>1, <1>3, BoundsAssumption DEF NotificationIds
  <2> QED
    BY <2>1, <2>2 DEF DeliveryInv, VotesAreNested
<1>8. PositionInv'
  <2> SUFFICES ASSUME extrinsic' # None, NEW i \in NotificationIds,
                      nextNotificationId' <= i, i < observation'.index
               PROVE  FALSE
    BY DEF PositionInv
  <2>1. observation'.index = c + 1
    BY <1>1, NextOfPage DEF DeliveryInv
  <2> QED
    BY <1>1, <1>2, <1>3, <2>1, BoundsAssumption DEF NotificationIds
<1> QED
  BY <1>4, <1>5, <1>6, <1>7, <1>8 DEF DeliveryInv

LEMMA DeliveryInvNext == TypeInv /\ DeliveryInv /\ [Operation]_vars => DeliveryInv'
  BY DeliveryInvOutside, DeliveryInvStartRun, DeliveryInvEndRun, DeliveryInvSubmit,
     DeliveryInvFails, DeliveryInvCounts, DeliveryInvUpdate, DeliveryInvProcess
     DEF Operation, submit_observation

LEMMA DeliveryInvHolds == OperationSpec => [](TypeInv /\ DeliveryInv)
<1>1. [Operation]_vars => [Next]_vars
  BY DEF Next
<1> QED
  BY <1>1, TypeInvInitially, TypeInvNext, DeliveryInvInitially, DeliveryInvNext, PTL
     DEF OperationSpec

\* Every notification is processed once and in the order of the mainchain, for
\* any eras, stakes, delays, losses and repetitions of the transactions.
THEOREM NotificationsInOrder == OperationSpec => []ProcessedInOrder
<1>1. DeliveryInv => ProcessedInOrder
  BY DEF DeliveryInv, CountersInv
<1> QED
  BY <1>1, DeliveryInvHolds, PTL

\* The votes for notifications that are still to be processed are nested, so
\* that the decision on a later one implies that on the earlier ones.
THEOREM VotesNested == OperationSpec => []VotesAreNested
<1>1. DeliveryInv => VotesAreNested
  BY DEF DeliveryInv
<1> QED
  BY <1>1, DeliveryInvHolds, PTL

\* The planned validators are always those of the published set before
\* NextSetId: no set is skipped, repeated or taken before it is published.
THEOREM PlannedValidatorsCurrent == OperationSpec => []PlannedIsLatest
<1>1. DeliveryInv => PlannedIsLatest
  BY DEF DeliveryInv, CountersInv
<1> QED
  BY <1>1, DeliveryInvHolds, PTL

\* The pallet implements MainchainDelivery: each step of any actor publishes,
\* delivers the next notification, applies the next set, or changes nothing
\* that the abstract specification sees.
THEOREM DeliveryRefined == OperationSpec => ImplementsDelivery
<1> USE DEF Delivery!deliveryVars
<1>1. Init => Delivery!DeliveryInit
  BY DEF Init, Delivery!DeliveryInit
<1>2. TypeInv /\ DeliveryInv /\ [Operation]_vars
      => [Delivery!DeliveryNext]_(Delivery!deliveryVars)
  <2> SUFFICES ASSUME TypeInv, DeliveryInv, [Operation]_vars
               PROVE  Delivery!DeliveryNext \/ UNCHANGED <<published, publishedSets, processed, nextSetId - 1>>
    OBVIOUS
  <2>1. ASSUME PublishValidatorSet
        PROVE  Delivery!PublishSet
    BY <2>1 DEF PublishValidatorSet, counterVars, Delivery!PublishSet
  <2>2. ASSUME PublishNotification
        PROVE  Delivery!PublishNotification
    BY <2>2 DEF PublishNotification, counterVars, Delivery!PublishNotification
  <2>3. ASSUME UpdateValidatorSet
        PROVE  Delivery!ApplySet
    <3>1. nextSetId \in Nat /\ publishedSets \in Nat
      BY DEF TypeInv, TypeOK
    <3>2. observation.index = nextSetId /\ nextSetId' = nextSetId + 1
      BY <2>3 DEF UpdateValidatorSet, Fails, IdOverflows, check_observation
    <3>3. observation.index <= publishedSets
      BY <2>3, SetPosition DEF UpdateValidatorSet, DeliveryInv
    <3> QED
      BY <2>3, <3>1, <3>2, <3>3
         DEF UpdateValidatorSet, Unaffected, mainchainVars, Delivery!ApplySet
  <2>4. ASSUME NEW result \in Results, ProcessNotification(result)
        PROVE  Delivery!Deliver
    <3>1. observation.index = nextNotificationId /\ nextNotificationId < published
      BY <2>4, ProcessedIsNext
    <3>2. Len(processed) = nextNotificationId
      BY DEF DeliveryInv, CountersInv, ProcessedInOrder
    <3> QED
      BY <2>4, <3>1, <3>2
         DEF ProcessNotification, Unaffected, mainchainVars, Delivery!Deliver
  <2>5. ASSUME \/ \E e \in Eras : NewEra(e)
               \/ \E v \in Validators : StartRun(v)
               \/ \E v \in Validators : observing_mainchain(v)
               \/ \E p \in pool : Drop(p)
               \/ \E p \in pool : submit_observations(p)
               \/ ObservationFails
               \/ ObservationCounts
               \/ \E b \in BOOLEAN : force_set_is_activated(b)
               \/ UNCHANGED vars
        PROVE  UNCHANGED <<published, publishedSets, processed, nextSetId - 1>>
    <3>1. UNCHANGED mainchainVars /\ UNCHANGED counterVars
      BY <2>5 DEF NewEra, StartRun, observing_mainchain, EndRun, Drop, submit_observations,
         ObservationFails, ObservationCounts, Unaffected, force_set_is_activated, vars
    <3> QED
      BY <3>1 DEF mainchainVars, counterVars
  <2> QED
    BY <2>1, <2>2, <2>3, <2>4, <2>5 DEF Operation, submit_observation, Delivery!DeliveryNext
<1> QED
  BY <1>1, <1>2, DeliveryInvHolds, PTL
     DEF OperationSpec, ImplementsDelivery, Delivery!DeliverySpec

\* A step of the votes, the transactions or the eras leaves the history alone.
LEMMA HistoryStep ==
    ASSUME TypeInv, DeliveryInv, [Operation]_vars
    PROVE  \/ UNCHANGED notificationHistory
           \/ \E result \in Results : ProcessNotification(result)
<1>1. ASSUME \/ PublishValidatorSet
             \/ PublishNotification
             \/ \E e \in Eras : NewEra(e)
             \/ \E v \in Validators : StartRun(v)
             \/ \E v \in Validators : observing_mainchain(v)
             \/ \E p \in pool : Drop(p)
             \/ \E p \in pool : submit_observations(p)
             \/ ObservationFails
             \/ ObservationCounts
             \/ \E b \in BOOLEAN : force_set_is_activated(b)
             \/ UNCHANGED vars
      PROVE  UNCHANGED counterVars
  BY <1>1 DEF PublishValidatorSet, PublishNotification, NewEra, StartRun, observing_mainchain,
     EndRun, Drop, submit_observations, ObservationFails, ObservationCounts, Unaffected,
     force_set_is_activated, vars
<1>2. ASSUME UpdateValidatorSet PROVE UNCHANGED notificationHistory
  BY <1>2 DEF UpdateValidatorSet
<1> QED
  BY <1>1, <1>2 DEF Operation, submit_observation, counterVars

\* What was recorded of a notification stays: the one that is processed has no
\* result yet, whichever vote, delay or repetition brought it about.
THEOREM ResultsFinal == OperationSpec => ResultsAreFinal
<1> DEFINE Final ==
      \A n \in DOMAIN notificationHistory :
        /\ n \in DOMAIN notificationHistory'
        /\ notificationHistory'[n] = notificationHistory[n]
<1>1. ASSUME TypeInv, DeliveryInv, [Operation]_vars PROVE Final
  <2>1. CASE UNCHANGED notificationHistory
    BY <2>1
  <2>2. ASSUME NEW result \in Results, ProcessNotification(result) PROVE Final
    <3>1. observation.index = nextNotificationId
      BY <1>1, <2>2, ProcessedIsNext
    <3>2. observation.index \notin DOMAIN notificationHistory
      BY <1>1, <3>1 DEF DeliveryInv, CountersInv, ProcessedInOrder, TypeInv, TypeOK
    <3>3. notificationHistory' =
            [n \in DOMAIN notificationHistory \cup {observation.index} |->
               IF n = observation.index THEN result ELSE notificationHistory[n]]
      BY <2>2 DEF ProcessNotification
    <3> QED
      BY <3>2, <3>3
  <2> QED
    BY <1>1, <2>1, <2>2, HistoryStep
<1> HIDE DEF Final
<1>2. OperationSpec => [][Final]_vars
  BY <1>1, DeliveryInvHolds, PTL DEF OperationSpec
<1> QED
  BY <1>2 DEF ResultsAreFinal, Final
=============================================================================
