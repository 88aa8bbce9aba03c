------------------------ MODULE AppchainReorgProofs ------------------------
(***************************************************************************)
(* Theorems about AppchainReorg, for any number of validators, any stakes  *)
(* and any bounds: what the chain keeps on every branch, although the      *)
(* transactions of an abandoned branch are still executed.                 *)
(***************************************************************************)
EXTENDS AppchainReorg, AppchainProofs

IsPublished(obs) ==
    IF IsSetUpdate(obs) THEN obs.index <= publishedSets ELSE obs.index < published

OnlyPublished(list) == \A k \in 1..Len(list) : IsPublished(list[k])

\* Everything that is voted on, submitted or executed has been published.
VotesInv ==
    /\ VotesAreConsistent
    /\ \A p \in pool : OnlyPublished(p.observations)
    /\ extrinsic # None => OnlyPublished(extrinsic.observations)
    /\ SetsSurviveForks

LEMMA VotesInvInitially == Init => VotesInv
BY BoundsAssumption
DEF Init, VotesInv, VotesAreConsistent, SetsSurviveForks, PlannedIsLatest

\* A step that leaves the votes and the numbers of the sets alone, and brings no
\* other transactions.
LEMMA VotesInvQuiet ==
    ASSUME VotesInv, UNCHANGED <<mainchainVars, voteVars, nextSetId, plannedValidators, forces>>,
           pool' \subseteq pool, extrinsic' \in pool \cup {extrinsic, None}
    PROVE  VotesInv'
BY DEF VotesInv, VotesAreConsistent, OnlyPublished, IsPublished, SetsSurviveForks,
       PlannedIsLatest, mainchainVars, voteVars

\* The mainchain publishes more.
LEMMA VotesInvPublish ==
    ASSUME TypeInv, VotesInv, PublishValidatorSet \/ PublishNotification
    PROVE  VotesInv'
<1>1. /\ publishedSets \in Nat /\ published \in Nat
      /\ publishedSets' \in Nat /\ published' \in Nat
      /\ publishedSets <= publishedSets' /\ published <= published'
  BY BoundsAssumption DEF PublishValidatorSet, PublishNotification, TypeInv, TypeOK
<1>2. UNCHANGED <<counterVars, voteVars, workerVars, extrinsicVars, forces>>
  BY DEF PublishValidatorSet, PublishNotification
<1>3. \A obs \in Observation : IsPublished(obs) => IsPublished(obs)'
  <2> SUFFICES ASSUME NEW obs \in Observation, IsPublished(obs) PROVE IsPublished(obs)'
    OBVIOUS
  <2>1. obs.index \in Int
    BY ObservationKinds, BoundsAssumption DEF SetIds, NotificationIds
  <2> QED
    BY <1>1, <2>1 DEF IsPublished, IsSetUpdate
<1>4. /\ \A p \in pool : \A k \in 1..Len(p.observations) : p.observations[k] \in Observation
      /\ extrinsic # None =>
           \A k \in 1..Len(extrinsic.observations) : extrinsic.observations[k] \in Observation
  BY DEF TypeInv, TypeOK, Payload
<1>5. \A p \in pool' : OnlyPublished(p.observations)'
  BY <1>2, <1>3, <1>4 DEF VotesInv, OnlyPublished, workerVars
<1>6. extrinsic' # None => OnlyPublished(extrinsic.observations)'
  BY <1>2, <1>3, <1>4 DEF VotesInv, OnlyPublished, extrinsicVars
<1>7. VotesAreConsistent'
  <2>1. \A obs \in observations : obs \in Observation /\ IsPublished(obs)
    BY DEF VotesInv, VotesAreConsistent, IsPublished, TypeInv, TypeOK
  <2>2. \A obs \in observations : IsPublished(obs)'
    BY <1>3, <2>1
  <2> QED
    BY <1>2, <2>2 DEF VotesInv, VotesAreConsistent, IsPublished, voteVars
<1>8. SetsSurviveForks'
  <2>1. nextSetId \in Int
    BY IdsAssumption DEF TypeInv, TypeOK
  <2> QED
    BY <1>1, <1>2, <2>1 DEF VotesInv, SetsSurviveForks, PlannedIsLatest, counterVars
<1> QED
  BY <1>5, <1>6, <1>7, <1>8 DEF VotesInv

\* A run submits what it observed.
LEMMA VotesInvEndRun ==
    ASSUME TypeInv, VotesInv, NEW v \in Validators, observing_mainchain(v)
    PROVE  VotesInv'
<1>1. PICK r \in running, sets \in 0..publishedSets, notes \in 0..published :
        EndRun(r, sets, notes)
  BY DEF observing_mainchain
<1> DEFINE obs == Observed(r, sets, notes)
<1>2. /\ UNCHANGED <<mainchainVars, voteVars, counterVars, extrinsicVars, forces>>
      /\ \/ pool' = pool
         \/ obs # <<>> /\ pool' = pool \cup {[by |-> r.by, observations |-> obs]}
  BY <1>1 DEF EndRun
<1>3. obs # <<>> => OnlyPublished(obs)
  <2> SUFFICES ASSUME obs # <<>>, NEW k \in 1..Len(obs) PROVE IsPublished(obs[k])
    BY DEF OnlyPublished
  <2>1. r \in Run /\ r.nextNotificationId \in Nat /\ published \in Nat /\ publishedSets \in Nat
    BY BoundsAssumption, IdsAssumption DEF TypeInv, TypeOK, Run
  <2>2. /\ Len(obs) \in Nat
        /\ \/ /\ Len(obs) = 1
              /\ obs[1] = ValidatorSetUpdate(r.nextSetId)
              /\ r.nextSetId \in 1..publishedSets
           \/ /\ r.nextNotificationId + Len(obs) <= published
              /\ \A i \in 1..Len(obs) : obs[i] = Notification(r.nextNotificationId + i - 1)
    BY <2>1, ObservedShape DEF TypeInv
  <2> HIDE DEF obs
  <2>3. CASE /\ Len(obs) = 1
             /\ obs[1] = ValidatorSetUpdate(r.nextSetId)
             /\ r.nextSetId \in 1..publishedSets
    BY <2>1, <2>3 DEF IsPublished, IsSetUpdate, ValidatorSetUpdate
  <2>4. CASE /\ r.nextNotificationId + Len(obs) <= published
             /\ \A i \in 1..Len(obs) : obs[i] = Notification(r.nextNotificationId + i - 1)
    <3>1. obs[k] = Notification(r.nextNotificationId + k - 1)
          /\ r.nextNotificationId + k - 1 < published
          /\ r.nextNotificationId + k - 1 \in NotificationIds
      BY <2>1, <2>2, <2>4, BoundsAssumption DEF NotificationIds, TypeInv, TypeOK
    <3> QED
      BY <3>1, NotificationIsObservation DEF IsPublished
  <2> QED
    BY <2>2, <2>3, <2>4
<1> HIDE DEF obs
<1>4. VotesAreConsistent' /\ SetsSurviveForks'
  BY <1>2 DEF VotesInv, VotesAreConsistent, SetsSurviveForks, PlannedIsLatest,
              mainchainVars, voteVars, counterVars
<1>5. \A p \in pool' : OnlyPublished(p.observations)'
  BY <1>2, <1>3 DEF VotesInv, OnlyPublished, IsPublished, mainchainVars
<1>6. extrinsic' # None => OnlyPublished(extrinsic.observations)'
  BY <1>2 DEF VotesInv, OnlyPublished, IsPublished, mainchainVars, extrinsicVars
<1> QED
  BY <1>4, <1>5, <1>6 DEF VotesInv

\* A vote goes into both maps, for an observation that is published.
LEMMA VotesInvVote ==
    ASSUME TypeInv, VotesInv, extrinsic # None, Vote(observation),
           UNCHANGED mainchainVars
    PROVE  VotesAreConsistent'
<1>1. observation \in Observation /\ IsPublished(observation)
  BY CurrentObservation DEF TypeInv, VotesInv, OnlyPublished, observation
<1>2. /\ observations \in SUBSET Observation
      /\ observing \in [Observation -> SUBSET Validators]
  BY DEF TypeInv, TypeOK
<1>3. observing'[observation] # {}
      /\ \A obs \in Observation \ {observation} : observing'[obs] = observing[obs]
  BY <1>1, <1>2 DEF Vote, Votes
<1>4. observations' = {obs \in Observation : observing'[obs] # {}}
  BY <1>1, <1>2, <1>3 DEF Vote, VotesInv, VotesAreConsistent
<1> QED
  BY <1>1, <1>4 DEF Vote, VotesInv, VotesAreConsistent, IsPublished, mainchainVars

\* The chain executes an observation.
LEMMA VotesInvExecute ==
    ASSUME TypeInv, VotesInv, submit_observation
    PROVE  VotesInv'
<1>1. /\ UNCHANGED <<mainchainVars, pool, forces>> /\ extrinsic # None
      /\ extrinsic' \in {extrinsic, None}
  BY DEF submit_observation, ObservationFails, ObservationCounts, UpdateValidatorSet,
         ProcessNotification, NextObservation, Unaffected, workerVars
<1>2. /\ \A p \in pool' : OnlyPublished(p.observations)'
      /\ extrinsic' # None => OnlyPublished(extrinsic.observations)'
  BY <1>1 DEF VotesInv, OnlyPublished, IsPublished, mainchainVars
<1>3. VotesAreConsistent'
  <2>1. CASE ObservationFails
    BY <1>1, <2>1 DEF ObservationFails, VotesInv, VotesAreConsistent, voteVars, mainchainVars
  <2>2. CASE ~ObservationFails
    BY <1>1, <2>2, VotesInvVote
    DEF submit_observation, ObservationCounts, UpdateValidatorSet, ProcessNotification
  <2> QED
    BY <2>1, <2>2
<1>4. SetsSurviveForks'
  <2>1. CASE UpdateValidatorSet
    <3>1. observation.index = nextSetId /\ IsPublished(observation)
      BY <2>1 DEF UpdateValidatorSet, Fails, IdOverflows, check_observation, VotesInv, OnlyPublished,
                  TypeInv, observation
    <3>2. nextSetId <= publishedSets
      BY <2>1, <3>1 DEF UpdateValidatorSet, IsPublished
    <3>3. plannedValidators' = nextSetId /\ nextSetId' = nextSetId + 1 /\ nextSetId \in Nat
      BY <2>1, <3>1, IdsAssumption DEF UpdateValidatorSet, TypeInv, TypeOK
    <3> QED
      BY <1>1, <3>2, <3>3 DEF SetsSurviveForks, PlannedIsLatest, mainchainVars
  <2>2. CASE ~UpdateValidatorSet
    <3>1. UNCHANGED <<nextSetId, plannedValidators>>
      BY <2>2 DEF submit_observation, ObservationFails, ObservationCounts,
                  ProcessNotification, counterVars
    <3> QED
      BY <1>1, <3>1 DEF VotesInv, SetsSurviveForks, PlannedIsLatest, mainchainVars
  <2> QED
    BY <2>1, <2>2
<1> QED
  BY <1>2, <1>3, <1>4 DEF VotesInv

LEMMA VotesInvNext == TypeInv /\ VotesInv /\ [Next]_vars => VotesInv'
<1> SUFFICES ASSUME TypeInv, VotesInv, [Next]_vars PROVE VotesInv'
  OBVIOUS
<1>1. CASE PublishValidatorSet \/ PublishNotification
  BY <1>1, VotesInvPublish
<1>2. CASE \E v \in Validators : observing_mainchain(v)
  BY <1>2, VotesInvEndRun
<1>3. CASE submit_observation
  BY <1>3, VotesInvExecute
<1>4. CASE \/ \E e \in Eras : NewEra(e)
           \/ \E v \in Validators : StartRun(v)
           \/ \E p \in pool : Drop(p)
           \/ \E b \in BOOLEAN : force_set_is_activated(b)
           \/ UNCHANGED vars
  <2>1. /\ UNCHANGED <<mainchainVars, voteVars, nextSetId, plannedValidators, forces, extrinsic>>
        /\ pool' \subseteq pool
    BY <1>4 DEF NewEra, StartRun, Drop, force_set_is_activated, vars, counterVars, workerVars,
                extrinsicVars
  <2> QED
    BY <2>1, VotesInvQuiet
<1>5. ASSUME NEW p \in pool, submit_observations(p)
      PROVE  VotesInv'
  <2>1. /\ UNCHANGED <<mainchainVars, voteVars, nextSetId, plannedValidators, forces>>
        /\ pool' \subseteq pool /\ extrinsic' \in pool \cup {extrinsic}
    BY <1>5 DEF submit_observations, counterVars, extrinsicVars
  <2> QED
    BY <2>1, VotesInvQuiet
<1>6. CASE Governance
  <2>1. /\ forces' = forces + 1 /\ forces \in Nat
        /\ UNCHANGED <<mainchainVars, voteVars, workerVars, extrinsicVars>>
    BY <1>6, BoundsAssumption DEF Governance, force_set_next_set_id,
       force_set_planned_validators, force_set_next_notification_id, RootChange, TypeInv, TypeOK
  <2>2. SetsSurviveForks'
    BY <2>1 DEF SetsSurviveForks
  <2>3. VotesAreConsistent'
    BY <2>1 DEF VotesInv, VotesAreConsistent, mainchainVars, voteVars
  <2>4. /\ \A p \in pool' : OnlyPublished(p.observations)'
        /\ extrinsic' # None => OnlyPublished(extrinsic.observations)'
    BY <2>1 DEF VotesInv, OnlyPublished, IsPublished, mainchainVars, workerVars, extrinsicVars
  <2> QED
    BY <2>2, <2>3, <2>4 DEF VotesInv
<1> QED
  BY <1>1, <1>2, <1>3, <1>4, <1>5, <1>6 DEF Next, Operation
-----------------------------------------------------------------------------
\* What takes effect is published: only ProcessNotification adds to it, the
\* observation in progress, which is.

LEMMA PublishedGrows ==
    ASSUME TypeInv, [Next]_vars
    PROVE  /\ publishedSets \in Nat /\ published \in Nat
           /\ publishedSets' \in Nat /\ published' \in Nat
           /\ publishedSets <= publishedSets' /\ published <= published'
<1>1. UNCHANGED mainchainVars \/ PublishValidatorSet \/ PublishNotification
  BY DEF Next, Operation, Governance, NewEra, StartRun, observing_mainchain, EndRun, Drop,
     submit_observations, submit_observation, ObservationFails, ObservationCounts,
     UpdateValidatorSet, ProcessNotification, Unaffected, force_set_is_activated,
     force_set_next_set_id, force_set_planned_validators, force_set_next_notification_id,
     RootChange, vars
<1>2. publishedSets \in Nat /\ published \in Nat
  BY BoundsAssumption DEF TypeInv, TypeOK
<1> QED
  BY <1>1, <1>2 DEF mainchainVars, PublishValidatorSet, PublishNotification

LEMMA EffectsInitially == Init => EffectsArePublished
BY DEF Init, EffectsArePublished

LEMMA EffectsQuiet ==
    ASSUME TypeInv, EffectsArePublished, [Next]_vars, UNCHANGED <<processed, notificationHistory>>
    PROVE  EffectsArePublished'
<1>1. /\ published \in Nat /\ published' \in Nat /\ published <= published'
  BY PublishedGrows
<1>2. /\ \A i \in DOMAIN processed : processed[i] \in Int
      /\ \A n \in DOMAIN notificationHistory : n \in Int
  BY BoundsAssumption DEF TypeInv, TypeOK, NotificationIds
<1> QED
  BY <1>1, <1>2 DEF EffectsArePublished

LEMMA EffectsProcess ==
    ASSUME TypeInv, VotesInv, EffectsArePublished,
           NEW result \in Results, ProcessNotification(result)
    PROVE  EffectsArePublished'
<1>1. observation.index < published
  BY DEF ProcessNotification, VotesInv, OnlyPublished, IsPublished, TypeInv, observation
<1>2. /\ published' = published
      /\ processed' = Append(processed, observation.index)
      /\ DOMAIN notificationHistory' = DOMAIN notificationHistory \cup {observation.index}
  BY DEF ProcessNotification, Unaffected, mainchainVars
<1>3. \A i \in DOMAIN processed' : processed'[i] < published
  BY <1>1, <1>2 DEF EffectsArePublished, TypeInv, TypeOK
<1> QED
  BY <1>1, <1>2, <1>3 DEF EffectsArePublished

LEMMA EffectsNext ==
    TypeInv /\ VotesInv /\ EffectsArePublished /\ [Next]_vars => EffectsArePublished'
<1> SUFFICES ASSUME TypeInv, VotesInv, EffectsArePublished, [Next]_vars
             PROVE  EffectsArePublished'
  OBVIOUS
<1>1. \/ UNCHANGED <<processed, notificationHistory>>
      \/ \E result \in Results : ProcessNotification(result)
  BY DEF Next, Operation, Governance, PublishValidatorSet, PublishNotification, NewEra, StartRun,
     observing_mainchain, EndRun, Drop, submit_observations, submit_observation,
     ObservationFails, ObservationCounts, UpdateValidatorSet, force_set_is_activated,
     force_set_next_set_id, force_set_planned_validators, force_set_next_notification_id,
     RootChange, counterVars, vars
<1> QED
  BY <1>1, EffectsQuiet, EffectsProcess
-----------------------------------------------------------------------------
\* The states the chain may come back to are states that it was in: their types,
\* their votes, the numbers of their sets.
BlockTypes(block) ==
    /\ block.isActivated \in BOOLEAN
    /\ block.nextSetId \in 0..MaxId
    /\ block.plannedValidators \in 0..MaxId \cup {ForcedSet}
    /\ block.nextNotificationId \in 0..MaxId
    /\ DOMAIN block.notificationHistory \in SUBSET NotificationIds
    /\ \A n \in DOMAIN block.notificationHistory : block.notificationHistory[n] \in Results
    /\ block.processed \in Seq(NotificationIds)
    /\ block.observations \in SUBSET Observation
    /\ block.observing \in [Observation -> SUBSET Validators]
    /\ block.era \in Eras \cup {None}
    /\ block.eraIndex \in 0..MaxEra

BlockVotes(block) ==
    /\ block.observations = {obs \in Observation : block.observing[obs] # {}}
    /\ \A obs \in block.observations : IsPublished(obs)
    /\ forces = 0 => /\ block.plannedValidators = block.nextSetId - 1
                     /\ block.nextSetId - 1 <= publishedSets

BlockEffects(block) ==
    /\ \A i \in DOMAIN block.processed : block.processed[i] < published
    /\ \A n \in DOMAIN block.notificationHistory : n < published

BlocksInv ==
    \A block \in blocks : BlockTypes(block) /\ BlockVotes(block) /\ BlockEffects(block)

ReorgInv == TypeInv /\ VotesInv /\ EffectsArePublished /\ BlocksInv

LEMMA ForkKeeps == ASSUME ReorgInv, Fork PROVE ReorgInv'
<1>1. UNCHANGED vars /\ blocks' = blocks \cup {ChainState}
  BY DEF Fork
<1>2. TypeInv' /\ VotesInv' /\ EffectsArePublished'
  <2>1. TypeInv'
    BY <1>1, TypeInvNext DEF ReorgInv
  <2>2. VotesInv'
    BY <1>1, VotesInvNext DEF ReorgInv
  <2>3. EffectsArePublished'
    BY <1>1, EffectsNext DEF ReorgInv
  <2> QED
    BY <2>1, <2>2, <2>3
<1>3. BlockTypes(ChainState)
  BY DEF ReorgInv, TypeInv, TypeOK, BlockTypes, ChainState
<1>4. BlockVotes(ChainState)
  BY DEF ReorgInv, VotesInv, VotesAreConsistent, SetsSurviveForks, PlannedIsLatest,
     BlockVotes, IsPublished, ChainState
<1>5. BlockEffects(ChainState)
  BY DEF ReorgInv, EffectsArePublished, BlockEffects, ChainState
<1>6. publishedSets' = publishedSets /\ published' = published /\ forces' = forces
  BY <1>1 DEF vars, mainchainVars
<1>7. \A block \in blocks' : BlockTypes(block) /\ BlockVotes(block) /\ BlockEffects(block)
  BY <1>1, <1>3, <1>4, <1>5 DEF ReorgInv, BlocksInv
<1>8. BlocksInv'
  BY <1>6, <1>7 DEF BlocksInv, BlockTypes, BlockVotes, BlockEffects, IsPublished
<1> QED
  BY <1>2, <1>8 DEF ReorgInv

LEMMA ReorgKeeps == ASSUME ReorgInv, NEW block \in blocks, Reorg(block) PROVE ReorgInv'
<1>1. BlockTypes(block) /\ BlockVotes(block) /\ BlockEffects(block)
  BY DEF ReorgInv, BlocksInv
<1>2. /\ extrinsic = None
      /\ UNCHANGED <<publishedSets, published, running, pool, extrinsic, position, forces,
                     blocks>>
  BY DEF Reorg, BetweenExtrinsics, mainchainVars, workerVars, extrinsicVars
<1>3. TypeInv'
  BY <1>1, <1>2 DEF Reorg, ReorgInv, TypeInv, TypeOK, BlockTypes
<1>4. VotesAreConsistent'
  BY <1>1, <1>2 DEF Reorg, VotesAreConsistent, BlockVotes, IsPublished
<1>5. SetsSurviveForks'
  BY <1>1, <1>2 DEF Reorg, SetsSurviveForks, PlannedIsLatest, BlockVotes
<1>6. \A p \in pool' : OnlyPublished(p.observations)'
  BY <1>2 DEF ReorgInv, VotesInv, OnlyPublished, IsPublished
<1>7. EffectsArePublished'
  BY <1>1, <1>2 DEF Reorg, EffectsArePublished, BlockEffects
<1>8. BlocksInv'
  BY <1>2 DEF ReorgInv, BlocksInv, BlockTypes, BlockVotes, BlockEffects, IsPublished
<1> QED
  BY <1>2, <1>3, <1>4, <1>5, <1>6, <1>7, <1>8 DEF ReorgInv, VotesInv

LEMMA ChainKeeps == ASSUME ReorgInv, [Next]_vars, UNCHANGED blocks PROVE ReorgInv'
<1>1. TypeInv' /\ VotesInv' /\ EffectsArePublished'
  BY TypeInvNext, VotesInvNext, EffectsNext DEF ReorgInv
<1>2. /\ publishedSets \in Nat /\ published \in Nat
      /\ publishedSets' \in Nat /\ published' \in Nat
      /\ publishedSets <= publishedSets' /\ published <= published'
  BY PublishedGrows DEF ReorgInv
<1>3. forces' = 0 => forces = 0
  <2>1. forces \in Nat
    BY BoundsAssumption DEF ReorgInv, TypeInv, TypeOK
  <2>2. forces' = forces \/ forces' = forces + 1
    BY DEF Next, Operation, Governance, PublishValidatorSet, PublishNotification, NewEra, StartRun,
       observing_mainchain, EndRun, Drop, submit_observations, submit_observation,
       ObservationFails, ObservationCounts, UpdateValidatorSet, ProcessNotification, Unaffected,
       force_set_is_activated, force_set_next_set_id, force_set_planned_validators,
       force_set_next_notification_id, RootChange, vars
  <2> QED
    BY <2>1, <2>2
<1>4. BlocksInv'
  <2> SUFFICES ASSUME NEW block \in blocks
               PROVE  BlockTypes(block)' /\ BlockVotes(block)' /\ BlockEffects(block)'
    BY DEF BlocksInv
  <2>1. BlockTypes(block) /\ BlockVotes(block) /\ BlockEffects(block)
    BY DEF ReorgInv, BlocksInv
  <2>2. BlockTypes(block)'
    BY <2>1 DEF BlockTypes
  <2>3. \A obs \in block.observations : IsPublished(obs)'
    <3> SUFFICES ASSUME NEW obs \in block.observations PROVE IsPublished(obs)'
      OBVIOUS
    <3>1. obs \in Observation /\ IsPublished(obs)
      BY <2>1 DEF BlockTypes, BlockVotes
    <3>2. obs.index \in Int
      BY <3>1, ObservationKinds, BoundsAssumption DEF SetIds, NotificationIds
    <3> QED
      BY <1>2, <3>1, <3>2 DEF IsPublished, IsSetUpdate
  <2>4. block.nextSetId \in Int
    BY <2>1, IdsAssumption DEF BlockTypes
  <2>5. forces' = 0 => /\ block.plannedValidators = block.nextSetId - 1
                       /\ block.nextSetId - 1 <= publishedSets'
    BY <1>2, <1>3, <2>1, <2>4 DEF BlockVotes
  <2>6. BlockEffects(block)'
    <3>1. /\ \A i \in DOMAIN block.processed : block.processed[i] \in Int
          /\ \A n \in DOMAIN block.notificationHistory : n \in Int
      BY <2>1, BoundsAssumption DEF BlockTypes, NotificationIds
    <3> QED
      BY <1>2, <2>1, <3>1 DEF BlockEffects
  <2> QED
    BY <2>1, <2>2, <2>3, <2>5, <2>6 DEF BlockVotes, IsPublished
<1> QED
  BY <1>1, <1>4 DEF ReorgInv

LEMMA ReorgInvHolds == ReorgSpec => []ReorgInv
<1>1. ReorgInit => ReorgInv
  BY TypeInvInitially, VotesInvInitially, EffectsInitially DEF ReorgInit, ReorgInv, BlocksInv
<1>2. ReorgInv /\ [ReorgNext]_reorgVars => ReorgInv'
  BY ForkKeeps, ReorgKeeps, ChainKeeps DEF ReorgNext, reorgVars, Next
<1> QED
  BY <1>1, <1>2, PTL DEF ReorgSpec

\* The types, on every branch and whatever root forces.
THEOREM TypesOnEveryBranch == ReorgSpec => []TypeOK
<1>1. ReorgInv => TypeOK
  BY DEF ReorgInv, TypeInv
<1> QED
  BY <1>1, ReorgInvHolds, PTL

\* The two maps of the votes go together on every branch, whatever root forces,
\* and nothing is voted on that the mainchain has not published.
THEOREM VotesConsistent == ReorgSpec => []VotesAreConsistent
<1>1. ReorgInv => VotesAreConsistent
  BY DEF ReorgInv, VotesInv
<1> QED
  BY <1>1, ReorgInvHolds, PTL

\* What takes effect has been published, on every branch and whatever root
\* forces: a vote is only ever for what a worker has observed.
THEOREM OnlyPublishedTakesEffect == ReorgSpec => []EffectsArePublished
<1>1. ReorgInv => EffectsArePublished
  BY DEF ReorgInv
<1> QED
  BY <1>1, ReorgInvHolds, PTL

\* As long as root forces nothing, the sets take effect in order on every
\* branch: a transaction of the abandoned branch never skips one.
THEOREM SetsInOrder == ReorgSpec => []SetsSurviveForks
<1>1. ReorgInv => SetsSurviveForks
  BY DEF ReorgInv, VotesInv
<1> QED
  BY <1>1, ReorgInvHolds, PTL
=============================================================================
