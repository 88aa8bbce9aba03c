------------------------------ MODULE Appchain ------------------------------
(***************************************************************************)
(* The pallet octopus-appchain: validators observe the mainchain with      *)
(* offchain workers and vote on what they saw; an observation takes effect *)
(* when its voters hold more than two thirds of the stake of the active    *)
(* era.                                                                    *)
(*                                                                         *)
(* The actors are the mainchain (it publishes), the worker runs of each    *)
(* validator (they snapshot the chain's counters, then ask the mainchain), *)
(* the transaction pool (it delays, loses and repeats) and the chain (it   *)
(* executes one extrinsic at a time, one observation after another). A     *)
(* validator reports what the final state of the mainchain says; the       *)
(* chain has one branch here, AppchainReorg lets blocks be reverted.       *)
(***************************************************************************)
EXTENDS Integers, Sequences, FiniteSets, Functions

CONSTANTS
    Validators,         \* accounts that may validate in some era
    None,               \* no era, no extrinsic
    Eras,               \* the eras the staking pallet may activate
    GenesisEras,        \* those, or None, that it may start with
    RequestEventLimit,
    MaxObservations,
    MaxValidators,
    MaxId,              \* 2^32 - 1 in the code
    NotificationType,   \* the type of notification 0, 1, ...
    ForcedIds,          \* ids that force_set_next_* is called with
    MaxSets,            \* bound: validator sets that are published
    MaxNotifications,   \* bound: notifications that are published
    MaxEra,             \* bound: changes of era
    MaxRuns,            \* bound: worker runs of a validator at a time
    MaxForces           \* bound: calls of force_set_next_* and _planned_*

NotificationTypes == {"Burn", "LockAsset", "BurnNft"}
NotificationIds == 0..MaxNotifications - 1
SetIds == 1..MaxSets

ASSUME ValidatorsAssumption ==
    /\ IsFiniteSet(Validators)
    /\ MaxValidators \in Nat
    /\ Cardinality(Validators) <= MaxValidators
ASSUME BoundsAssumption ==
    /\ MaxSets \in Nat /\ MaxNotifications \in Nat /\ MaxEra \in Nat
    /\ MaxRuns \in Nat /\ MaxForces \in Nat
    /\ RequestEventLimit \in Nat \ {0}
    /\ MaxObservations \in Nat \ {0}
ASSUME IdsAssumption ==
    /\ MaxId \in Nat
    /\ ForcedIds \subseteq 0..MaxId
    /\ MaxSets < MaxId
    /\ MaxNotifications + RequestEventLimit <= MaxId
ASSUME TypesAssumption == NotificationType \in [NotificationIds -> NotificationTypes]
ASSUME ErasAssumption ==
    /\ Eras \subseteq [validators : SUBSET Validators, stake : [Validators -> Nat]]
    /\ GenesisEras \subseteq Eras \cup {None}
    /\ None \notin Eras

\* Sum of the stake that an era gives to some validators.
StakeOf(e, vs) == SumFunctionOnSet(e.stake, vs)

VARIABLES
    publishedSets,      \* mainchain: number of the last validator set
    published,          \* mainchain: number of notifications
    isActivated,        \* IsActivated
    nextSetId,          \* NextSetId
    plannedValidators,  \* PlannedValidators: the id of the set it came from
    nextNotificationId, \* NextNotificationId
    observations,       \* Observations
    observing,          \* Observing
    notificationHistory,\* NotificationHistory
    era,                \* the active era of the staking pallet
    eraIndex,
    running,            \* worker runs, each with the ids it has read
    pool,               \* submit_observations transactions in the pool
    extrinsic,          \* the one that is being executed
    position,           \* and the observation of it that comes next
    processed,          \* history: ids of the processed notifications
    forces              \* number of forced changes, to bound them

mainchainVars == <<publishedSets, published>>
voteVars == <<observations, observing>>
counterVars == <<nextSetId, plannedValidators, nextNotificationId,
                 notificationHistory, processed>>
eraVars == <<era, eraIndex>>
workerVars == <<running, pool>>
extrinsicVars == <<extrinsic, position>>
vars == <<mainchainVars, isActivated, counterVars, voteVars, eraVars,
          workerVars, extrinsicVars, forces>>
-----------------------------------------------------------------------------
Notification(n) == [type |-> NotificationType[n], index |-> n]
ValidatorSetUpdate(s) == [type |-> "UpdateValidatorSet", index |-> s]

Observation == {Notification(n) : n \in NotificationIds}
               \cup {ValidatorSetUpdate(s) : s \in SetIds}

IsSetUpdate(obs) == obs.type = "UpdateValidatorSet"

Run == [by : Validators, nextSetId : 0..MaxId, nextNotificationId : 0..MaxId]
Payload == [by : Validators, observations : Seq(Observation)]

\* What the bridge can report for a notification of each type.
Failure == [Burn |-> "UnlockFailed", LockAsset |-> "AssetMintFailed",
            BurnNft |-> "NftUnlockFailed"]
Results == {"Success", "UnlockFailed", "AssetMintFailed", "NftUnlockFailed"}

ForcedSet == -1     \* stands for validators that came from no set

TypeOK ==
    /\ publishedSets \in 0..MaxSets
    /\ published \in 0..MaxNotifications
    /\ isActivated \in BOOLEAN
    /\ nextSetId \in 0..MaxId
    /\ plannedValidators \in 0..MaxId \cup {ForcedSet}
    /\ nextNotificationId \in 0..MaxId
    /\ observations \in SUBSET Observation
    /\ observing \in [Observation -> SUBSET Validators]
    /\ DOMAIN notificationHistory \in SUBSET NotificationIds
    /\ \A n \in DOMAIN notificationHistory : notificationHistory[n] \in Results
    /\ era \in Eras \cup {None}
    /\ eraIndex \in 0..MaxEra
    /\ \A r \in running : r \in Run
    /\ \A p \in pool : p \in Payload
    /\ extrinsic \in Payload \cup {None}
    /\ position \in Nat
    /\ processed \in Seq(NotificationIds)
    /\ forces \in 0..MaxForces

Init ==
    /\ publishedSets = 0
    /\ published = 0
    /\ isActivated = FALSE
    /\ nextSetId = 1        \* set 0 is already in the genesis
    /\ plannedValidators = 0
    /\ nextNotificationId = 0
    /\ observations = {}
    /\ observing = [obs \in Observation |-> {}]
    /\ notificationHistory = <<>>
    /\ era \in GenesisEras
    /\ eraIndex = 0
    /\ running = {}
    /\ pool = {}
    /\ extrinsic = None
    /\ position = 0
    /\ processed = <<>>
    /\ forces = 0
-----------------------------------------------------------------------------
\* What the other actors do commutes with the execution of an extrinsic, which
\* reads the chain's state only; so it comes between two of them.
BetweenExtrinsics == extrinsic = None

\* The mainchain, and the other pallets of the appchain.

PublishValidatorSet ==
    /\ BetweenExtrinsics
    /\ publishedSets < MaxSets
    /\ publishedSets' = publishedSets + 1
    /\ UNCHANGED <<published, isActivated, counterVars, voteVars, eraVars,
                   workerVars, extrinsicVars, forces>>

PublishNotification ==
    /\ BetweenExtrinsics
    /\ published < MaxNotifications
    /\ published' = published + 1
    /\ UNCHANGED <<publishedSets, isActivated, counterVars, voteVars, eraVars,
                   workerVars, extrinsicVars, forces>>

\* The staking pallet activates another era.
NewEra(e) ==
    /\ BetweenExtrinsics
    /\ eraIndex < MaxEra
    /\ e # era
    /\ era' = e
    /\ eraIndex' = eraIndex + 1
    /\ UNCHANGED <<mainchainVars, isActivated, counterVars, voteVars,
                   workerVars, extrinsicVars, forces>>

is_active_validator(v) == era # None /\ v \in era.validators

-----------------------------------------------------------------------------
\* The offchain worker of a validator.

\* Definitions under the heading "Buggy variant" are not part of the
\* specification: they are used only to show that the properties can fail.

\* Buggy variant: the run asks for the notification after the next one.
StartRunAhead(v) ==
    LET run == [by |-> v, nextSetId |-> nextSetId,
                nextNotificationId |-> nextNotificationId + 1]
    IN  /\ BetweenExtrinsics
        /\ isActivated
        /\ is_active_validator(v)
        /\ Cardinality({r \in running : r.by = v}) < MaxRuns
        /\ run \notin running
        /\ running' = running \cup {run}
        /\ UNCHANGED <<mainchainVars, isActivated, counterVars, voteVars,
                       eraVars, pool, extrinsicVars, forces>>

\* Between two blocks a run starts, for a node that is a validator, and reads
\* next_notification_id and next_set_id. Whether should_send lets it pass is
\* the subject of OffchainWorker; here it may or may not.
StartRun(v) ==
    LET run == [by |-> v, nextSetId |-> nextSetId,
                nextNotificationId |-> nextNotificationId]
    IN  /\ BetweenExtrinsics
        /\ isActivated
        /\ is_active_validator(v)
        /\ Cardinality({r \in running : r.by = v}) < MaxRuns
        /\ run \notin running
        /\ running' = running \cup {run}
        /\ UNCHANGED <<mainchainVars, isActivated, counterVars, voteVars,
                       eraVars, pool, extrinsicVars, forces>>

\* What an endpoint answers that knows `sets` validator sets and `notes`
\* notifications: the set asked for, or else the next notifications, at most
\* RequestEventLimit of them.
PageOf(first, notes) ==
    LET last == IF notes < first + RequestEventLimit
                THEN notes ELSE first + RequestEventLimit
    IN  IF first < last THEN last - first ELSE 0

\* Buggy variant: the latest notification first.
NotificationsDownFrom(first, notes) ==
    [k \in 1..PageOf(first, notes) |->
        Notification(first + PageOf(first, notes) - k)]

NotificationsFrom(first, notes) ==
    [k \in 1..PageOf(first, notes) |-> Notification(first + k - 1)]

Observed(r, sets, notes) ==
    IF r.nextSetId \in 1..sets
    THEN <<ValidatorSetUpdate(r.nextSetId)>>
    ELSE NotificationsFrom(r.nextNotificationId, notes)

\* The pool holds one transaction of a validator (and_provides), a second one
\* is refused.
Pooled(v) == \E p \in pool : p.by = v

\* The run gets its answers, or none, and submits what it observed. Endpoints
\* may lag behind the mainchain.
EndRun(r, sets, notes) ==
    LET obs == Observed(r, sets, notes)
    IN  /\ BetweenExtrinsics
        /\ running' = running \ {r}
        /\ IF obs = <<>> \/ Pooled(r.by)
           THEN UNCHANGED pool
           ELSE pool' = pool \cup {[by |-> r.by, observations |-> obs]}
        /\ UNCHANGED <<mainchainVars, isActivated, counterVars, voteVars,
                       eraVars, extrinsicVars, forces>>

observing_mainchain(v) ==
    \E r \in running : \E sets \in 0..publishedSets, notes \in 0..published :
        r.by = v /\ EndRun(r, sets, notes)

\* The longevity of a transaction ends, or its node drops it.
Drop(p) ==
    /\ BetweenExtrinsics
    /\ pool' = pool \ {p}
    /\ UNCHANGED <<mainchainVars, isActivated, counterVars, voteVars, eraVars,
                   running, extrinsicVars, forces>>

-----------------------------------------------------------------------------
\* submit_observations, and submit_observation for each observation.

\* An extrinsic is put into a block. Nothing keeps a copy of it from coming
\* again: it has no nonce.
submit_observations(p) ==
    /\ BetweenExtrinsics
    /\ pool' \in {pool, pool \ {p}}
    /\ IF is_active_validator(p.by)
       THEN extrinsic' = p /\ position' = 1
       ELSE UNCHANGED extrinsicVars         \* NotValidator
    /\ UNCHANGED <<mainchainVars, isActivated, counterVars, voteVars, eraVars,
                   running, forces>>

\* The loop over the observations goes on whatever the result of one is.
NextObservation ==
    IF position < Len(extrinsic.observations)
    THEN extrinsic' = extrinsic /\ position' = position + 1
    ELSE extrinsic' = None /\ position' = 0

val_id == extrinsic.by
observation == extrinsic.observations[position]

\* u32 arithmetic: the end of the window wraps around.
WindowEnd == (nextNotificationId + RequestEventLimit) % (MaxId + 1)

\* Buggy variants: old notifications, old sets or sets to come are let through.
CheckWithoutLowerBound(obs) ==
    IF IsSetUpdate(obs) THEN obs.index = nextSetId ELSE obs.index < WindowEnd

CheckAdmitsOldSets(obs) ==
    IF IsSetUpdate(obs)
    THEN obs.index <= nextSetId
    ELSE obs.index >= nextNotificationId /\ obs.index < WindowEnd

CheckAdmitsLaterSets(obs) ==
    IF IsSetUpdate(obs)
    THEN obs.index >= nextSetId
    ELSE obs.index >= nextNotificationId /\ obs.index < WindowEnd

check_observation(obs) ==
    IF IsSetUpdate(obs)
    THEN obs.index = nextSetId
    ELSE obs.index >= nextNotificationId /\ obs.index < WindowEnd

\* The BoundedVecs of Observations and Observing have room.
HasRoom(obs) ==
    /\ \/ obs \in observations
       \/ Cardinality({o \in observations :
            o.type = obs.type /\ o.index = obs.index}) < MaxObservations
    /\ \/ val_id \in observing[obs]
       \/ Cardinality(observing[obs]) < MaxValidators

IsSupermajority(vs) == 3 * StakeOf(era, vs) > 2 * StakeOf(era, Validators)

\* Buggy variant: a vote replaces the earlier ones.
VotesForgetOthers(obs) == IF obs \in Observation THEN {val_id} ELSE {}

Votes(obs) == observing[obs] \cup {val_id}

Vote(obs) ==
    /\ observations' = observations \cup {obs}
    /\ observing' = [observing EXCEPT ![obs] = Votes(obs)]

\* The id that the observation would increase is at the end of its width.
IdOverflows(obs) ==
    IF IsSetUpdate(obs) THEN nextSetId = MaxId ELSE nextNotificationId = MaxId

\* An error in the middle undoes everything: submit_observation is
\* transactional. The errors: WrongSetId, InvalidNotificationId,
\* ObservationsExceededLimit, InvalidActiveTotalStake, and the overflow of
\* the id that would be increased.
Fails(obs) ==
    \/ ~check_observation(obs)
    \/ ~HasRoom(obs)
    \/ era = None
    \/ IsSupermajority(Votes(obs)) /\ IdOverflows(obs)

Unaffected == <<mainchainVars, isActivated, eraVars, workerVars, forces>>

\* Buggy variant: without the transaction the first of the two writes stays.
ObservationFailsHalfway ==
    /\ extrinsic # None
    /\ Fails(observation)
    /\ observations' = observations \cup {observation}
    /\ NextObservation
    /\ UNCHANGED <<counterVars, observing, Unaffected>>

ObservationFails ==
    /\ extrinsic # None
    /\ Fails(observation)
    /\ NextObservation
    /\ UNCHANGED <<counterVars, voteVars, Unaffected>>

ObservationCounts ==
    /\ extrinsic # None
    /\ ~Fails(observation)
    /\ ~IsSupermajority(Votes(observation))
    /\ Vote(observation)
    /\ NextObservation
    /\ UNCHANGED <<counterVars, Unaffected>>

UpdateValidatorSet ==
    /\ extrinsic # None
    /\ ~Fails(observation)
    /\ IsSupermajority(Votes(observation))
    /\ IsSetUpdate(observation)
    /\ Vote(observation)
    /\ plannedValidators' = observation.index
    /\ nextSetId' = nextSetId + 1
    /\ NextObservation
    /\ UNCHANGED <<nextNotificationId, notificationHistory, processed, Unaffected>>

\* Buggy variants: the id stays, or the result is recorded at the id that
\* has been increased already.
ProcessKeepingId(result) ==
    /\ extrinsic # None
    /\ ~Fails(observation)
    /\ IsSupermajority(Votes(observation))
    /\ ~IsSetUpdate(observation)
    /\ result \in {"Success", Failure[observation.type]}
    /\ Vote(observation)
    /\ notificationHistory' =
         [n \in DOMAIN notificationHistory \cup {observation.index} |->
            IF n = observation.index THEN result ELSE notificationHistory[n]]
    /\ processed' = Append(processed, observation.index)
    /\ NextObservation
    /\ UNCHANGED <<nextNotificationId, nextSetId, plannedValidators, Unaffected>>

ProcessRecordingAtNext(result) ==
    /\ extrinsic # None
    /\ ~Fails(observation)
    /\ IsSupermajority(Votes(observation))
    /\ ~IsSetUpdate(observation)
    /\ result \in {"Success", Failure[observation.type]}
    /\ Vote(observation)
    /\ nextNotificationId' = nextNotificationId + 1
    /\ notificationHistory' =
         [n \in DOMAIN notificationHistory \cup {nextNotificationId'} |->
            IF n = nextNotificationId' THEN result ELSE notificationHistory[n]]
    /\ processed' = Append(processed, observation.index)
    /\ NextObservation
    /\ UNCHANGED <<nextSetId, plannedValidators, Unaffected>>

\* The bridge unlocks or mints, or fails, and the result is recorded.
ProcessNotification(result) ==
    /\ extrinsic # None
    /\ ~Fails(observation)
    /\ IsSupermajority(Votes(observation))
    /\ ~IsSetUpdate(observation)
    /\ result \in {"Success", Failure[observation.type]}
    /\ Vote(observation)
    /\ nextNotificationId' = nextNotificationId + 1
    /\ notificationHistory' =
         [n \in DOMAIN notificationHistory \cup {observation.index} |->
            IF n = observation.index THEN result ELSE notificationHistory[n]]
    /\ processed' = Append(processed, observation.index)
    /\ NextObservation
    /\ UNCHANGED <<nextSetId, plannedValidators, Unaffected>>

submit_observation ==
    \/ ObservationFails
    \/ ObservationCounts
    \/ UpdateValidatorSet
    \/ \E result \in Results : ProcessNotification(result)

-----------------------------------------------------------------------------
\* Calls of the root origin.

force_set_is_activated(b) ==
    /\ BetweenExtrinsics
    /\ isActivated' = b
    /\ UNCHANGED <<mainchainVars, counterVars, voteVars, eraVars, workerVars,
                   extrinsicVars, forces>>

RootChange ==
    /\ BetweenExtrinsics
    /\ forces < MaxForces
    /\ forces' = forces + 1
    /\ UNCHANGED <<mainchainVars, isActivated, notificationHistory, processed,
                   voteVars, eraVars, workerVars, extrinsicVars>>

force_set_next_set_id(s) ==
    /\ RootChange
    /\ nextSetId' = s
    /\ UNCHANGED <<plannedValidators, nextNotificationId>>

force_set_planned_validators ==
    /\ RootChange
    /\ plannedValidators' = ForcedSet
    /\ UNCHANGED <<nextSetId, nextNotificationId>>

force_set_next_notification_id(n) ==
    /\ RootChange
    /\ nextNotificationId' = n
    /\ UNCHANGED <<nextSetId, plannedValidators>>

-----------------------------------------------------------------------------
\* What happens without the intervention of the root origin, apart from the
\* activation, which nothing else can bring about.
Operation ==
    \/ PublishValidatorSet
    \/ PublishNotification
    \/ \E e \in Eras : NewEra(e)
    \/ \E v \in Validators : StartRun(v)
    \/ \E v \in Validators : observing_mainchain(v)
    \/ \E p \in pool : Drop(p)
    \/ \E p \in pool : submit_observations(p)
    \/ submit_observation
    \/ \E b \in BOOLEAN : force_set_is_activated(b)

Governance ==
    \/ \E s \in ForcedIds : force_set_next_set_id(s)
    \/ force_set_planned_validators
    \/ \E n \in ForcedIds : force_set_next_notification_id(n)

Next == Operation \/ Governance

Spec == Init /\ [][Next]_vars

\* The chain executes the extrinsics of its blocks. A validator's node is up
\* and follows the chain again and again, an endpoint with the whole state of
\* the mainchain answers again and again while the pool has room for the
\* validator, and what a validator submits again and again is not always
\* dropped from the pool.
OperationFairness ==
    /\ WF_vars(submit_observation)
    /\ \A v \in Validators :
        /\ SF_vars(StartRun(v))
        /\ SF_vars(~Pooled(v) /\ \E r \in running :
                     r.by = v /\ EndRun(r, publishedSets, published))
        /\ \A obs \in Observation :
             SF_vars(\E p \in pool : /\ p.by = v /\ p.observations[1] = obs
                                     /\ submit_observations(p) /\ p \notin pool')

OperationSpec == Init /\ [][Operation]_vars
FairSpec == OperationSpec /\ OperationFairness
-----------------------------------------------------------------------------
\* The two maps of the votes go together, whatever fails and is rolled back:
\* Observations lists exactly what somebody votes for in Observing, and only
\* what the mainchain has published.
VotesAreConsistent ==
    /\ observations = {obs \in Observation : observing[obs] # {}}
    /\ \A obs \in observations :
        IF IsSetUpdate(obs) THEN obs.index <= publishedSets ELSE obs.index < published

\* The notifications are processed in order, each exactly once, although
\* every vote may be the deciding one, payloads overlap, come late, come
\* twice and the stake changes with the era; NextNotificationId counts them.
ProcessedInOrder ==
    /\ Len(processed) = nextNotificationId
    /\ \A i \in 1..Len(processed) : processed[i] = i - 1
    /\ DOMAIN notificationHistory = 0..nextNotificationId - 1

\* Why they are: who votes for a notification that is still to be processed
\* votes for all the earlier ones that are. The voter whose extrinsic is being
\* executed does so up to its current position.
VotesAreNested ==
    \A i, j \in NotificationIds : nextNotificationId <= i /\ i < j =>
        observing[Notification(j)] \subseteq observing[Notification(i)]

\* The planned validators are those of the set before NextSetId, and that set
\* has been published.
PlannedIsLatest ==
    /\ plannedValidators = nextSetId - 1
    /\ nextSetId - 1 <= publishedSets

\* The recorded result of a notification is final: it is not processed again.
ResultsAreFinal ==
    [][\A n \in DOMAIN notificationHistory :
         /\ n \in DOMAIN notificationHistory'
         /\ notificationHistory'[n] = notificationHistory[n]]_vars

Delivery == INSTANCE MainchainDelivery WITH
    delivered <- processed, currentSet <- nextSetId - 1

\* The votes implement the delivery that MainchainDelivery specifies.
ImplementsDelivery == Delivery!DeliverySpec

\* With the appchain active, everything that is published takes effect: a
\* lost, late or repeated transaction delays it only.
EverythingTakesEffect ==
    <>[](isActivated /\ era # None) =>
        /\ \A n \in NotificationIds : (published > n) ~> (nextNotificationId > n)
        /\ \A s \in SetIds : (publishedSets >= s) ~> (nextSetId > s)
=============================================================================
