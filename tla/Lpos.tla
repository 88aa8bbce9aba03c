-------------------------------- MODULE Lpos --------------------------------
(***************************************************************************)
(* The pallet octopus-lpos: eras made of sessions. pallet_session rotates  *)
(* the sessions and calls end_session, start_session and new_session, one  *)
(* after the other, while a block is initialised; the extrinsics of the    *)
(* block follow and on_finalize closes it. `phase` is the place inside     *)
(* this cycle:                                                             *)
(*                                                                         *)
(*   between -> (ended -> started ->) block -> between                     *)
(*                                                                         *)
(* An era is planned one session before it becomes active; its number on   *)
(* the mainchain (set_id) is read when it becomes active.                  *)
(***************************************************************************)
EXTENDS Integers, Sequences, FiniteSets, Functions

CONSTANTS
    Validators,
    ValidatorSets,      \* ValidatorSets[k]: the set number k of the mainchain
    MaxSetId,           \* bound: the last of these sets
    MaxId,              \* 2^32 - 1 in the code
    SessionsPerEra,
    BondingDuration,
    HistoryDepths,      \* the depths the genesis and the root may choose
    Payouts,            \* the values of EraPayout they may choose
    Activations,        \* the values root may give to IsActivated
    ForcedIds,          \* those it may give to NextSetId
    ForcedSets,         \* and those it may give to PlannedValidators
    QueueMayRefuse,     \* upward-messages may refuse a message
    SetsArriveLate,     \* a set may arrive after the next era was planned
    MaxSession,         \* bound: sessions that are observed
    MaxPoints,          \* bound: reward points of an era
    MaxOffences         \* bound: offences that are observed

ASSUME LposAssumption ==
    /\ IsFiniteSet(Validators)
    /\ SessionsPerEra \in Nat /\ SessionsPerEra >= 2
    /\ BondingDuration \in Nat
    /\ MaxSetId \in Nat /\ MaxId \in Nat /\ MaxSetId < MaxId /\ MaxSession \in Nat
    /\ MaxPoints \in Nat /\ MaxOffences \in Nat
    /\ ValidatorSets \in [0..MaxSetId -> (SUBSET Validators) \ {{}}]
    /\ HistoryDepths \subseteq Nat
    /\ Payouts \subseteq Nat
    /\ Activations \subseteq BOOLEAN
    /\ ForcedIds \subseteq 0..MaxId
    /\ ForcedSets \subseteq (SUBSET Validators) \ {{}}
    /\ QueueMayRefuse \in BOOLEAN
    /\ SetsArriveLate \in BOOLEAN

VARIABLES
    phase,
    session,            \* pallet_session's CurrentIndex,
    sessionValidators,  \*   its Validators
    queuedValidators,   \*   and its QueuedKeys
    isActivated,        \* the appchain pallet's IsActivated
    nextSetId,          \*   its NextSetId
    plannedValidators,  \*   and PlannedValidators
    currentEra,         \* CurrentEra: the last era planned
    activeEra,          \* ActiveEra
    eras,               \* the Eras... maps, by the index of the era
    bondedEras,         \* BondedEras
    historyDepth,       \* HistoryDepth
    eraPayout,          \* EraPayout
    offenders,          \* Offenders, one kind of offence
    minted,             \* what end_era has deposited on the pallet's account
    messages,           \* history: the messages octopus-upward-messages took
    accepted,           \* history: the offences that passed the filter
    inStep              \* history: where root's forcing has not mixed up the numbers

sessionVars == <<session, sessionValidators, queuedValidators>>
appchainVars == <<isActivated, nextSetId, plannedValidators>>
settingVars == <<historyDepth, eraPayout>>
eraVars == <<currentEra, activeEra, eras, bondedEras>>
offenceVars == <<offenders, accepted>>

vars == <<phase, sessionVars, appchainVars, settingVars, eraVars, offenceVars,
          minted, messages, inStep>>

Unset == -1

\* What the Eras... maps hold of one era. ErasTotalStake, a sum nobody reads,
\* and the stakes, which only label the keys of ErasStakers, are left out; a
\* validator has an entry in points exactly when it has one point or more.
EraInfo == [start   : Nat \cup {Unset},     \* ErasStartSessionIndex
            stakers : SUBSET Validators,    \* the keys of ErasStakers
            points  : [Validators -> Nat],  \* ErasRewardPoints
            reward  : Nat \cup {Unset}]     \* ErasValidatorReward

NoPoints == [v \in Validators |-> 0]
Cleared == [start |-> Unset, stakers |-> {}, points |-> NoPoints, reward |-> Unset]
Info(era) == IF era \in DOMAIN eras THEN eras[era] ELSE Cleared
With(era, info) == [e \in DOMAIN eras \cup {era} |-> IF e = era THEN info ELSE eras[e]]
Without(old) == [e \in DOMAIN eras \ old |-> eras[e]]

StartOf(era) == Info(era).start

PlanNewEra(id) == [type |-> "PlanNewEra", new_era |-> id]
PayoutMessage(id, excluded, list) ==
    [type |-> "EraPayout", end_era |-> id, excluded |-> excluded, offenders |-> list]
Message == [type : {"PlanNewEra"}, new_era : Nat]
           \cup [type : {"EraPayout"}, end_era : Nat, excluded : SUBSET Validators,
                 offenders : [Validators -> Nat]]
Offence == [session : Nat, era : Nat, who : SUBSET Validators]

TypeOK ==
    /\ phase \in {"between", "ended", "started", "block"}
    /\ session \in Nat
    /\ sessionValidators \subseteq Validators /\ queuedValidators \subseteq Validators
    /\ isActivated \in BOOLEAN
    /\ nextSetId \in 0..MaxId
    /\ plannedValidators \in (SUBSET Validators) \ {{}}
    /\ currentEra \in Nat
    /\ activeEra \in [index : Nat, set_id : 0..MaxId, started : BOOLEAN]
    /\ DOMAIN eras \subseteq 0..currentEra
    /\ \A era \in DOMAIN eras : eras[era] \in EraInfo
    /\ bondedEras \in Seq(Nat \X Nat)
    /\ historyDepth \in HistoryDepths
    /\ eraPayout \in Payouts
    /\ offenders \in [Validators -> Nat]
    /\ minted \in Nat
    /\ messages \in Seq(Message)
    /\ accepted \in Seq(Offence)
    /\ inStep \in [planned : BOOLEAN, next : BOOLEAN, active : BOOLEAN]
-----------------------------------------------------------------------------
\* The genesis: the appchain pallet holds set 0, pallet_session plans the
\* sessions 0 and 1, which plans era 0, and starts session 0.
Init ==
    /\ phase = "between"
    /\ session = 0
    /\ sessionValidators = ValidatorSets[0]
    /\ queuedValidators = ValidatorSets[0]
    /\ isActivated = FALSE
    /\ nextSetId = 1 /\ plannedValidators = ValidatorSets[0]
    /\ currentEra = 0
    /\ activeEra = [index |-> 0, set_id |-> 0, started |-> FALSE]
    /\ eras = [e \in {0} |-> [Cleared EXCEPT !.start = 0, !.stakers = ValidatorSets[0]]]
    /\ bondedEras = << <<0, 0>> >>
    /\ historyDepth \in HistoryDepths
    /\ eraPayout \in Payouts
    /\ offenders = NoPoints
    /\ minted = 0
    /\ messages = <<>>
    /\ accepted = <<>>
    /\ inStep = [planned |-> TRUE, next |-> TRUE, active |-> TRUE]

\* submit of octopus-upward-messages: the message is taken, or refused
\* because the queue is full. The callers here ignore the refusal.
Submit(message) ==
    \/ messages' = Append(messages, message)
    \/ QueueMayRefuse /\ UNCHANGED messages
-----------------------------------------------------------------------------
\* The end of a session.

TotalPoints(info) == SumFunction(info.points)

\* Buggy variant: the share of all instead of that of one.
ExpectedOfAll(info) == (TotalPoints(info) * 80) \div 100
ExpectedPoints(info) == ((TotalPoints(info) \div Cardinality(info.stakers)) * 80) \div 100

Authors(info) == {v \in Validators : info.points[v] > 0}

get_exclude_validators(info) ==
    IF Authors(info) = {} THEN info.stakers
    ELSE info.stakers \ {v \in Authors(info) : info.points[v] >= ExpectedPoints(info)}

EraEnds == StartOf(activeEra.index + 1) = session + 1

EraIsPaid ==
    /\ isActivated /\ eraPayout # 0
    /\ activeEra.started
    /\ Info(activeEra.index).reward = Unset

\* Definitions under the heading "Buggy variant" are not part of the
\* specification: they are used only to show that the properties can fail.

\* Buggy variants: the reward goes to the era planned last, or the offenders are
\* reported and kept.
EndEraOfThePlanned ==
    LET ended == Info(currentEra) IN
    IF EraIsPaid
    THEN /\ eras' = With(currentEra, [ended EXCEPT !.reward = eraPayout])
         /\ offenders' = NoPoints
         /\ minted' = minted + eraPayout
         /\ Submit(PayoutMessage(activeEra.set_id, get_exclude_validators(ended), offenders))
    ELSE UNCHANGED <<eras, offenders, minted, messages>>

EndEraKeepingOffenders ==
    LET ended == Info(activeEra.index) IN
    IF EraIsPaid
    THEN /\ eras' = With(activeEra.index, [ended EXCEPT !.reward = eraPayout])
         /\ minted' = minted + eraPayout
         /\ Submit(PayoutMessage(activeEra.set_id, get_exclude_validators(ended), offenders))
         /\ UNCHANGED offenders
    ELSE UNCHANGED <<eras, offenders, minted, messages>>

end_era ==
    LET ended == Info(activeEra.index) IN
    IF EraIsPaid
    THEN /\ eras' = With(activeEra.index, [ended EXCEPT !.reward = eraPayout])
         /\ offenders' = NoPoints
         /\ minted' = minted + eraPayout
         /\ Submit(PayoutMessage(activeEra.set_id, get_exclude_validators(ended), offenders))
    ELSE UNCHANGED <<eras, offenders, minted, messages>>

end_session ==
    /\ phase = "between" /\ session < MaxSession
    /\ phase' = "ended"
    /\ IF EraEnds THEN end_era ELSE UNCHANGED <<eras, offenders, minted, messages>>
    /\ UNCHANGED <<sessionVars, appchainVars, settingVars, currentEra, activeEra,
                   bondedEras, accepted, inStep>>
-----------------------------------------------------------------------------
\* The start of the next one, with the validators that were queued for it.

\* Buggy variant: the number of the set that is still to come.
StartEraWithNextSet ==
    /\ activeEra' = [index |-> activeEra.index + 1, set_id |-> nextSetId,
                     started |-> FALSE]
    /\ inStep' = [inStep EXCEPT !.active = inStep.next]
    /\ bondedEras' = Append(bondedEras, <<activeEra.index + 1, session + 1>>)

\* BondedEras grows by one; the old entries are counted but never removed. The
\* subtraction wraps around below zero.
start_era ==
    /\ activeEra' = [index |-> activeEra.index + 1,
                     set_id |-> IF nextSetId = 0 THEN MaxId ELSE nextSetId - 1,
                     started |-> FALSE]
    /\ inStep' = [inStep EXCEPT !.active = inStep.next]
    /\ bondedEras' = Append(bondedEras, <<activeEra.index + 1, session + 1>>)

\* Buggy variant: the era starts one session late.
EraStartsLate == StartOf(activeEra.index + 1) \in 0..session
EraStarts == StartOf(activeEra.index + 1) \in 0..(session + 1)

start_session ==
    /\ phase = "ended"
    /\ phase' = "started"
    /\ session' = session + 1
    /\ sessionValidators' = queuedValidators
    /\ IF EraStarts THEN start_era ELSE UNCHANGED <<activeEra, bondedEras, inStep>>
    /\ UNCHANGED <<queuedValidators, appchainVars, settingVars, currentEra, eras,
                   offenceVars, minted, messages>>
-----------------------------------------------------------------------------
\* The planning of the session after it, with a new era when it is due.

CurrentEraStart == IF StartOf(currentEra) = Unset THEN 0 ELSE StartOf(currentEra)
EraLength == IF session + 1 < CurrentEraStart THEN 0 ELSE session + 1 - CurrentEraStart

clear_era_information(old) == Without(old)

\* The session and the validators of a new era; the rest of its entry stays.
store_stakers_info(info, stakers) ==
    [start |-> session + 1, stakers |-> stakers, points |-> info.points,
     reward |-> info.reward]

\* Buggy variant: the old era is not cleared.
trigger_new_era_keeping_all ==
    LET new == currentEra + 1
    IN  /\ currentEra' = new
        /\ eras' = With(new, store_stakers_info(Info(new), plannedValidators))
        /\ queuedValidators' = plannedValidators
        /\ inStep' = [inStep EXCEPT !.next = inStep.planned]

\* Buggy variant: CurrentEra is not raised.
trigger_new_era_uncounted ==
    LET new == currentEra + 1
        old == {new - (historyDepth + 1)}
    IN  /\ eras' = [e \in (DOMAIN eras \ old) \cup {new} |->
                      IF e = new THEN store_stakers_info(Info(new), plannedValidators)
                                 ELSE eras[e]]
        /\ queuedValidators' = plannedValidators
        /\ inStep' = [inStep EXCEPT !.next = inStep.planned]
        /\ UNCHANGED currentEra

\* The era that leaves the window is cleared, the new one is stored.
trigger_new_era ==
    LET new == currentEra + 1
        old == {new - (historyDepth + 1)}
    IN  /\ currentEra' = new
        /\ eras' = [e \in (DOMAIN eras \ old) \cup {new} |->
                      IF e = new THEN store_stakers_info(Info(new), plannedValidators)
                                 ELSE eras[e]]
        /\ queuedValidators' = plannedValidators
        /\ inStep' = [inStep EXCEPT !.next = inStep.planned]

new_session ==
    /\ phase = "started"
    /\ phase' = "block"
    /\ IF EraLength >= SessionsPerEra
       THEN trigger_new_era /\ UNCHANGED messages
       ELSE /\ UNCHANGED <<currentEra, eras, inStep>>
            /\ queuedValidators' = sessionValidators
            /\ IF isActivated /\ EraLength = SessionsPerEra - 1
               THEN Submit(PlanNewEra(nextSetId))
               ELSE UNCHANGED messages
    /\ UNCHANGED <<session, sessionValidators, appchainVars, settingVars, activeEra,
                   bondedEras, offenceVars, minted>>
-----------------------------------------------------------------------------
\* Inside a block.

ContinueSession ==
    /\ phase = "between" /\ phase' = "block"
    /\ UNCHANGED <<sessionVars, appchainVars, settingVars, eraVars, offenceVars,
                   minted, messages, inStep>>

on_finalize ==
    /\ phase = "block" /\ phase' = "between"
    /\ activeEra' = [activeEra EXCEPT !.started = TRUE]
    /\ UNCHANGED <<sessionVars, appchainVars, settingVars, currentEra, eras, bondedEras,
                   offenceVars, minted, messages, inStep>>

Extrinsic == phase = "block" /\ UNCHANGED <<phase, sessionVars>>

\* The author of a block is a validator of the session.
note_author(v) ==
    LET info == Info(activeEra.index) IN
    /\ Extrinsic
    /\ v \in sessionValidators /\ TotalPoints(info) < MaxPoints
    /\ eras' = With(activeEra.index, [info EXCEPT !.points[v] = @ + 1])
    /\ UNCHANGED <<appchainVars, settingVars, currentEra, activeEra, bondedEras,
                   offenceVars, minted, messages, inStep>>

\* The eras of the range last_kept..new_last_kept - 1 of the code.
ErasToClear(depth) == {e \in DOMAIN eras : /\ e >= currentEra - historyDepth
                                           /\ e < currentEra - depth}

set_history_depth(depth) ==
    /\ Extrinsic
    /\ eras' = clear_era_information(ErasToClear(depth))
    /\ historyDepth' = depth
    /\ UNCHANGED <<appchainVars, eraPayout, currentEra, activeEra, bondedEras,
                   offenceVars, minted, messages, inStep>>

force_set_era_payout(payout) ==
    /\ Extrinsic
    /\ eraPayout' = payout
    /\ UNCHANGED <<appchainVars, historyDepth, eraVars, offenceVars, minted, messages, inStep>>

\* The filter of the offences, before which pallet_offences may refuse a
\* report as a duplicate: then nothing happens.
InBondingPeriod(offenceSession) ==
    bondedEras # <<>> /\ offenceSession >= Head(bondedEras)[2]

report_offence(offenceSession, who) ==
    /\ Extrinsic
    /\ Len(accepted) < MaxOffences
    /\ InBondingPeriod(offenceSession)
    /\ offenders' = [v \in Validators |-> IF v \in who THEN offenders[v] + 1 ELSE offenders[v]]
    /\ accepted' = Append(accepted, [session |-> offenceSession, era |-> activeEra.index,
                                     who |-> who])
    /\ UNCHANGED <<appchainVars, settingVars, eraVars, minted, messages, inStep>>

\* The appchain pallet: a set of the mainchain, which prepares the one it was
\* asked for, arrives and becomes the planned one; the root (de)activates the
\* appchain, and forces numbers and validators.
Asked(id) == \E i \in DOMAIN messages : messages[i] = PlanNewEra(id)
NewSetArrives ==
    /\ Extrinsic
    /\ nextSetId <= MaxSetId /\ Asked(nextSetId)
    /\ SetsArriveLate \/ currentEra = activeEra.index
    /\ nextSetId' = nextSetId + 1
    /\ plannedValidators' = ValidatorSets[nextSetId]
    /\ inStep' = [inStep EXCEPT !.planned = TRUE]
    /\ UNCHANGED <<isActivated, settingVars, eraVars, offenceVars, minted, messages>>

force_set_is_activated(value) ==
    /\ Extrinsic
    /\ isActivated' = value
    /\ UNCHANGED <<nextSetId, plannedValidators, settingVars, eraVars, offenceVars,
                   minted, messages, inStep>>

\* The number is read once more for an era that was planned and has not started.
force_set_next_set_id(id) ==
    /\ Extrinsic
    /\ nextSetId' = id
    /\ inStep' = [inStep EXCEPT !.planned = FALSE, !.next = FALSE]
    /\ UNCHANGED <<isActivated, plannedValidators, settingVars, eraVars, offenceVars,
                   minted, messages>>

force_set_planned_validators(validators) ==
    /\ Extrinsic
    /\ plannedValidators' = validators
    /\ inStep' = [inStep EXCEPT !.planned = FALSE]
    /\ UNCHANGED <<isActivated, nextSetId, settingVars, eraVars, offenceVars,
                   minted, messages>>

\* What pallet_session calls when it rotates the sessions.
SessionManager == end_session \/ start_session \/ new_session

Next ==
    \/ SessionManager
    \/ ContinueSession
    \/ on_finalize
    \/ \E v \in Validators : note_author(v)
    \/ \E depth \in HistoryDepths : set_history_depth(depth)
    \/ \E payout \in Payouts : force_set_era_payout(payout)
    \/ \E s \in 0..session, who \in (SUBSET Validators) \ {{}} : report_offence(s, who)
    \/ NewSetArrives
    \/ \E value \in Activations : force_set_is_activated(value)
    \/ \E id \in ForcedIds : force_set_next_set_id(id)
    \/ \E validators \in ForcedSets : force_set_planned_validators(validators)

Spec == Init /\ [][Next]_vars
-----------------------------------------------------------------------------
\* An era lasts exactly SessionsPerEra sessions: era e starts with session
\* e * SessionsPerEra, at most one era is planned ahead of the active one,
\* for the very next session, and the active era is never overdue. So
\* start_session never meets an era that was skipped, and new_session always
\* knows when the era it measures began.
ErasKeepStep ==
    /\ \A era \in DOMAIN eras : StartOf(era) = era * SessionsPerEra
    /\ \A i \in DOMAIN bondedEras : bondedEras[i] = <<i - 1, (i - 1) * SessionsPerEra>>
    /\ Len(bondedEras) = activeEra.index + 1
    /\ currentEra \in {activeEra.index, activeEra.index + 1}
    /\ currentEra > activeEra.index => StartOf(currentEra) = session + 1
    /\ activeEra.index * SessionsPerEra <= session
    /\ session < (activeEra.index + 1) * SessionsPerEra

\* The history holds the planned and the active era with their validators, and
\* nothing older than historyDepth eras, whatever root did to the depth.
HistoryIsAWindow ==
    /\ {activeEra.index, currentEra} \subseteq DOMAIN eras
    /\ DOMAIN eras \subseteq (currentEra - historyDepth)..currentEra
    /\ \A era \in {activeEra.index, currentEra} : Info(era).stakers # {}

\* The validators of the session are those of the active era, as they were
\* planned, although they travel through the queue of pallet_session.
SessionIsOfActiveEra == sessionValidators = Info(activeEra.index).stakers

\* A reward is recorded for an era only when the era is over.
NoEarlyReward ==
    \A era \in DOMAIN eras :
      eras[era].reward # Unset =>
        era < activeEra.index \/ (era = activeEra.index /\ phase = "ended")

\* No era ends unpaid while the appchain is active and pays, money appears only
\* for an era that is recorded with this sum at the same moment, and what was
\* recorded for an era stays until the era leaves the history.
EveryEraIsPaidOnce ==
    [][/\ activeEra'.index # activeEra.index /\ activeEra.started
            /\ isActivated /\ eraPayout # 0
            => Info(activeEra.index).reward = eraPayout
       /\ minted' # minted
            => /\ Info(activeEra.index).reward = Unset
               /\ minted' = minted + eras'[activeEra.index].reward
       /\ \A era \in DOMAIN eras \cap DOMAIN eras' :
            eras[era].reward # Unset => eras'[era].reward = eras[era].reward]_vars

\* A payout names as excluded only validators of the era it ends, each of them
\* without a block or below four fifths of the average; and never all of
\* them when one of them made a block.
PayoutIsFair ==
    messages' # messages /\ messages'[Len(messages')].type = "EraPayout" =>
      LET info == Info(activeEra.index)
          excluded == messages'[Len(messages')].excluded
      IN  /\ excluded \subseteq info.stakers
          /\ \A v \in excluded :
                \/ info.points[v] = 0
                \/ 100 * Cardinality(info.stakers) * info.points[v] < 80 * TotalPoints(info)
          /\ Authors(info) # {} => excluded # info.stakers
ExclusionIsFair == [][PayoutIsFair]_vars

\* Offences are counted once: what passed the filter is still to be reported or
\* has been reported to the mainchain, as long as the queue takes every payout:
\* the offenders drained for one that it refuses are lost.
Accused(v) == Cardinality({i \in DOMAIN accepted : v \in accepted[i].who})
Offences(message, v) == IF message.type = "EraPayout" THEN message.offenders[v] ELSE 0
Reported(v) == SumFunction([i \in DOMAIN messages |-> Offences(messages[i], v)])
OffencesAreConserved ==
    \A v \in Validators : Accused(v) = offenders[v] + Reported(v)

\* "Disallow any slashing from before the current bonding period": no offence
\* passes the filter that is older than the eras still bonded when it came.
FirstBondedSession(era) ==
    IF era > BondingDuration THEN bondedEras[era - BondingDuration + 1][2] ELSE 0
OffencesAreOfBondedEras ==
    \A i \in DOMAIN accepted : accepted[i].session >= FirstBondedSession(accepted[i].era)

\* The "anchor era number" of the active era, with which the payout names the
\* era to the mainchain, is the number of the set that is in office. Forced
\* numbers and validators spoil only the eras that are planned, or started with
\* such a number, before the next set arrives: then the naming has healed.
AnchorEraIsNamed ==
    inStep.active => /\ activeEra.set_id \in 0..MaxSetId
                     /\ sessionValidators = ValidatorSets[activeEra.set_id]

\* The pallet implements the rotation of the validators: what is queued takes
\* office with the era it was planned for, and at no other moment.
Rotation == INSTANCE ValidatorRotation WITH
    inOffice <- sessionValidators,
    planned <- IF currentEra > activeEra.index THEN Info(currentEra).stakers ELSE {}
ImplementsRotation == Rotation!RotationSpec
=============================================================================
