----------------------------- MODULE LposProofs -----------------------------
(***************************************************************************)
(* Proofs about Lpos, for every set of validators, length of an era and    *)
(* bound. What concerns the clock of the eras needs that the history is    *)
(* never emptied by a depth of 0, with which the active era is cleared as  *)
(* soon as the next one is planned: they assume 0 \notin HistoryDepths.    *)
(***************************************************************************)
EXTENDS Lpos, SumTheorems, SequenceTheorems, TLAPS

\* The types, with the part of the clock that keeps the domain of eras.
TypeInv ==
    /\ TypeOK
    /\ activeEra.index <= currentEra

LEMMA NoPointsType == NoPoints \in [Validators -> Nat]
BY DEF NoPoints

LEMMA ClearedType == Cleared \in EraInfo
BY NoPointsType DEF Cleared, EraInfo, Unset

\* What is read of an era has its type, recorded or not.
LEMMA InfoType ==
    ASSUME TypeInv, NEW era
    PROVE  Info(era) \in EraInfo
BY ClearedType DEF TypeInv, TypeOK, Info

\* The three ways in which the pallet changes what it knows of an era.
LEMMA ChangedType ==
    ASSUME NEW info \in EraInfo
    PROVE  /\ \A reward \in Nat : [info EXCEPT !.reward = reward] \in EraInfo
           /\ \A stakers \in SUBSET Validators : session \in Nat =>
                store_stakers_info(info, stakers) \in EraInfo
           /\ \A v \in Validators : [info EXCEPT !.points[v] = @ + 1] \in EraInfo
<1>1. ASSUME NEW reward \in Nat
      PROVE  [info EXCEPT !.reward = reward] \in EraInfo
  BY DEF EraInfo
<1>2. ASSUME NEW stakers \in SUBSET Validators, session \in Nat
      PROVE  store_stakers_info(info, stakers) \in EraInfo
  BY <1>2 DEF EraInfo, store_stakers_info
<1>3. ASSUME NEW v \in Validators
      PROVE  [info EXCEPT !.points[v] = @ + 1] \in EraInfo
  <2>1. [info.points EXCEPT ![v] = @ + 1] \in [Validators -> Nat]
    BY DEF EraInfo
  <2>2. [info EXCEPT !.points = [info.points EXCEPT ![v] = @ + 1]] \in EraInfo
    BY <2>1 DEF EraInfo
  <2> QED
    BY <2>2
<1> QED
  BY <1>1, <1>2, <1>3

LEMMA ExcludedType ==
    ASSUME NEW info \in EraInfo
    PROVE  get_exclude_validators(info) \subseteq Validators
BY DEF get_exclude_validators, EraInfo

\* Recording an era that is planned keeps the domain in its range.
LEMMA WithType ==
    ASSUME TypeInv, NEW era \in 0..currentEra, NEW info \in EraInfo
    PROVE  /\ DOMAIN With(era, info) \subseteq 0..currentEra
           /\ \A e \in DOMAIN With(era, info) : With(era, info)[e] \in EraInfo
BY DEF TypeInv, TypeOK, With

LEMMA MessageTypes ==
    ASSUME TypeInv, NEW excluded \in SUBSET Validators
    PROVE  /\ PlanNewEra(nextSetId) \in Message
           /\ PayoutMessage(activeEra.set_id, excluded, offenders) \in Message
BY LposAssumption DEF TypeInv, TypeOK, PlanNewEra, PayoutMessage, Message

LEMMA SubmitType ==
    ASSUME TypeInv, NEW m \in Message, Submit(m)
    PROVE  messages' \in Seq(Message)
<1>1. messages \in Seq(Message)
  BY DEF TypeInv, TypeOK
<1>2. Append(messages, m) \in Seq(Message)
  BY <1>1, AppendProperties
<1> QED
  BY <1>1, <1>2 DEF Submit

LEMMA TypeInit == Init => TypeInv
<1> SUFFICES ASSUME Init PROVE TypeInv
  OBVIOUS
<1>1. ValidatorSets[0] \in SUBSET Validators
  BY LposAssumption
<1>2. [Cleared EXCEPT !.start = 0, !.stakers = ValidatorSets[0]] \in EraInfo
  BY <1>1, NoPointsType DEF Cleared, EraInfo, Unset
<1>3. DOMAIN eras = {0} /\ eras[0] \in EraInfo
  BY <1>2 DEF Init
<1>4. DOMAIN eras \subseteq 0..currentEra /\ \A era \in DOMAIN eras : eras[era] \in EraInfo
  BY <1>3 DEF Init
<1>5. messages \in Seq(Message) /\ accepted \in Seq(Offence)
  BY DEF Init
<1>6. bondedEras \in Seq(Nat \X Nat)
  BY DEF Init
<1>7. activeEra \in [index : Nat, set_id : 0..MaxId, started : BOOLEAN]
  BY LposAssumption DEF Init
<1>8. /\ nextSetId \in 0..MaxId
      /\ plannedValidators \in (SUBSET Validators) \ {{}}
      /\ inStep \in [planned : BOOLEAN, next : BOOLEAN, active : BOOLEAN]
  BY LposAssumption DEF Init
<1>9. activeEra.index <= currentEra
  BY DEF Init
<1>10. /\ sessionValidators \subseteq Validators /\ queuedValidators \subseteq Validators
       /\ phase = "between" /\ session = 0 /\ isActivated = FALSE /\ currentEra = 0
       /\ historyDepth \in HistoryDepths /\ eraPayout \in Payouts
       /\ offenders \in [Validators -> Nat] /\ minted = 0
  BY <1>1, NoPointsType DEF Init
<1> QED
  BY <1>9, <1>10, <1>4, <1>5, <1>6, <1>7, <1>8 DEF TypeInv, TypeOK

LEMMA TypeStep == TypeInv /\ [Next]_vars => TypeInv'
<1> SUFFICES ASSUME TypeInv, [Next]_vars PROVE TypeInv'
  OBVIOUS
<1> USE LposAssumption
<1>1. CASE end_session
  <2>1. CASE EraEnds /\ EraIsPaid
    <3> DEFINE ended == Info(activeEra.index)
               paid == [ended EXCEPT !.reward = eraPayout]
    <3>1. ended \in EraInfo
      BY InfoType
    <3>2. paid \in EraInfo
      BY <3>1 DEF TypeInv, TypeOK, EraInfo
    <3>3. eras' = With(activeEra.index, paid) /\ currentEra' = currentEra
      BY <1>1, <2>1 DEF end_session, end_era
    <3>4. activeEra.index \in 0..currentEra
      BY DEF TypeInv, TypeOK
    <3> HIDE DEF paid
    <3>5. DOMAIN eras' \subseteq 0..currentEra' /\ \A e \in DOMAIN eras' : eras'[e] \in EraInfo
      BY <3>2, <3>3, <3>4, WithType
    <3>6. get_exclude_validators(ended) \in SUBSET Validators
      BY <3>1, ExcludedType
    <3>7. Submit(PayoutMessage(activeEra.set_id, get_exclude_validators(ended), offenders))
      BY <1>1, <2>1 DEF end_session, end_era
    <3>8. messages' \in Seq(Message)
      BY <3>6, <3>7, MessageTypes, SubmitType
    <3>9. minted' \in Nat /\ offenders' \in [Validators -> Nat]
      <4>1. minted' = minted + eraPayout /\ offenders' = NoPoints
        BY <1>1, <2>1 DEF end_session, end_era
      <4>2. minted \in Nat /\ eraPayout \in Nat
        BY DEF TypeInv, TypeOK
      <4> QED
        BY <4>1, <4>2, NoPointsType
    <3> QED
      BY <1>1, <3>5, <3>8, <3>9
      DEF end_session, TypeInv, TypeOK, sessionVars, appchainVars, settingVars
  <2>2. CASE ~(EraEnds /\ EraIsPaid)
    BY <1>1, <2>2 DEF end_session, end_era, TypeInv, TypeOK, sessionVars, appchainVars,
                      settingVars
  <2> QED
    BY <2>1, <2>2
<1>2. CASE start_session
  <2>1. CASE EraStarts
    <3>1. activeEra.index + 1 \in DOMAIN eras
      BY <2>1 DEF EraStarts, StartOf, Info, Cleared, Unset, TypeInv, TypeOK
    <3>2. activeEra.index + 1 <= currentEra
      BY <3>1 DEF TypeInv, TypeOK
    <3>3. activeEra' \in [index : Nat, set_id : 0..MaxId, started : BOOLEAN]
          /\ activeEra'.index = activeEra.index + 1
      <4> DEFINE number == IF nextSetId = 0 THEN MaxId ELSE nextSetId - 1
      <4>1. number \in 0..MaxId /\ activeEra.index + 1 \in Nat
        BY DEF TypeInv, TypeOK
      <4>2. activeEra' = [index |-> activeEra.index + 1, set_id |-> number,
                          started |-> FALSE]
        BY <1>2, <2>1 DEF start_session, start_era
      <4> QED
        BY <4>1, <4>2
    <3>4. bondedEras' \in Seq(Nat \X Nat)
      <4>1. bondedEras' = Append(bondedEras, <<activeEra.index + 1, session + 1>>)
        BY <1>2, <2>1 DEF start_session, start_era
      <4>2. <<activeEra.index + 1, session + 1>> \in Nat \X Nat
        BY DEF TypeInv, TypeOK
      <4>3. bondedEras \in Seq(Nat \X Nat)
        BY DEF TypeInv, TypeOK
      <4> QED
        BY <4>1, <4>2, <4>3, AppendProperties
    <3>5. inStep' \in [planned : BOOLEAN, next : BOOLEAN, active : BOOLEAN]
      BY <1>2, <2>1 DEF start_session, start_era, TypeInv, TypeOK
    <3> QED
      BY <1>2, <3>2, <3>3, <3>4, <3>5
      DEF start_session, TypeInv, TypeOK, appchainVars, settingVars, offenceVars
  <2>2. CASE ~EraStarts
    BY <1>2, <2>2 DEF start_session, TypeInv, TypeOK, appchainVars, settingVars, offenceVars
  <2> QED
    BY <2>1, <2>2
<1>3. CASE new_session
  <2>1. CASE EraLength >= SessionsPerEra
    <3>0. trigger_new_era /\ messages' = messages
      BY <1>3, <2>1 DEF new_session
    <3> DEFINE new == currentEra + 1
               planned == store_stakers_info(Info(new), plannedValidators)
    <3>1. plannedValidators \in SUBSET Validators
      BY DEF TypeInv, TypeOK
    <3>2. planned \in EraInfo
      <4>1. Info(new) \in EraInfo
        BY InfoType
      <4> QED
        BY <3>1, <4>1, ChangedType DEF TypeInv, TypeOK
    <3>3. /\ currentEra' = new
          /\ DOMAIN eras' \subseteq (DOMAIN eras) \cup {new}
          /\ \A e \in DOMAIN eras' : eras'[e] = IF e = new THEN planned ELSE eras[e]
      BY <3>0 DEF trigger_new_era
    <3> HIDE DEF planned
    <3>4. DOMAIN eras' \subseteq 0..currentEra' /\ \A e \in DOMAIN eras' : eras'[e] \in EraInfo
      <4>1. currentEra \in Nat /\ DOMAIN eras \subseteq 0..currentEra
            /\ \A era \in DOMAIN eras : eras[era] \in EraInfo
        BY DEF TypeInv, TypeOK
      <4>2. 0..currentEra' = 0..currentEra \cup {new}
        BY <4>1, <3>3
      <4> HIDE DEF new
      <4> QED
        BY <3>2, <3>3, <4>1, <4>2
    <3> QED
      <4>1. /\ queuedValidators' = plannedValidators
            /\ inStep' \in [planned : BOOLEAN, next : BOOLEAN, active : BOOLEAN]
        BY <3>0 DEF trigger_new_era, TypeInv, TypeOK
      <4>2. activeEra'.index <= currentEra' /\ currentEra' \in Nat
        BY <1>3, <3>3 DEF new_session, TypeInv, TypeOK
      <4> QED
        BY <1>3, <3>0, <3>1, <3>4, <4>1, <4>2
        DEF new_session, TypeInv, TypeOK, appchainVars, settingVars, offenceVars
  <2>2. CASE ~(EraLength >= SessionsPerEra)
    <3>1. messages' \in Seq(Message)
      <4>1. CASE isActivated /\ EraLength = SessionsPerEra - 1
        <5>1. Submit(PlanNewEra(nextSetId))
          BY <1>3, <2>2, <4>1 DEF new_session
        <5>2. PlanNewEra(nextSetId) \in Message
          BY MessageTypes
        <5> QED
          BY <5>1, <5>2, SubmitType
      <4>2. CASE ~(isActivated /\ EraLength = SessionsPerEra - 1)
        BY <1>3, <2>2, <4>2 DEF new_session, TypeInv, TypeOK
      <4> QED
        BY <4>1, <4>2
    <3> QED
      BY <1>3, <2>2, <3>1
      DEF new_session, TypeInv, TypeOK, appchainVars, settingVars, offenceVars
  <2> QED
    BY <2>1, <2>2
<1>4. CASE ContinueSession
  BY <1>4 DEF ContinueSession, TypeInv, TypeOK, sessionVars, appchainVars, settingVars,
              eraVars, offenceVars
<1>5. CASE on_finalize
  <2>1. activeEra' \in [index : Nat, set_id : 0..MaxId, started : BOOLEAN]
        /\ activeEra'.index = activeEra.index
    BY <1>5 DEF on_finalize, TypeInv, TypeOK
  <2> QED
    BY <1>5, <2>1 DEF on_finalize, TypeInv, TypeOK, sessionVars, appchainVars, settingVars,
                      offenceVars
<1>6. ASSUME NEW v \in Validators, note_author(v)
      PROVE  TypeInv'
  <2> DEFINE info == Info(activeEra.index)
             scored == [info EXCEPT !.points[v] = @ + 1]
  <2>1. info \in EraInfo
    BY InfoType
  <2>2. scored \in EraInfo
    BY <2>1, ChangedType
  <2>3. eras' = With(activeEra.index, scored) /\ currentEra' = currentEra
    BY <1>6 DEF note_author
  <2>4. activeEra.index \in 0..currentEra
    BY DEF TypeInv, TypeOK
  <2> HIDE DEF scored
  <2>5. DOMAIN eras' \subseteq 0..currentEra' /\ \A e \in DOMAIN eras' : eras'[e] \in EraInfo
    BY <2>2, <2>3, <2>4, WithType
  <2> QED
    BY <1>6, <2>5 DEF note_author, Extrinsic, TypeInv, TypeOK, sessionVars, appchainVars,
                      settingVars, offenceVars
<1>7. ASSUME NEW depth \in HistoryDepths, set_history_depth(depth)
      PROVE  TypeInv'
  BY <1>7 DEF set_history_depth, clear_era_information, Without, Extrinsic, TypeInv, TypeOK,
              sessionVars, appchainVars, offenceVars
<1>8. ASSUME NEW payout \in Payouts, force_set_era_payout(payout)
      PROVE  TypeInv'
  BY <1>8 DEF force_set_era_payout, Extrinsic, TypeInv, TypeOK, sessionVars, appchainVars,
              eraVars, offenceVars
<1>9. ASSUME NEW s \in 0..session, NEW who \in (SUBSET Validators) \ {{}}, report_offence(s, who)
      PROVE  TypeInv'
  <2>1. offenders' \in [Validators -> Nat]
    <3>1. \A x \in Validators : offenders[x] \in Nat
      BY DEF TypeInv, TypeOK
    <3>2. offenders' = [x \in Validators |-> IF x \in who THEN offenders[x] + 1 ELSE offenders[x]]
      BY <1>9 DEF report_offence
    <3> QED
      BY <3>1, <3>2
  <2>2. accepted' \in Seq(Offence)
    <3>1. [session |-> s, era |-> activeEra.index, who |-> who] \in Offence
      BY DEF TypeInv, TypeOK, Offence
    <3> QED
      BY <1>9, <3>1 DEF report_offence, TypeInv, TypeOK
  <2> QED
    BY <1>9, <2>1, <2>2 DEF report_offence, Extrinsic, TypeInv, TypeOK, sessionVars,
                            appchainVars, settingVars, eraVars
<1>10. CASE NewSetArrives
  <2>1. nextSetId' \in 0..MaxId /\ plannedValidators' \in (SUBSET Validators) \ {{}}
    <3>1. /\ nextSetId \in Nat /\ nextSetId <= MaxSetId
          /\ nextSetId' = nextSetId + 1 /\ plannedValidators' = ValidatorSets[nextSetId]
      BY <1>10 DEF NewSetArrives, TypeInv, TypeOK
    <3>2. nextSetId \in 0..MaxSetId /\ nextSetId + 1 \in 0..MaxId
      BY <3>1
    <3>3. ValidatorSets[nextSetId] \in (SUBSET Validators) \ {{}}
      BY <3>2
    <3> QED
      BY <3>1, <3>2, <3>3
  <2>2. inStep' \in [planned : BOOLEAN, next : BOOLEAN, active : BOOLEAN]
    BY <1>10 DEF NewSetArrives, TypeInv, TypeOK
  <2> QED
    BY <1>10, <2>1, <2>2 DEF NewSetArrives, Extrinsic, TypeInv, TypeOK, sessionVars,
                             settingVars, eraVars, offenceVars
<1>11. ASSUME NEW value \in Activations, force_set_is_activated(value)
       PROVE  TypeInv'
  BY <1>11 DEF force_set_is_activated, Extrinsic, TypeInv, TypeOK, sessionVars, settingVars,
               eraVars, offenceVars
<1>12. ASSUME NEW id \in ForcedIds, force_set_next_set_id(id)
       PROVE  TypeInv'
  <2>1. inStep' \in [planned : BOOLEAN, next : BOOLEAN, active : BOOLEAN]
    BY <1>12 DEF force_set_next_set_id, TypeInv, TypeOK
  <2> QED
    BY <1>12, <2>1 DEF force_set_next_set_id, Extrinsic, TypeInv, TypeOK, sessionVars,
                       settingVars, eraVars, offenceVars
<1>13. ASSUME NEW validators \in ForcedSets, force_set_planned_validators(validators)
       PROVE  TypeInv'
  <2>1. inStep' \in [planned : BOOLEAN, next : BOOLEAN, active : BOOLEAN]
    BY <1>13 DEF force_set_planned_validators, TypeInv, TypeOK
  <2> QED
    BY <1>13, <2>1 DEF force_set_planned_validators, Extrinsic, TypeInv, TypeOK, sessionVars,
                       settingVars, eraVars, offenceVars
<1>14. CASE UNCHANGED vars
  BY <1>14 DEF vars, TypeInv, TypeOK, sessionVars, appchainVars, settingVars, eraVars,
               offenceVars
<1> QED
  BY <1>1, <1>2, <1>3, <1>4, <1>5, <1>6, <1>7, <1>8, <1>9, <1>10, <1>11, <1>12,
     <1>13, <1>14 DEF Next, SessionManager

\* The types, and with them: an era is never active before it was planned.
THEOREM TypeCorrect == Spec => []TypeOK
<1>1. TypeInv => TypeOK
  BY DEF TypeInv
<1> QED
  BY <1>1, TypeInit, TypeStep, PTL DEF Spec
-----------------------------------------------------------------------------
FirstSession(era) == era * SessionsPerEra

LEMMA FirstSessions ==
    /\ FirstSession(0) = 0
    /\ \A era \in Nat : /\ FirstSession(era) \in Nat
                        /\ FirstSession(era + 1) = FirstSession(era) + SessionsPerEra
BY LposAssumption DEF FirstSession

\* The history has the planned and the active era, inside its window.
WindowInv ==
    /\ currentEra \in {activeEra.index, activeEra.index + 1}
    /\ activeEra.index \in DOMAIN eras /\ currentEra \in DOMAIN eras
    /\ \A era \in DOMAIN eras : currentEra - historyDepth <= era /\ era <= currentEra
    /\ eras[activeEra.index].stakers # {} /\ eras[currentEra].stakers # {}

\* Where the session is inside the active era: the next era is planned when one
\* session is left, and inside the rotation it is never planned already when
\* new_session looks.
ClockInv ==
    /\ \A era \in DOMAIN eras : eras[era].start = FirstSession(era)
    /\ FirstSession(activeEra.index) <= session
    /\ IF phase = "started"
       THEN /\ currentEra = activeEra.index
            /\ session + 1 <= FirstSession(activeEra.index) + SessionsPerEra
       ELSE IF currentEra = activeEra.index
            THEN session + 1 < FirstSession(activeEra.index) + SessionsPerEra
            ELSE session + 1 = FirstSession(activeEra.index) + SessionsPerEra

BondedInv ==
    /\ Len(bondedEras) = activeEra.index + 1
    /\ \A i \in DOMAIN bondedEras : bondedEras[i] = <<i - 1, FirstSession(i - 1)>>

\* What pallet_session holds: the validators of the active era, and in its queue
\* those of the session that comes.
OfficeInv ==
    /\ sessionValidators = eras[activeEra.index].stakers
    /\ phase # "started" =>
         queuedValidators = IF currentEra = activeEra.index THEN sessionValidators
                                                            ELSE eras[currentEra].stakers

EraInv == TypeInv /\ WindowInv /\ ClockInv /\ BondedInv /\ OfficeInv

LEMMA EraInit == Init => EraInv
<1> SUFFICES ASSUME Init PROVE EraInv
  OBVIOUS
<1>1. TypeInv
  BY TypeInit
<1>2. /\ DOMAIN eras = {0} /\ eras[0].start = 0
      /\ eras[0].stakers = ValidatorSets[0]
  BY DEF Init, Cleared
<1>3. ValidatorSets[0] # {}
  BY LposAssumption
<1>4. WindowInv
  BY <1>1, <1>2, <1>3, LposAssumption DEF Init, WindowInv, TypeInv, TypeOK
<1>5. ClockInv
  BY <1>2, FirstSessions, LposAssumption DEF Init, ClockInv
<1>6. BondedInv
  BY FirstSessions DEF Init, BondedInv
<1>7. OfficeInv
  BY <1>2 DEF Init, OfficeInv
<1> QED
  BY <1>1, <1>4, <1>5, <1>6, <1>7 DEF EraInv

\* Steps that leave the starts and the validators of the eras alone.
SameEras ==
    /\ DOMAIN eras' = DOMAIN eras
    /\ \A era \in DOMAIN eras : /\ eras'[era].start = eras[era].start
                                /\ eras'[era].stakers = eras[era].stakers

\* Recording something else of an era of the history is such a step.
LEMMA WithSame ==
    ASSUME NEW era \in DOMAIN eras, NEW info, eras' = With(era, info),
           info.start = eras[era].start, info.stakers = eras[era].stakers
    PROVE  SameEras
BY DEF With, SameEras

LEMMA ScoreSame ==
    ASSUME NEW info \in EraInfo, NEW v \in Validators
    PROVE  LET scored == [info EXCEPT !.points[v] = @ + 1]
           IN  scored.start = info.start /\ scored.stakers = info.stakers
BY DEF EraInfo

\* Inside a block, and at its end, the clock stands still.
LEMMA QuietStep ==
    ASSUME EraInv, TypeInv', SameEras,
           UNCHANGED <<sessionVars, currentEra, bondedEras, historyDepth>>,
           activeEra'.index = activeEra.index,
           phase # "started", phase' # "started"
    PROVE  EraInv'
<1>1. WindowInv'
  BY DEF EraInv, WindowInv, SameEras
<1>2. ClockInv'
  BY DEF EraInv, ClockInv, SameEras, WindowInv, sessionVars
<1>3. BondedInv'
  BY DEF EraInv, BondedInv
<1>4. OfficeInv'
  BY DEF EraInv, WindowInv, OfficeInv, SameEras, sessionVars
<1> QED
  BY <1>1, <1>2, <1>3, <1>4 DEF EraInv

\* What end_era records is the reward of an era that stays as it was planned.
LEMMA EndSessionSame == ASSUME EraInv, end_session PROVE SameEras
<1>1. CASE EraEnds /\ EraIsPaid
  <2> DEFINE ended == Info(activeEra.index)
  <2>1. activeEra.index \in DOMAIN eras
    BY DEF EraInv, WindowInv
  <2>2. ended = eras[activeEra.index] /\ ended \in EraInfo
    BY <2>1 DEF Info, EraInv, TypeInv, TypeOK
  <2>3. eras' = With(activeEra.index, [ended EXCEPT !.reward = eraPayout])
    BY <1>1 DEF end_session, end_era
  <2>4. /\ [ended EXCEPT !.reward = eraPayout].start = ended.start
        /\ [ended EXCEPT !.reward = eraPayout].stakers = ended.stakers
    BY <2>2 DEF EraInfo
  <2> QED
    BY <2>1, <2>2, <2>3, <2>4, WithSame
<1>2. CASE ~(EraEnds /\ EraIsPaid)
  BY <1>2 DEF end_session, end_era, SameEras
<1> QED
  BY <1>1, <1>2

LEMMA EndSessionKeeps == ASSUME EraInv, TypeInv', end_session PROVE EraInv'
BY EndSessionSame, QuietStep DEF end_session, settingVars

LEMMA NoteAuthorSame ==
    ASSUME EraInv, NEW v \in Validators, note_author(v)
    PROVE  SameEras
<1> DEFINE info == Info(activeEra.index)
           scored == [info EXCEPT !.points[v] = @ + 1]
<1>1. activeEra.index \in DOMAIN eras
  BY DEF EraInv, WindowInv
<1>2. info = eras[activeEra.index] /\ info \in EraInfo
  BY <1>1 DEF Info, EraInv, TypeInv, TypeOK
<1>3. scored.start = info.start /\ scored.stakers = info.stakers
  BY <1>2, ScoreSame
<1>4. eras' = With(activeEra.index, scored)
  BY DEF note_author
<1> HIDE DEF scored
<1> QED
  BY <1>1, <1>2, <1>3, <1>4, WithSame

LEMMA SetHistoryDepthKeeps ==
    ASSUME EraInv, TypeInv', 0 \notin HistoryDepths,
           NEW depth \in HistoryDepths, set_history_depth(depth)
    PROVE  EraInv'
<1>1. /\ DOMAIN eras' = DOMAIN eras \ ErasToClear(depth)
      /\ \A era \in DOMAIN eras' : eras'[era] = eras[era]
      /\ historyDepth' = depth
      /\ UNCHANGED <<phase, sessionVars, currentEra, activeEra, bondedEras>>
  BY DEF set_history_depth, clear_era_information, Without, Extrinsic
<1>2. /\ depth \in Nat /\ depth >= 1
      /\ currentEra \in Nat /\ activeEra.index \in Nat /\ historyDepth \in Nat
      /\ DOMAIN eras \subseteq Nat
  <2>1. historyDepth \in HistoryDepths /\ currentEra \in Nat
        /\ activeEra.index \in Nat /\ DOMAIN eras \subseteq 0..currentEra
    BY DEF EraInv, TypeInv, TypeOK
  <2>2. depth \in Nat /\ depth # 0 /\ historyDepth \in Nat
    BY <2>1, LposAssumption
  <2> QED
    BY <2>1, <2>2
<1>3. activeEra.index \in DOMAIN eras' /\ currentEra \in DOMAIN eras'
  BY <1>1, <1>2 DEF ErasToClear, EraInv, WindowInv
<1>4. \A era \in DOMAIN eras' : currentEra - depth <= era /\ era <= currentEra
  BY <1>1, <1>2 DEF ErasToClear, EraInv, WindowInv
<1>5. WindowInv'
  BY <1>1, <1>3, <1>4 DEF EraInv, WindowInv
<1>6. ClockInv'
  BY <1>1, <1>3 DEF EraInv, ClockInv, sessionVars
<1>7. BondedInv' /\ OfficeInv'
  BY <1>1, <1>3 DEF EraInv, BondedInv, OfficeInv, sessionVars
<1> QED
  BY <1>5, <1>6, <1>7 DEF EraInv

LEMMA StartSessionKeeps == ASSUME EraInv, TypeInv', start_session PROVE EraInv'
<1> DEFINE next == activeEra.index + 1
<1>1. /\ phase = "ended" /\ phase' = "started" /\ session' = session + 1
      /\ sessionValidators' = queuedValidators
      /\ UNCHANGED <<queuedValidators, historyDepth, currentEra, eras>>
  BY DEF start_session, settingVars
<1>2. /\ session \in Nat /\ currentEra \in Nat /\ activeEra.index \in Nat
      /\ bondedEras \in Seq(Nat \X Nat) /\ SessionsPerEra \in Nat /\ SessionsPerEra >= 2
  BY LposAssumption DEF EraInv, TypeInv, TypeOK
<1>3. /\ FirstSession(next) = FirstSession(activeEra.index) + SessionsPerEra
      /\ FirstSession(activeEra.index) \in Nat
  BY <1>2, FirstSessions
<1>4. CASE currentEra = activeEra.index
  <2>1. next \notin DOMAIN eras
    BY <1>2, <1>4 DEF EraInv, WindowInv
  <2>2. ~EraStarts
    BY <2>1 DEF EraStarts, StartOf, Info, Cleared, Unset
  <2>3. activeEra' = activeEra /\ bondedEras' = bondedEras
    BY <2>2 DEF start_session
  <2>4. sessionValidators' = sessionValidators
    BY <1>1, <1>4 DEF EraInv, OfficeInv
  <2>5. ClockInv'
    BY <1>1, <1>2, <1>3, <1>4, <2>3 DEF EraInv, ClockInv
  <2> QED
    BY <1>1, <2>3, <2>4, <2>5 DEF EraInv, WindowInv, BondedInv, OfficeInv
<1>5. CASE currentEra = next
  <2>1. next \in DOMAIN eras /\ eras[next].start = FirstSession(next)
    BY <1>5 DEF EraInv, WindowInv, ClockInv
  <2>2. FirstSession(next) = session + 1
    BY <1>1, <1>2, <1>3, <1>5 DEF EraInv, ClockInv
  <2>3. EraStarts
    BY <1>2, <2>1, <2>2 DEF EraStarts, StartOf, Info
  <2>4. /\ activeEra' = [index |-> next, started |-> FALSE,
                       set_id |-> IF nextSetId = 0 THEN MaxId ELSE nextSetId - 1]
        /\ bondedEras' = Append(bondedEras, <<next, session + 1>>)
    BY <2>3 DEF start_session, start_era
  <2>5. activeEra'.index = next
    BY <2>4
  <2>6. WindowInv'
    BY <1>1, <1>5, <2>5 DEF EraInv, WindowInv
  <2>7. ClockInv'
    BY <1>1, <1>2, <1>3, <1>5, <2>2, <2>5 DEF EraInv, ClockInv
  <2>8. BondedInv'
    <3>1. Len(bondedEras) = next
      BY DEF EraInv, BondedInv
    <3>2. Len(bondedEras') = next + 1
      BY <1>2, <2>4, <3>1, AppendProperties
    <3>3. ASSUME NEW i \in 1..(next + 1)
          PROVE  bondedEras'[i] = <<i - 1, FirstSession(i - 1)>>
      <4>1. CASE i \in 1..next
        <5>1. bondedEras'[i] = bondedEras[i]
          BY <1>2, <2>4, <3>1, <4>1, AppendProperties
        <5>2. i \in DOMAIN bondedEras
          BY <1>2, <3>1, <4>1, LenProperties
        <5> QED
          BY <5>1, <5>2 DEF EraInv, BondedInv
      <4>2. CASE i = next + 1
        <5>1. bondedEras'[i] = <<next, session + 1>>
          BY <1>2, <2>4, <3>1, <4>2, AppendProperties
        <5>2. i - 1 = next
          BY <1>2, <4>2
        <5> QED
          BY <2>2, <5>1, <5>2
      <4> QED
        BY <1>2, <4>1, <4>2
    <3>4. DOMAIN bondedEras' = 1..(next + 1)
      <4>1. bondedEras' \in Seq(Nat \X Nat)
        BY DEF TypeInv, TypeOK
      <4> QED
        BY <3>2, <4>1, LenProperties
    <3> QED
      BY <2>5, <3>2, <3>3, <3>4 DEF BondedInv
  <2>9. OfficeInv'
    BY <1>1, <1>2, <1>5, <2>5 DEF EraInv, OfficeInv
  <2> QED
    BY <2>6, <2>7, <2>8, <2>9 DEF EraInv
<1> QED
  BY <1>4, <1>5 DEF EraInv, WindowInv

LEMMA NewSessionKeeps ==
    ASSUME EraInv, TypeInv', 0 \notin HistoryDepths, new_session
    PROVE  EraInv'
<1> DEFINE first == FirstSession(activeEra.index)
           new == currentEra + 1
<1>1. /\ phase = "started" /\ phase' = "block"
      /\ currentEra = activeEra.index
      /\ UNCHANGED <<session, sessionValidators, historyDepth, activeEra, bondedEras>>
  BY DEF new_session, settingVars, EraInv, ClockInv
<1>2. /\ session \in Nat /\ currentEra \in Nat
      /\ historyDepth \in Nat /\ historyDepth >= 1
      /\ SessionsPerEra \in Nat /\ SessionsPerEra >= 2 /\ first \in Nat
  <2>1. historyDepth \in HistoryDepths /\ session \in Nat /\ currentEra \in Nat
    BY DEF EraInv, TypeInv, TypeOK
  <2>2. historyDepth \in Nat /\ historyDepth # 0
    BY <2>1, LposAssumption
  <2>3. first \in Nat
    BY <1>1, <2>1, FirstSessions
  <2> QED
    BY <2>1, <2>2, <2>3, LposAssumption
<1>3. EraLength = session + 1 - first
  <2>1. currentEra \in DOMAIN eras /\ eras[currentEra].start = first
    BY <1>1 DEF EraInv, WindowInv, ClockInv
  <2>2. CurrentEraStart = first
    BY <1>2, <2>1 DEF CurrentEraStart, StartOf, Info, Unset
  <2>3. first <= session
    BY DEF EraInv, ClockInv
  <2> QED
    BY <1>2, <2>2, <2>3 DEF EraLength
<1>4. first <= session /\ session + 1 <= first + SessionsPerEra
  BY <1>1 DEF EraInv, ClockInv
<1>5. CASE EraLength >= SessionsPerEra
  <2>1. trigger_new_era
    BY <1>5 DEF new_session
  <2>2. session + 1 = first + SessionsPerEra
    BY <1>2, <1>3, <1>4, <1>5
  <2>3. /\ currentEra' = new
        /\ queuedValidators' = plannedValidators
        /\ DOMAIN eras' = (DOMAIN eras \ {new - (historyDepth + 1)}) \cup {new}
        /\ \A e \in DOMAIN eras' :
             eras'[e] = IF e = new THEN store_stakers_info(Info(new), plannedValidators)
                                   ELSE eras[e]
    BY <2>1 DEF trigger_new_era
  <2>4. /\ eras'[new].start = session + 1
        /\ eras'[new].stakers = plannedValidators
    BY <2>3 DEF store_stakers_info
  <2>5. activeEra.index \in DOMAIN eras' /\ eras'[activeEra.index] = eras[activeEra.index]
    BY <1>1, <1>2, <2>3 DEF EraInv, WindowInv
  <2>6. \A e \in DOMAIN eras' : currentEra' - historyDepth <= e /\ e <= currentEra'
    <3> SUFFICES ASSUME NEW e \in DOMAIN eras', e # new
                 PROVE  new - historyDepth <= e /\ e <= new
      BY <1>2, <2>3
    <3>1. e \in DOMAIN eras /\ e # new - (historyDepth + 1)
      BY <2>3
    <3>2. e \in Nat /\ currentEra - historyDepth <= e /\ e <= currentEra
      <4>1. DOMAIN eras \subseteq 0..currentEra
        BY DEF EraInv, TypeInv, TypeOK
      <4> QED
        BY <1>2, <3>1, <4>1 DEF EraInv, WindowInv
    <3> QED
      BY <1>2, <3>1, <3>2
  <2>7. plannedValidators # {}
    BY DEF EraInv, TypeInv, TypeOK
  <2>8. WindowInv'
    BY <1>1, <1>2, <2>3, <2>4, <2>5, <2>6, <2>7 DEF EraInv, WindowInv
  <2>9. ClockInv'
    <3>1. session + 1 = FirstSession(new)
      BY <1>1, <1>2, <2>2, FirstSessions
    <3>2. \A e \in DOMAIN eras' : eras'[e].start = FirstSession(e)
      BY <2>3, <2>4, <3>1 DEF EraInv, ClockInv
    <3> QED
      BY <1>1, <1>2, <1>4, <2>2, <2>3, <3>2 DEF ClockInv
  <2>10. BondedInv'
    BY <1>1 DEF EraInv, BondedInv
  <2>11. OfficeInv'
    BY <1>1, <1>2, <2>3, <2>4, <2>5 DEF EraInv, OfficeInv
  <2> QED
    BY <2>8, <2>9, <2>10, <2>11 DEF EraInv
<1>6. CASE ~(EraLength >= SessionsPerEra)
  <2>1. UNCHANGED <<currentEra, eras>> /\ queuedValidators' = sessionValidators
    BY <1>6 DEF new_session
  <2>2. session + 1 < first + SessionsPerEra
    BY <1>2, <1>3, <1>6
  <2> QED
    BY <1>1, <2>1, <2>2 DEF EraInv, WindowInv, ClockInv, BondedInv, OfficeInv
<1> QED
  BY <1>5, <1>6

LEMMA EraStep ==
    ASSUME 0 \notin HistoryDepths, EraInv, [Next]_vars
    PROVE  EraInv'
<1>0. TypeInv'
  BY TypeStep DEF EraInv
<1> USE DEF sessionVars, settingVars, eraVars, SameEras
<1>1. CASE end_session
  BY <1>0, <1>1, EndSessionKeeps
<1>2. CASE start_session
  BY <1>0, <1>2, StartSessionKeeps
<1>3. CASE new_session
  BY <1>0, <1>3, NewSessionKeeps
<1>4. CASE ContinueSession
  BY <1>0, <1>4, QuietStep DEF ContinueSession
<1>5. CASE on_finalize
  <2>1. activeEra'.index = activeEra.index
    BY <1>5 DEF on_finalize, EraInv, TypeInv, TypeOK
  <2> QED
    BY <1>0, <1>5, <2>1, QuietStep DEF on_finalize
<1>6. ASSUME NEW v \in Validators, note_author(v)
      PROVE  EraInv'
  BY <1>0, <1>6, NoteAuthorSame, QuietStep DEF note_author, Extrinsic
<1>7. ASSUME NEW depth \in HistoryDepths, set_history_depth(depth)
      PROVE  EraInv'
  BY <1>0, <1>7, SetHistoryDepthKeeps
<1>8. ASSUME NEW payout \in Payouts, force_set_era_payout(payout)
      PROVE  EraInv'
  BY <1>0, <1>8, QuietStep DEF force_set_era_payout, Extrinsic
<1>9. ASSUME NEW s \in 0..session, NEW who \in (SUBSET Validators) \ {{}}, report_offence(s, who)
      PROVE  EraInv'
  BY <1>0, <1>9, QuietStep DEF report_offence, Extrinsic
<1>10. CASE NewSetArrives
  BY <1>0, <1>10, QuietStep DEF NewSetArrives, Extrinsic
<1>11. ASSUME NEW value \in Activations, force_set_is_activated(value)
       PROVE  EraInv'
  BY <1>0, <1>11, QuietStep DEF force_set_is_activated, Extrinsic
<1>12. ASSUME NEW id \in ForcedIds, force_set_next_set_id(id)
       PROVE  EraInv'
  BY <1>0, <1>12, QuietStep DEF force_set_next_set_id, Extrinsic
<1>13. ASSUME NEW validators \in ForcedSets, force_set_planned_validators(validators)
       PROVE  EraInv'
  BY <1>0, <1>13, QuietStep DEF force_set_planned_validators, Extrinsic
<1>14. CASE UNCHANGED vars
  BY <1>0, <1>14 DEF vars, EraInv, WindowInv, ClockInv, BondedInv, OfficeInv
<1> QED
  BY <1>1, <1>2, <1>3, <1>4, <1>5, <1>6, <1>7, <1>8, <1>9, <1>10, <1>11, <1>12,
     <1>13, <1>14 DEF Next, SessionManager

\* Eras keep step with the sessions: while no era of the history is cleared
\* early, every era has its SessionsPerEra sessions, no era is skipped and no
\* more than one is planned ahead.
THEOREM ErasInStep ==
    ASSUME 0 \notin HistoryDepths
    PROVE  Spec => []ErasKeepStep
<1>1. EraInv => ErasKeepStep
  <2> SUFFICES ASSUME EraInv PROVE ErasKeepStep
    OBVIOUS
  <2>1. /\ activeEra.index \in Nat /\ session \in Nat /\ currentEra \in Nat
        /\ SessionsPerEra \in Nat /\ SessionsPerEra >= 2
    BY LposAssumption DEF EraInv, TypeInv, TypeOK
  <2>2. /\ FirstSession(activeEra.index + 1) = FirstSession(activeEra.index) + SessionsPerEra
        /\ FirstSession(activeEra.index) \in Nat
    BY <2>1, FirstSessions
  <2>3. \A era \in DOMAIN eras : StartOf(era) = FirstSession(era)
    BY DEF EraInv, ClockInv, StartOf, Info
  <2>4. session < FirstSession(activeEra.index + 1)
    BY <2>1, <2>2 DEF EraInv, ClockInv
  <2>5. currentEra > activeEra.index => StartOf(currentEra) = session + 1
    <3> SUFFICES ASSUME currentEra > activeEra.index PROVE StartOf(currentEra) = session + 1
      OBVIOUS
    <3>1. currentEra = activeEra.index + 1 /\ currentEra # activeEra.index
      BY <2>1 DEF EraInv, WindowInv
    <3>2. session + 1 = FirstSession(activeEra.index) + SessionsPerEra
      BY <3>1 DEF EraInv, ClockInv
    <3> QED
      BY <2>2, <2>3, <3>1, <3>2 DEF EraInv, WindowInv
  <2> QED
    BY <2>3, <2>4, <2>5
    DEF ErasKeepStep, FirstSession, EraInv, WindowInv, ClockInv, BondedInv
<1> QED
  BY <1>1, EraInit, EraStep, PTL DEF Spec

\* The history always has the active and the planned era, with validators, and
\* never an era older than its depth, whatever depths root chooses above 0.
THEOREM HistoryKept ==
    ASSUME 0 \notin HistoryDepths
    PROVE  Spec => []HistoryIsAWindow
<1>1. EraInv => HistoryIsAWindow
  <2> SUFFICES ASSUME EraInv PROVE HistoryIsAWindow
    OBVIOUS
  <2>1. /\ currentEra \in Nat /\ historyDepth \in Nat /\ DOMAIN eras \subseteq 0..currentEra
    BY LposAssumption DEF EraInv, TypeInv, TypeOK
  <2>2. DOMAIN eras \subseteq (currentEra - historyDepth)..currentEra
    BY <2>1 DEF EraInv, WindowInv
  <2> QED
    BY <2>2 DEF HistoryIsAWindow, EraInv, WindowInv, Info
<1> QED
  BY <1>1, EraInit, EraStep, PTL DEF Spec

\* The validators of a session are those planned for the active era.
THEOREM OfficeOfActiveEra ==
    ASSUME 0 \notin HistoryDepths
    PROVE  Spec => []SessionIsOfActiveEra
<1>1. EraInv => SessionIsOfActiveEra
  BY DEF EraInv, WindowInv, OfficeInv, SessionIsOfActiveEra, Info
<1> QED
  BY <1>1, EraInit, EraStep, PTL DEF Spec
-----------------------------------------------------------------------------
\* The number of a set, and the validators it names.
IsSet(id, validators) == id \in 0..MaxSetId /\ validators = ValidatorSets[id]

\* Where nothing was forced since, the numbers and the validators go together:
\* in the appchain pallet, for the era that is planned and for the active one.
NamedInv ==
    /\ inStep.planned => IsSet(nextSetId - 1, plannedValidators)
    /\ inStep.next /\ currentEra # activeEra.index
         => IsSet(nextSetId - 1, eras[currentEra].stakers)
    /\ inStep.active => IsSet(activeEra.set_id, eras[activeEra.index].stakers)

LEMMA NamedInit == Init => NamedInv
<1> SUFFICES ASSUME Init PROVE NamedInv
  OBVIOUS
<1>1. eras[0].stakers = ValidatorSets[0]
  BY DEF Init, Cleared
<1> QED
  BY <1>1, LposAssumption DEF Init, NamedInv, IsSet

\* A step that leaves the numbers and the validators of both eras alone.
LEMMA NamedQuiet ==
    ASSUME NamedInv, inStep' = inStep,
           UNCHANGED <<nextSetId, plannedValidators, currentEra>>,
           activeEra'.index = activeEra.index, activeEra'.set_id = activeEra.set_id,
           \A era \in {activeEra.index, currentEra} : eras'[era].stakers = eras[era].stakers
    PROVE  NamedInv'
BY DEF NamedInv, IsSet

LEMMA NamedStep ==
    ASSUME 0 \notin HistoryDepths, SetsArriveLate = FALSE,
           EraInv, EraInv', NamedInv, [Next]_vars
    PROVE  NamedInv'
<1>a. activeEra.index \in DOMAIN eras /\ currentEra \in DOMAIN eras
  BY DEF EraInv, WindowInv
<1>b. /\ activeEra \in [index : Nat, set_id : 0..MaxId, started : BOOLEAN]
      /\ inStep \in [planned : BOOLEAN, next : BOOLEAN, active : BOOLEAN]
      /\ nextSetId \in Nat /\ currentEra \in Nat
  BY LposAssumption DEF EraInv, TypeInv, TypeOK
<1>1. CASE end_session \/ \E v \in Validators : note_author(v)
  <2>1. SameEras /\ UNCHANGED <<nextSetId, plannedValidators, currentEra, activeEra, inStep>>
    BY <1>1, EndSessionSame, NoteAuthorSame DEF end_session, note_author, appchainVars
  <2> QED
    BY <1>a, <2>1, NamedQuiet DEF SameEras
<1>2. CASE start_session
  <2>1. UNCHANGED <<nextSetId, plannedValidators, currentEra, eras>>
    BY <1>2 DEF start_session, appchainVars
  <2>2. CASE EraStarts
    <3>1. /\ activeEra' = [index |-> activeEra.index + 1, started |-> FALSE,
                           set_id |-> IF nextSetId = 0 THEN MaxId ELSE nextSetId - 1]
          /\ inStep' = [inStep EXCEPT !.active = inStep.next]
      BY <1>2, <2>2 DEF start_session, start_era
    <3>2. currentEra = activeEra.index + 1
      BY <1>b, <2>1, <3>1 DEF EraInv, WindowInv
    <3>3. /\ inStep'.planned = inStep.planned
          /\ inStep'.active = inStep.next
          /\ activeEra'.index = currentEra
      BY <1>b, <3>1, <3>2
    <3>4. inStep.next => IsSet(activeEra'.set_id, eras[currentEra].stakers)
      <4>1. inStep.next => nextSetId # 0 /\ IsSet(nextSetId - 1, eras[currentEra].stakers)
        BY <1>b, <3>2 DEF NamedInv, IsSet
      <4> QED
        BY <3>1, <4>1
    <3> QED
      BY <2>1, <3>3, <3>4 DEF NamedInv, IsSet
  <2>3. CASE ~EraStarts
    BY <1>2, <2>1, <2>3, NamedQuiet DEF start_session
  <2> QED
    BY <2>2, <2>3
<1>3. CASE new_session
  <2>1. /\ UNCHANGED <<nextSetId, plannedValidators, activeEra>>
        /\ currentEra = activeEra.index
    BY <1>3 DEF new_session, appchainVars, EraInv, ClockInv
  <2>2. CASE EraLength >= SessionsPerEra
    <3> DEFINE new == currentEra + 1
               planned == store_stakers_info(Info(new), plannedValidators)
    <3>1. /\ currentEra' = new /\ new # activeEra.index
          /\ inStep' = [inStep EXCEPT !.next = inStep.planned]
          /\ new \in DOMAIN eras' /\ eras'[new] = planned
          /\ \A e \in DOMAIN eras' : e # new => eras'[e] = eras[e]
      BY <1>3, <1>b, <2>1, <2>2 DEF new_session, trigger_new_era
    <3>2. eras'[new].stakers = plannedValidators
      BY <3>1 DEF store_stakers_info
    <3>3. activeEra.index \in DOMAIN eras'
      BY <2>1 DEF EraInv, WindowInv
    <3>4. eras'[activeEra.index].stakers = eras[activeEra.index].stakers
      BY <3>1, <3>3
    <3>5. inStep'.planned = inStep.planned /\ inStep'.next = inStep.planned
          /\ inStep'.active = inStep.active
      BY <1>b, <3>1
    <3> QED
      BY <2>1, <3>1, <3>2, <3>4, <3>5 DEF NamedInv, IsSet
  <2>3. CASE ~(EraLength >= SessionsPerEra)
    BY <1>3, <2>1, <2>3, NamedQuiet DEF new_session
  <2> QED
    BY <2>2, <2>3
<1>4. CASE on_finalize
  <2>1. activeEra'.index = activeEra.index /\ activeEra'.set_id = activeEra.set_id
    BY <1>4, <1>b DEF on_finalize
  <2> QED
    BY <1>4, <2>1, NamedQuiet DEF on_finalize, appchainVars
<1>5. ASSUME NEW depth \in HistoryDepths, set_history_depth(depth)
      PROVE  NamedInv'
  <2>1. /\ UNCHANGED <<nextSetId, plannedValidators, currentEra, activeEra, inStep>>
        /\ \A era \in DOMAIN eras' : eras'[era] = eras[era]
    BY <1>5 DEF set_history_depth, clear_era_information, Without, appchainVars
  <2>2. activeEra.index \in DOMAIN eras' /\ currentEra \in DOMAIN eras'
    BY <2>1 DEF EraInv, WindowInv
  <2> QED
    BY <2>1, <2>2, NamedQuiet
<1>6. CASE NewSetArrives
  <2>1. /\ nextSetId <= MaxSetId /\ currentEra = activeEra.index
        /\ nextSetId' = nextSetId + 1 /\ plannedValidators' = ValidatorSets[nextSetId]
        /\ inStep' = [inStep EXCEPT !.planned = TRUE]
        /\ UNCHANGED <<currentEra, activeEra, eras>>
    BY <1>6 DEF NewSetArrives, eraVars
  <2>2. inStep'.active = inStep.active
    BY <1>b, <2>1
  <2>3. IsSet(nextSetId' - 1, plannedValidators')
    BY <1>b, <2>1, LposAssumption DEF IsSet
  <2> QED
    BY <2>1, <2>2, <2>3 DEF NamedInv, IsSet
<1>7. ASSUME NEW id \in ForcedIds, force_set_next_set_id(id)
      PROVE  NamedInv'
  <2>1. inStep'.planned = FALSE /\ inStep'.next = FALSE /\ inStep'.active = inStep.active
    BY <1>7, <1>b DEF force_set_next_set_id
  <2> QED
    BY <1>7, <2>1 DEF force_set_next_set_id, eraVars, NamedInv, IsSet
<1>8. ASSUME NEW validators \in ForcedSets, force_set_planned_validators(validators)
      PROVE  NamedInv'
  <2>1. /\ inStep'.planned = FALSE /\ inStep'.next = inStep.next
        /\ inStep'.active = inStep.active
    BY <1>8, <1>b DEF force_set_planned_validators
  <2> QED
    BY <1>8, <2>1 DEF force_set_planned_validators, eraVars, NamedInv, IsSet
<1>9. CASE \/ ContinueSession \/ UNCHANGED vars
           \/ \E payout \in Payouts : force_set_era_payout(payout)
           \/ \E s \in 0..session, who \in (SUBSET Validators) \ {{}} : report_offence(s, who)
           \/ \E value \in Activations : force_set_is_activated(value)
  <2>1. UNCHANGED <<nextSetId, plannedValidators, currentEra, activeEra, eras, inStep>>
    BY <1>9 DEF ContinueSession, vars, force_set_era_payout, report_offence,
                force_set_is_activated, appchainVars, eraVars
  <2> QED
    BY <2>1, NamedQuiet
<1> QED
  BY <1>1, <1>2, <1>3, <1>4, <1>5, <1>6, <1>7, <1>8, <1>9 DEF Next, SessionManager

\* As long as no set arrives between the planning of an era and its start, the
\* number under which an era is paid is that of the set in office; whatever
\* numbers and validators root forces, this heals with the next set.
THEOREM AnchorEraNamed ==
    ASSUME 0 \notin HistoryDepths, SetsArriveLate = FALSE
    PROVE  Spec => []AnchorEraIsNamed
<1>1. EraInv /\ NamedInv => AnchorEraIsNamed
  BY DEF EraInv, OfficeInv, NamedInv, IsSet, AnchorEraIsNamed
<1> QED
  BY <1>1, EraInit, EraStep, NamedInit, NamedStep, PTL DEF Spec
-----------------------------------------------------------------------------
\* What is recorded as reward belongs to an era that is over; the active era is
\* over between its last session and the start of the next era, and then it is
\* paid if it has to be.
PaidInv ==
    /\ \A era \in DOMAIN eras :
         eras[era].reward # Unset =>
           \/ era < activeEra.index
           \/ era = activeEra.index /\ phase = "ended" /\ currentEra # activeEra.index
    /\ phase = "ended" /\ currentEra # activeEra.index /\ activeEra.started
         /\ isActivated /\ eraPayout # 0
         => eras[activeEra.index].reward = eraPayout

LEMMA PaidInit == Init => PaidInv
<1> SUFFICES ASSUME Init PROVE PaidInv
  OBVIOUS
<1>1. DOMAIN eras = {0} /\ eras[0].reward = Unset
  BY DEF Init, Cleared
<1> QED
  BY <1>1 DEF Init, PaidInv

\* The rewards of the history stay.
SameRewards ==
    /\ DOMAIN eras' \subseteq DOMAIN eras
    /\ \A era \in DOMAIN eras' : eras'[era].reward = eras[era].reward

\* The active era ends with this session exactly when the next one is planned.
LEMMA EraEndsWhenPlanned ==
    ASSUME EraInv, phase = "between"
    PROVE  EraEnds <=> currentEra # activeEra.index
<1>1. /\ session \in Nat /\ activeEra.index \in Nat /\ currentEra \in Nat
      /\ SessionsPerEra \in Nat
  BY LposAssumption DEF EraInv, TypeInv, TypeOK
<1>2. /\ FirstSession(activeEra.index + 1) = FirstSession(activeEra.index) + SessionsPerEra
      /\ FirstSession(activeEra.index) \in Nat
  BY <1>1, FirstSessions
<1>3. CASE currentEra = activeEra.index
  <2>1. activeEra.index + 1 \notin DOMAIN eras
    BY <1>1, <1>3 DEF EraInv, WindowInv
  <2> QED
    BY <1>1, <1>3, <2>1 DEF EraEnds, StartOf, Info, Cleared, Unset
<1>4. CASE currentEra # activeEra.index
  <2>1. currentEra = activeEra.index + 1
    BY <1>4 DEF EraInv, WindowInv
  <2>2. StartOf(currentEra) = FirstSession(currentEra)
    BY DEF StartOf, Info, EraInv, WindowInv, ClockInv
  <2>3. session + 1 = FirstSession(activeEra.index) + SessionsPerEra
    BY <1>4 DEF EraInv, ClockInv
  <2> QED
    BY <1>2, <1>4, <2>1, <2>2, <2>3 DEF EraEnds
<1> QED
  BY <1>3, <1>4

LEMMA EndEraPays ==
    ASSUME EraInv, end_session, EraEnds, EraIsPaid
    PROVE  /\ DOMAIN eras' = DOMAIN eras
           /\ eras[activeEra.index].reward = Unset
           /\ eras'[activeEra.index].reward = eraPayout
           /\ \A era \in DOMAIN eras : era # activeEra.index => eras'[era] = eras[era]
           /\ minted' = minted + eraPayout
<1> DEFINE ended == Info(activeEra.index)
<1>1. activeEra.index \in DOMAIN eras
  BY DEF EraInv, WindowInv
<1>2. ended = eras[activeEra.index] /\ ended \in EraInfo
  BY <1>1 DEF Info, EraInv, TypeInv, TypeOK
<1>3. /\ eras' = With(activeEra.index, [ended EXCEPT !.reward = eraPayout])
      /\ minted' = minted + eraPayout
  BY DEF end_session, end_era
<1>4. [ended EXCEPT !.reward = eraPayout].reward = eraPayout
  BY <1>2 DEF EraInfo
<1>5. ended.reward = Unset
  BY DEF EraIsPaid
<1> QED
  BY <1>1, <1>2, <1>3, <1>4, <1>5 DEF With

LEMMA EndEraPaysNot ==
    ASSUME end_session, ~(EraEnds /\ EraIsPaid)
    PROVE  UNCHANGED <<eras, minted>>
BY DEF end_session, end_era

\* A block that is credited to its author.
LEMMA NoteAuthorRewards ==
    ASSUME EraInv, NEW v \in Validators, note_author(v)
    PROVE  SameRewards
<1> DEFINE info == Info(activeEra.index)
           scored == [info EXCEPT !.points[v] = @ + 1]
<1>1. activeEra.index \in DOMAIN eras
  BY DEF EraInv, WindowInv
<1>2. info = eras[activeEra.index] /\ info \in EraInfo
  BY <1>1 DEF Info, EraInv, TypeInv, TypeOK
<1>3. scored.reward = info.reward
  BY <1>2 DEF EraInfo
<1>4. eras' = With(activeEra.index, scored)
  BY DEF note_author
<1> HIDE DEF scored
<1> QED
  BY <1>1, <1>2, <1>3, <1>4 DEF With, SameRewards

\* A new era has no reward yet.
LEMMA NewSessionRewards ==
    ASSUME EraInv, new_session
    PROVE  \A era \in DOMAIN eras' :
             IF era \in DOMAIN eras THEN eras'[era].reward = eras[era].reward
                                    ELSE eras'[era].reward = Unset
<1>1. CASE EraLength >= SessionsPerEra
  <2> DEFINE new == currentEra + 1
             planned == store_stakers_info(Info(new), plannedValidators)
  <2>1. new \notin DOMAIN eras
    <3>1. currentEra \in Nat /\ DOMAIN eras \subseteq 0..currentEra
      BY DEF EraInv, TypeInv, TypeOK
    <3> QED
      BY <3>1
  <2>2. planned.reward = Unset
    BY <2>1 DEF store_stakers_info, Info, Cleared
  <2>3. /\ DOMAIN eras' \subseteq DOMAIN eras \cup {new}
        /\ \A e \in DOMAIN eras' : eras'[e] = IF e = new THEN planned ELSE eras[e]
    BY <1>1 DEF new_session, trigger_new_era
  <2> HIDE DEF planned, new
  <2> QED
    BY <2>1, <2>2, <2>3
<1>2. CASE ~(EraLength >= SessionsPerEra)
  BY <1>2 DEF new_session
<1> QED
  BY <1>1, <1>2

\* A step inside a block, and a session that begins, pay nothing.
LEMMA PaidQuiet ==
    ASSUME PaidInv, SameRewards, phase # "ended", phase' # "ended",
           activeEra'.index = activeEra.index
    PROVE  PaidInv'
BY DEF PaidInv, SameRewards

LEMMA PaidStep ==
    ASSUME 0 \notin HistoryDepths, EraInv, EraInv', PaidInv, [Next]_vars
    PROVE  PaidInv'
<1>a. /\ activeEra.index \in Nat /\ currentEra \in Nat
      /\ activeEra.index \in DOMAIN eras
      /\ DOMAIN eras \subseteq 0..currentEra
  BY DEF EraInv, WindowInv, TypeInv, TypeOK
<1>1. CASE end_session
  <2>1. /\ phase = "between" /\ phase' = "ended"
        /\ UNCHANGED <<activeEra, currentEra, isActivated, eraPayout>>
    BY <1>1 DEF end_session, appchainVars, settingVars
  <2>2. eras[activeEra.index].reward = Unset
    BY <1>a, <2>1 DEF PaidInv
  <2>3. CASE EraEnds /\ EraIsPaid
    <3>1. currentEra # activeEra.index
      BY <2>1, <2>3, EraEndsWhenPlanned
    <3> QED
      BY <1>1, <2>1, <2>3, <3>1, EndEraPays DEF PaidInv
  <2>4. CASE ~(EraEnds /\ EraIsPaid)
    <3>1. eras' = eras
      BY <1>1, <2>4, EndEraPaysNot
    <3>2. ~(/\ currentEra # activeEra.index /\ activeEra.started
            /\ isActivated /\ eraPayout # 0)
      BY <1>a, <2>1, <2>2, <2>4, EraEndsWhenPlanned DEF EraIsPaid, Info
    <3> QED
      BY <2>1, <3>1, <3>2 DEF PaidInv
  <2> QED
    BY <2>3, <2>4
<1>2. CASE start_session
  <2>1. phase = "ended" /\ phase' = "started" /\ UNCHANGED <<currentEra, eras>>
    BY <1>2 DEF start_session
  <2>2. currentEra' = activeEra'.index
    BY <2>1 DEF EraInv, ClockInv
  <2>3. \A era \in DOMAIN eras : eras[era].reward # Unset => era < activeEra'.index
    <3> SUFFICES ASSUME NEW era \in DOMAIN eras, eras[era].reward # Unset
                 PROVE  era < currentEra
      BY <2>1, <2>2
    <3>1. \/ era < activeEra.index
          \/ era = activeEra.index /\ currentEra # activeEra.index
      BY DEF PaidInv
    <3>2. era \in Nat /\ activeEra.index <= currentEra
      BY <1>a
    <3> QED
      BY <1>a, <3>1, <3>2
  <2> QED
    BY <2>1, <2>3 DEF PaidInv
<1>3. CASE new_session
  <2>1. phase = "started" /\ phase' = "block" /\ activeEra' = activeEra
    BY <1>3 DEF new_session
  <2>2. \A era \in DOMAIN eras' :
          IF era \in DOMAIN eras THEN eras'[era].reward = eras[era].reward
                                 ELSE eras'[era].reward = Unset
    BY <1>3, NewSessionRewards
  <2> QED
    BY <2>1, <2>2 DEF PaidInv
<1>4. CASE on_finalize
  <2>1. activeEra'.index = activeEra.index
    BY <1>4 DEF on_finalize, EraInv, TypeInv, TypeOK
  <2> QED
    BY <1>4, <2>1, PaidQuiet DEF on_finalize, SameRewards
<1>5. ASSUME NEW v \in Validators, note_author(v)
      PROVE  PaidInv'
  BY <1>5, NoteAuthorRewards, PaidQuiet DEF note_author, Extrinsic
<1>6. ASSUME NEW depth \in HistoryDepths, set_history_depth(depth)
      PROVE  PaidInv'
  <2>1. SameRewards
    BY <1>6 DEF set_history_depth, clear_era_information, Without, SameRewards
  <2> QED
    BY <1>6, <2>1, PaidQuiet DEF set_history_depth, Extrinsic
<1>7. CASE \/ ContinueSession \/ NewSetArrives
           \/ \E payout \in Payouts : force_set_era_payout(payout)
           \/ \E s \in 0..session, who \in (SUBSET Validators) \ {{}} : report_offence(s, who)
           \/ \E value \in Activations : force_set_is_activated(value)
           \/ \E id \in ForcedIds : force_set_next_set_id(id)
           \/ \E validators \in ForcedSets : force_set_planned_validators(validators)
  <2>1. UNCHANGED <<activeEra, eras>> /\ phase # "ended" /\ phase' # "ended"
    BY <1>7 DEF ContinueSession, NewSetArrives, force_set_era_payout, report_offence,
                force_set_is_activated, force_set_next_set_id,
                force_set_planned_validators, Extrinsic, eraVars
  <2> QED
    BY <2>1, PaidQuiet DEF SameRewards
<1>8. CASE UNCHANGED vars
  BY <1>8 DEF vars, appchainVars, settingVars, eraVars, PaidInv
<1> QED
  BY <1>1, <1>2, <1>3, <1>4, <1>5, <1>6, <1>7, <1>8 DEF Next, SessionManager

\* No era has a reward before it is over, whatever root does to the payout and
\* to the depth of the history.
THEOREM RewardsAreNotEarly ==
    ASSUME 0 \notin HistoryDepths
    PROVE  Spec => []NoEarlyReward
<1>1. EraInv /\ PaidInv => NoEarlyReward
  BY DEF PaidInv, NoEarlyReward
<1> QED
  BY <1>1, EraInit, EraStep, PaidInit, PaidStep, PTL DEF Spec

\* Every era that ends while the appchain is active and pays is paid, once, with
\* the money that is minted at this moment and no other.
THEOREM ErasArePaidOnce ==
    ASSUME 0 \notin HistoryDepths
    PROVE  Spec => EveryEraIsPaidOnce
<1> DEFINE Paid ==
    /\ activeEra'.index # activeEra.index /\ activeEra.started
         /\ isActivated /\ eraPayout # 0
         => Info(activeEra.index).reward = eraPayout
    /\ minted' # minted
         => /\ Info(activeEra.index).reward = Unset
            /\ minted' = minted + eras'[activeEra.index].reward
    /\ \A era \in DOMAIN eras \cap DOMAIN eras' :
         eras[era].reward # Unset => eras'[era].reward = eras[era].reward
<1>1. ASSUME EraInv, EraInv', PaidInv, [Next]_vars
      PROVE  [Paid]_vars
  <2> SUFFICES Paid
    OBVIOUS
  <2>a. Info(activeEra.index) = eras[activeEra.index]
    BY <1>1 DEF Info, EraInv, WindowInv
  <2>b. activeEra.index \in Nat /\ currentEra \in Nat
    BY <1>1 DEF EraInv, TypeInv, TypeOK
  <2>1. CASE end_session
    <3>1. activeEra' = activeEra
      BY <2>1 DEF end_session
    <3>2. CASE EraEnds /\ EraIsPaid
      BY <1>1, <2>1, <2>a, <3>1, <3>2, EndEraPays
    <3>3. CASE ~(EraEnds /\ EraIsPaid)
      BY <2>1, <3>1, <3>3, EndEraPaysNot
    <3> QED
      BY <3>2, <3>3
  <2>2. CASE start_session
    <3>1. phase = "ended" /\ phase' = "started" /\ UNCHANGED <<currentEra, eras, minted>>
      BY <2>2 DEF start_session
    <3>2. currentEra = activeEra'.index
      BY <1>1, <3>1 DEF EraInv, ClockInv
    <3> QED
      BY <1>1, <2>a, <3>1, <3>2 DEF PaidInv
  <2>3. CASE new_session
    BY <1>1, <2>3, NewSessionRewards DEF new_session
  <2>4. CASE on_finalize
    <3>1. activeEra'.index = activeEra.index /\ UNCHANGED <<eras, minted>>
      BY <1>1, <2>4 DEF on_finalize, EraInv, TypeInv, TypeOK
    <3> QED
      BY <3>1
  <2>5. CASE \E v \in Validators : note_author(v)
    <3>1. SameRewards /\ UNCHANGED <<activeEra, minted>>
      BY <1>1, <2>5, NoteAuthorRewards DEF note_author
    <3> QED
      BY <3>1 DEF SameRewards
  <2>6. CASE \E depth \in HistoryDepths : set_history_depth(depth)
    <3>1. SameRewards /\ UNCHANGED <<activeEra, minted>>
      BY <2>6 DEF set_history_depth, clear_era_information, Without, SameRewards
    <3> QED
      BY <3>1 DEF SameRewards
  <2>7. CASE \/ ContinueSession \/ NewSetArrives \/ UNCHANGED vars
             \/ \E payout \in Payouts : force_set_era_payout(payout)
             \/ \E s \in 0..session, who \in (SUBSET Validators) \ {{}} :
                  report_offence(s, who)
             \/ \E value \in Activations : force_set_is_activated(value)
             \/ \E id \in ForcedIds : force_set_next_set_id(id)
             \/ \E validators \in ForcedSets : force_set_planned_validators(validators)
    <3>1. UNCHANGED <<activeEra, eras, minted>>
      BY <2>7 DEF ContinueSession, NewSetArrives, vars, force_set_era_payout,
                  report_offence, force_set_is_activated, force_set_next_set_id,
                  force_set_planned_validators, eraVars
    <3> QED
      BY <3>1
  <2> QED
    BY <1>1, <2>1, <2>2, <2>3, <2>4, <2>5, <2>6, <2>7 DEF Next, SessionManager
<1> HIDE DEF Paid
<1>2. Spec => [][Paid]_vars
  BY <1>1, EraInit, EraStep, PaidInit, PaidStep, PTL DEF Spec
<1> QED
  BY <1>2 DEF EveryEraIsPaidOnce, Paid
-----------------------------------------------------------------------------
PlannedSet == IF currentEra > activeEra.index THEN Info(currentEra).stakers ELSE {}

LEMMA RotationInit == Init => Rotation!RotationInit
<1> SUFFICES ASSUME Init PROVE Rotation!RotationInit
  OBVIOUS
<1>1. sessionValidators \in (SUBSET Validators) \ {{}}
  BY LposAssumption DEF Init
<1>2. currentEra = 0 /\ activeEra.index = 0
  BY DEF Init
<1> QED
  BY <1>1, <1>2 DEF Rotation!RotationInit, Rotation!Sets

LEMMA RotationStep ==
    ASSUME 0 \notin HistoryDepths, EraInv, EraInv', [Next]_vars
    PROVE  [Rotation!RotationNext]_(Rotation!rotationVars)
<1> DEFINE Stutters == UNCHANGED <<sessionValidators, PlannedSet>>
<1>a. Stutters => [Rotation!RotationNext]_(Rotation!rotationVars)
  BY DEF Rotation!rotationVars, PlannedSet
<1>b. currentEra \in Nat /\ activeEra.index \in Nat
  BY DEF EraInv, TypeInv, TypeOK
<1>1. CASE start_session
  <2>1. /\ sessionValidators' = queuedValidators /\ UNCHANGED <<currentEra, eras>>
        /\ phase = "ended" /\ phase' = "started"
    BY <1>1 DEF start_session
  <2>2. currentEra' = activeEra'.index
    BY <2>1 DEF EraInv, ClockInv
  <2>3. PlannedSet' = {}
    BY <1>b, <2>1, <2>2 DEF PlannedSet
  <2>4. CASE currentEra = activeEra.index
    <3>1. sessionValidators' = sessionValidators
      BY <2>1, <2>4 DEF EraInv, OfficeInv
    <3>2. PlannedSet = {}
      BY <1>b, <2>4 DEF PlannedSet
    <3> QED
      BY <1>a, <2>3, <3>1, <3>2
  <2>5. CASE currentEra # activeEra.index
    <3>1. currentEra > activeEra.index
      BY <1>b, <2>5 DEF EraInv, WindowInv
    <3>2. /\ PlannedSet = eras[currentEra].stakers /\ PlannedSet # {}
          /\ sessionValidators' = PlannedSet
      BY <2>1, <2>5, <3>1 DEF PlannedSet, Info, EraInv, WindowInv, OfficeInv
    <3>3. Rotation!ChangeEra
      BY <2>3, <3>2 DEF Rotation!ChangeEra, PlannedSet
    <3> QED
      BY <3>3 DEF Rotation!RotationNext
  <2> QED
    BY <2>4, <2>5
<1>2. CASE new_session
  <2>1. currentEra = activeEra.index /\ UNCHANGED <<sessionValidators, activeEra>>
    BY <1>2 DEF new_session, EraInv, ClockInv
  <2>2. CASE EraLength >= SessionsPerEra
    <3>1. currentEra' = currentEra + 1
      BY <1>2, <2>2 DEF new_session, trigger_new_era
    <3>2. PlannedSet = {}
      BY <1>b, <2>1 DEF PlannedSet
    <3>3. currentEra' \in DOMAIN eras' /\ eras'[currentEra'].stakers # {}
          /\ eras'[currentEra'] \in EraInfo
      BY DEF EraInv, WindowInv, TypeInv, TypeOK
    <3>4. PlannedSet' = eras'[currentEra'].stakers
      BY <1>b, <2>1, <3>1, <3>3 DEF PlannedSet, Info
    <3>5. PlannedSet' \in (SUBSET Validators) \ {{}}
      BY <3>3, <3>4 DEF EraInfo
    <3>6. Rotation!PlanEra
      BY <2>1, <3>2, <3>5 DEF Rotation!PlanEra, Rotation!Sets, PlannedSet
    <3> QED
      BY <3>6 DEF Rotation!RotationNext
  <2>3. CASE ~(EraLength >= SessionsPerEra)
    <3>1. UNCHANGED <<currentEra, eras>>
      BY <1>2, <2>3 DEF new_session
    <3> QED
      BY <1>a, <2>1, <3>1 DEF PlannedSet, Info
  <2> QED
    BY <2>2, <2>3
<1>3. CASE end_session \/ \E v \in Validators : note_author(v)
  <2>1. /\ UNCHANGED <<sessionValidators, currentEra, activeEra>>
        /\ DOMAIN eras' = DOMAIN eras
        /\ \A era \in DOMAIN eras : eras'[era].stakers = eras[era].stakers
    BY <1>3, EndSessionSame, NoteAuthorSame DEF SameEras, end_session, note_author, Extrinsic, sessionVars
  <2> QED
    BY <1>a, <2>1 DEF PlannedSet, Info, EraInv, WindowInv
<1>4. CASE on_finalize
  <2>1. activeEra'.index = activeEra.index /\ UNCHANGED <<sessionValidators, currentEra, eras>>
    BY <1>4 DEF on_finalize, sessionVars, EraInv, TypeInv, TypeOK
  <2> QED
    BY <1>a, <2>1 DEF PlannedSet, Info
<1>5. ASSUME NEW depth \in HistoryDepths, set_history_depth(depth)
      PROVE  [Rotation!RotationNext]_(Rotation!rotationVars)
  <2>1. /\ UNCHANGED <<sessionValidators, currentEra, activeEra>>
        /\ \A era \in DOMAIN eras' : eras'[era] = eras[era]
        /\ DOMAIN eras' \subseteq DOMAIN eras
    BY <1>5 DEF set_history_depth, clear_era_information, Without, Extrinsic, sessionVars
  <2>2. currentEra \in DOMAIN eras /\ currentEra \in DOMAIN eras'
    BY <2>1 DEF EraInv, WindowInv
  <2>3. Info(currentEra)' = Info(currentEra)
    BY <2>1, <2>2 DEF Info
  <2> QED
    BY <1>a, <2>1, <2>3 DEF PlannedSet
<1>6. CASE \/ ContinueSession \/ NewSetArrives \/ UNCHANGED vars
           \/ \E payout \in Payouts : force_set_era_payout(payout)
           \/ \E s \in 0..session, who \in (SUBSET Validators) \ {{}} : report_offence(s, who)
           \/ \E value \in Activations : force_set_is_activated(value)
           \/ \E id \in ForcedIds : force_set_next_set_id(id)
           \/ \E validators \in ForcedSets : force_set_planned_validators(validators)
  <2>1. UNCHANGED <<sessionValidators, currentEra, activeEra, eras>>
    BY <1>6 DEF ContinueSession, NewSetArrives, vars, force_set_era_payout, report_offence,
                force_set_is_activated, force_set_next_set_id, force_set_planned_validators,
                Extrinsic, sessionVars, eraVars
  <2> QED
    BY <1>a, <2>1 DEF PlannedSet, Info
<1> QED
  BY <1>1, <1>2, <1>3, <1>4, <1>5, <1>6 DEF Next, SessionManager

\* The pallet implements the abstract rotation of the validators.
THEOREM RotationImplemented ==
    ASSUME 0 \notin HistoryDepths
    PROVE  Spec => ImplementsRotation
BY RotationInit, EraInit, EraStep, RotationStep, PTL
DEF Spec, ImplementsRotation, Rotation!RotationSpec
-----------------------------------------------------------------------------
\* The offences: what passed the filter, what is still to be reported and what
\* the messages report.

LEMMA OffencesType ==
    ASSUME NEW m \in Message, NEW v \in Validators
    PROVE  Offences(m, v) \in Nat
<1>1. CASE m.type = "EraPayout"
  <2>1. m.offenders \in [Validators -> Nat]
    BY <1>1 DEF Message
  <2> QED
    BY <1>1, <2>1 DEF Offences
<1>2. CASE m.type # "EraPayout"
  BY <1>2 DEF Offences
<1> QED
  BY <1>1, <1>2

LEMMA ReportsType ==
    ASSUME NEW list \in Seq(Message), NEW v \in Validators
    PROVE  [i \in DOMAIN list |-> Offences(list[i], v)] \in Seq(Nat)
<1>1. \A i \in 1..Len(list) : list[i] \in Message
  OBVIOUS
<1>2. \A i \in 1..Len(list) : Offences(list[i], v) \in Nat
  BY <1>1, OffencesType
<1> QED
  BY <1>2

LEMMA ReportedType ==
    ASSUME TypeInv, NEW v \in Validators
    PROVE  Reported(v) \in Nat
<1>1. messages \in Seq(Message)
  BY DEF TypeInv, TypeOK
<1> QED
  BY <1>1, ReportsType, SumOfNats DEF Reported

\* A message adds the offences it names.
LEMMA ReportedMore ==
    ASSUME TypeInv, NEW m \in Message, messages' = Append(messages, m), NEW v \in Validators
    PROVE  Reported(v)' = Reported(v) + Offences(m, v)
<1> DEFINE s == [i \in DOMAIN messages |-> Offences(messages[i], v)]
           x == Offences(m, v)
           more == Append(messages, m)
<1>1. messages \in Seq(Message)
  BY DEF TypeInv, TypeOK
<1>2. s \in Seq(Nat) /\ x \in Nat
  BY <1>1, ReportsType, OffencesType
<1>3. s \in Seq(Int) /\ x \in Int /\ Len(s) = Len(messages)
  BY <1>1, <1>2
<1>4. [i \in DOMAIN more |-> Offences(more[i], v)] = Append(s, x)
  BY <1>1, <1>3, AppendProperties
<1>5. SumFunction(Append(s, x)) = SumFunction(s) + x
  BY <1>3, SumOfAppended
<1> QED
  BY <1>4, <1>5 DEF Reported

LEMMA AccusedType ==
    ASSUME TypeInv, NEW v \in Validators
    PROVE  Accused(v) \in Nat /\ IsFiniteSet({i \in DOMAIN accepted : v \in accepted[i].who})
<1> DEFINE I == {i \in DOMAIN accepted : v \in accepted[i].who}
<1>1. DOMAIN accepted = 1..Len(accepted) /\ Len(accepted) \in Nat
  BY DEF TypeInv, TypeOK
<1>2. IsFiniteSet(1..Len(accepted)) /\ I \subseteq 1..Len(accepted)
  BY <1>1, FS_Interval
<1>3. IsFiniteSet(I)
  BY <1>2, FS_Subset
<1> QED
  BY <1>3, FS_CardinalityType DEF Accused

\* An offence that passes is counted once for each of its validators.
LEMMA AccusedMore ==
    ASSUME TypeInv, NEW o \in Offence, accepted' = Append(accepted, o), NEW v \in Validators
    PROVE  Accused(v)' = Accused(v) + IF v \in o.who THEN 1 ELSE 0
<1> DEFINE n == Len(accepted)
           I == {i \in DOMAIN accepted : v \in accepted[i].who}
           J == {i \in DOMAIN accepted' : v \in accepted'[i].who}
<1>1. accepted \in Seq(Offence) /\ DOMAIN accepted = 1..n /\ n \in Nat
  BY DEF TypeInv, TypeOK
<1>2. /\ DOMAIN accepted' = (1..n) \cup {n + 1} /\ accepted'[n + 1] = o
      /\ \A i \in 1..n : accepted'[i] = accepted[i]
  BY <1>1, AppendProperties
<1>3. n + 1 \notin I /\ J = IF v \in o.who THEN I \cup {n + 1} ELSE I
  BY <1>1, <1>2
<1>4. IsFiniteSet(I) /\ Cardinality(I) \in Nat
  BY AccusedType, FS_CardinalityType
<1>5. Cardinality(I \cup {n + 1}) = Cardinality(I) + 1
  BY <1>3, <1>4, FS_AddElement
<1> HIDE DEF I, J, n
<1>6. Cardinality(J) = Cardinality(I) + IF v \in o.who THEN 1 ELSE 0
  <2>1. CASE v \in o.who
    BY <1>3, <1>5, <2>1
  <2>2. CASE v \notin o.who
    BY <1>3, <1>4, <2>2
  <2> QED
    BY <2>1, <2>2
<1> USE DEF I, J
<1> QED
  BY <1>6 DEF Accused

\* No offence is reported twice; and as long as the queue refuses nothing, none
\* is forgotten.
OffenceInv ==
    \A v \in Validators :
      /\ offenders[v] + Reported(v) <= Accused(v)
      /\ QueueMayRefuse = FALSE => Accused(v) = offenders[v] + Reported(v)

LEMMA OffenceInit == Init => OffenceInv
<1> SUFFICES ASSUME Init, NEW v \in Validators
             PROVE  Accused(v) = 0 /\ offenders[v] = 0 /\ Reported(v) = 0
  BY DEF OffenceInv
<1>1. offenders[v] = 0 /\ messages = <<>> /\ accepted = <<>>
  BY DEF Init, NoPoints
<1>2. Accused(v) = 0
  <2>1. {i \in DOMAIN accepted : v \in accepted[i].who} = {}
    BY <1>1
  <2> QED
    BY <2>1, FS_EmptySet DEF Accused
<1>3. Reported(v) = 0
  <2>1. [i \in DOMAIN messages |-> Offences(messages[i], v)] = <<>>
    BY <1>1
  <2> QED
    BY <2>1, SumOfEmptyList DEF Reported
<1> QED
  BY <1>1, <1>2, <1>3

LEMMA OffenceStep == ASSUME TypeInv, OffenceInv, [Next]_vars PROVE OffenceInv'
<1>a. \A v \in Validators : /\ offenders[v] \in Nat /\ Reported(v) \in Nat
                            /\ Accused(v) \in Nat
  BY ReportedType, AccusedType DEF TypeInv, TypeOK
<1>b. UNCHANGED <<offenders, messages, accepted>> => OffenceInv'
  BY DEF OffenceInv, Reported, Accused
<1>1. CASE end_session
  <2>1. CASE EraEnds /\ EraIsPaid
    <3> DEFINE excluded == get_exclude_validators(Info(activeEra.index))
               m == PayoutMessage(activeEra.set_id, excluded, offenders)
    <3>1. Submit(m) /\ offenders' = NoPoints /\ UNCHANGED accepted
      BY <1>1, <2>1 DEF end_session, end_era
    <3>2. m \in Message /\ \A v \in Validators : Offences(m, v) = offenders[v]
      <4>1. excluded \in SUBSET Validators
        BY InfoType, ExcludedType
      <4> HIDE DEF excluded
      <4>2. m \in Message
        BY <4>1, MessageTypes
      <4> QED
        BY <4>2 DEF PayoutMessage, Offences
    <3> HIDE DEF m
    <3>3. \A v \in Validators : offenders'[v] = 0 /\ Accused(v)' = Accused(v)
      BY <3>1 DEF NoPoints, Accused
    <3>4. CASE messages' = Append(messages, m)
      <4>1. \A v \in Validators : Reported(v)' = Reported(v) + offenders[v]
        BY <3>2, <3>4, ReportedMore
      <4> QED
        BY <1>a, <3>3, <4>1 DEF OffenceInv
    <3>5. CASE QueueMayRefuse /\ UNCHANGED messages
      <4>1. \A v \in Validators : Reported(v)' = Reported(v)
        BY <3>5 DEF Reported
      <4> QED
        BY <1>a, <3>3, <3>5, <4>1 DEF OffenceInv
    <3> QED
      BY <3>1, <3>4, <3>5 DEF Submit
  <2>2. CASE ~(EraEnds /\ EraIsPaid)
    BY <1>1, <1>b, <2>2 DEF end_session, end_era
  <2> QED
    BY <2>1, <2>2
<1>2. CASE new_session
  <2>1. UNCHANGED <<offenders, accepted>>
    BY <1>2 DEF new_session, offenceVars
  <2>2. CASE messages' = Append(messages, PlanNewEra(nextSetId))
    <3>1. /\ PlanNewEra(nextSetId) \in Message
          /\ \A v \in Validators : Offences(PlanNewEra(nextSetId), v) = 0
      BY MessageTypes DEF PlanNewEra, Offences
    <3>2. \A v \in Validators : Reported(v)' = Reported(v)
      BY <1>a, <2>2, <3>1, ReportedMore
    <3> QED
      BY <2>1, <3>2 DEF OffenceInv, Accused
  <2>3. CASE UNCHANGED messages
    BY <1>b, <2>1, <2>3
  <2> QED
    BY <1>2, <2>2, <2>3 DEF new_session, Submit
<1>3. ASSUME NEW s \in 0..session, NEW who \in (SUBSET Validators) \ {{}}, report_offence(s, who)
      PROVE  OffenceInv'
  <2> DEFINE o == [session |-> s, era |-> activeEra.index, who |-> who]
  <2>1. /\ accepted' = Append(accepted, o) /\ UNCHANGED messages
        /\ \A v \in Validators :
             offenders'[v] = IF v \in who THEN offenders[v] + 1 ELSE offenders[v]
    BY <1>3 DEF report_offence
  <2>2. o \in Offence /\ o.who = who
    BY DEF TypeInv, TypeOK, Offence
  <2> HIDE DEF o
  <2>3. \A v \in Validators : Accused(v)' = Accused(v) + IF v \in who THEN 1 ELSE 0
    BY <2>1, <2>2, AccusedMore
  <2>4. \A v \in Validators : Reported(v)' = Reported(v)
    BY <2>1 DEF Reported
  <2> QED
    BY <1>a, <2>1, <2>3, <2>4 DEF OffenceInv
<1>4. CASE \/ start_session \/ ContinueSession \/ on_finalize \/ NewSetArrives
           \/ \E v \in Validators : note_author(v)
           \/ \E depth \in HistoryDepths : set_history_depth(depth)
           \/ \E payout \in Payouts : force_set_era_payout(payout)
           \/ \E value \in Activations : force_set_is_activated(value)
           \/ \E id \in ForcedIds : force_set_next_set_id(id)
           \/ \E validators \in ForcedSets : force_set_planned_validators(validators)
           \/ UNCHANGED vars
  BY <1>4, <1>b DEF start_session, ContinueSession, on_finalize, NewSetArrives, note_author,
                    set_history_depth, force_set_era_payout, force_set_is_activated,
                    force_set_next_set_id, force_set_planned_validators, vars, offenceVars
<1> QED
  BY <1>1, <1>2, <1>3, <1>4 DEF Next, SessionManager

\* Every offence that passed the filter is reported to the mainchain once, or
\* will be with the next payout, if no message is refused.
THEOREM OffencesConserved ==
    ASSUME QueueMayRefuse = FALSE
    PROVE  Spec => []OffencesAreConserved
<1>1. OffenceInv => OffencesAreConserved
  BY DEF OffenceInv, OffencesAreConserved
<1> QED
  BY <1>1, OffenceInit, OffenceStep, TypeInit, TypeStep, PTL DEF Spec

\* Also when messages are refused, no offence is reported twice.
THEOREM OffencesReportedOnce ==
    Spec => [](\A v \in Validators : Reported(v) <= Accused(v))
<1>1. TypeInv /\ OffenceInv => \A v \in Validators : Reported(v) <= Accused(v)
  <2> SUFFICES ASSUME TypeInv, OffenceInv, NEW v \in Validators
               PROVE  Reported(v) <= Accused(v)
    OBVIOUS
  <2>1. Reported(v) \in Nat /\ Accused(v) \in Nat
    BY ReportedType, AccusedType
  <2>2. offenders[v] \in Nat
    BY DEF TypeInv, TypeOK
  <2>3. offenders[v] + Reported(v) <= Accused(v)
    BY DEF OffenceInv
  <2> QED
    BY <2>1, <2>2, <2>3
<1> QED
  BY <1>1, OffenceInit, OffenceStep, TypeInit, TypeStep, PTL DEF Spec
-----------------------------------------------------------------------------
\* The validators a payout excludes.

LEMMA Quotient ==
    ASSUME NEW t \in Nat, NEW c \in Nat, c # 0
    PROVE  t \div c \in Nat /\ c * (t \div c) <= t
OBVIOUS

\* Below the expected points one is below four fifths of the average.
LEMMA BelowAverage ==
    ASSUME NEW t \in Nat, NEW c \in Nat, c # 0, NEW p \in Nat,
           p < ((t \div c) * 80) \div 100
    PROVE  100 * c * p < 80 * t
<1> DEFINE q == t \div c
<1>1. q \in Nat /\ c * q <= t
  BY Quotient
<1>2. p < (q * 80) \div 100
  OBVIOUS
<1> HIDE DEF q
<1>3. 100 * p < 80 * q
  BY <1>1, <1>2
<1>4. c * (100 * p) < c * (80 * q)
  BY <1>1, <1>3
<1>5. c * (80 * q) = 80 * (c * q) /\ c * (100 * p) = 100 * c * p /\ c * q \in Nat
  BY <1>1
<1> QED
  BY <1>1, <1>4, <1>5

\* Only the validators of an era have points of it.
PointsInv ==
    \A era \in DOMAIN eras :
      \A v \in Validators : eras[era].points[v] # 0 => v \in eras[era].stakers

\* Whom the payout excludes, when only the validators of the era have points.
LEMMA ExcludedFairly ==
    ASSUME NEW info \in EraInfo, info.stakers # {},
           \A v \in Validators : info.points[v] # 0 => v \in info.stakers
    PROVE  LET excluded == get_exclude_validators(info) IN
           /\ excluded \subseteq info.stakers
           /\ \A v \in excluded :
                 \/ info.points[v] = 0
                 \/ 100 * Cardinality(info.stakers) * info.points[v] < 80 * TotalPoints(info)
           /\ Authors(info) # {} => excluded # info.stakers
<1> DEFINE stakers == info.stakers
           points == info.points
           c == Cardinality(stakers)
           t == TotalPoints(info)
           excluded == get_exclude_validators(info)
<1>1. /\ stakers \in SUBSET Validators /\ points \in [Validators -> Nat]
      /\ DOMAIN points = Validators
  BY DEF EraInfo
<1>2. IsFiniteSet(Validators) /\ IsFiniteSet(stakers)
  BY <1>1, FS_Subset, LposAssumption
<1>3. c \in Nat /\ c # 0
  BY <1>2, FS_CardinalityType, FS_EmptySet
<1>4. t = SumFunctionOnSet(points, Validators)
  BY <1>1 DEF TotalPoints, SumFunction
<1>5. t \in Nat
  BY <1>1, <1>2, <1>4, SumNat
<1>6. excluded \subseteq stakers
  BY DEF get_exclude_validators
<1>7. ASSUME NEW v \in excluded, points[v] # 0
      PROVE  points[v] < ExpectedPoints(info) /\ points[v] \in Nat
  <2>1. v \in Authors(info) /\ points[v] \in Nat
    BY <1>1, <1>6, <1>7 DEF Authors
  <2>2. ~(points[v] >= ExpectedPoints(info))
    BY <1>7, <2>1 DEF get_exclude_validators
  <2>3. ExpectedPoints(info) \in Int
    BY <1>3, <1>5, Quotient DEF ExpectedPoints
  <2> QED
    BY <2>1, <2>2, <2>3
<1>8. ASSUME NEW v \in excluded, points[v] # 0
      PROVE  100 * c * points[v] < 80 * t
  BY <1>3, <1>5, <1>7, <1>8, BelowAverage DEF ExpectedPoints
<1>9. ASSUME Authors(info) # {}, excluded = stakers PROVE FALSE
  <2> DEFINE q == t \div c
             e == ExpectedPoints(info)
  <2>1. q \in Nat /\ c * q <= t
    BY <1>3, <1>5, Quotient
  <2>2. e = (q * 80) \div 100
    BY DEF ExpectedPoints
  <2>3. PICK a \in stakers : points[a] # 0
    BY <1>1, <1>9 DEF Authors
  <2>4. points[a] \in Nat /\ points[a] < e
    BY <1>7, <1>9, <2>3
  <2> HIDE DEF q, e
  <2>5. e \in Int /\ e <= q /\ e > 0
    BY <2>1, <2>2, <2>3, <2>4
  <2>6. \A v \in stakers : points[v] \in Int /\ points[v] <= e - 1
    <3> SUFFICES ASSUME NEW v \in stakers PROVE points[v] \in Int /\ points[v] <= e - 1
      OBVIOUS
    <3>1. CASE points[v] = 0
      BY <2>5, <3>1
    <3>2. CASE points[v] # 0
      BY <1>7, <1>9, <2>5, <3>2 DEF e
    <3> QED
      BY <3>1, <3>2
  <2>7. SumFunctionOnSet(points, stakers) = t
    BY <1>1, <1>2, <1>4, SumOfSubset
  <2>8. t <= c * (e - 1)
    <3> HIDE DEF stakers, points, t
    <3>1. e - 1 \in Int
      BY <2>5
    <3> QED
      BY <1>2, <2>6, <2>7, <3>1, SumBounded
  <2> HIDE DEF t, c
  <2>9. c * (e - 1) <= c * (q - 1) /\ c * (q - 1) = c * q - c /\ c * q \in Nat
    BY <1>3, <2>1, <2>5
  <2>10. c * (e - 1) \in Int
    BY <1>3, <2>5
  <2> DEFINE below == c * (e - 1)
             whole == c * q
  <2>11. /\ below \in Int /\ t <= below
         /\ whole \in Nat /\ below <= whole - c /\ whole <= t
    BY <2>1, <2>8, <2>9, <2>10
  <2> HIDE DEF below, whole
  <2> QED
    BY <1>3, <1>5, <2>11
<1> QED
  BY <1>6, <1>8, <1>9

LEMMA PointsInit == Init => PointsInv
<1> DEFINE first == [Cleared EXCEPT !.start = 0, !.stakers = ValidatorSets[0]]
<1>1. \A v \in Validators : first.points[v] = 0
  BY DEF Cleared, NoPoints
<1> HIDE DEF first
<1>2. Init => eras = [e \in {0} |-> first]
  BY DEF Init, first
<1> QED
  BY ONLY <1>1, <1>2 DEF PointsInv

LEMMA PointsStep == ASSUME EraInv, PointsInv, [Next]_vars PROVE PointsInv'
<1>a. /\ activeEra.index \in DOMAIN eras /\ Info(activeEra.index) = eras[activeEra.index]
      /\ eras[activeEra.index] \in EraInfo
  BY DEF EraInv, WindowInv, Info, TypeInv, TypeOK
<1>b. UNCHANGED eras => PointsInv'
  BY DEF PointsInv
<1>1. CASE end_session
  <2>1. CASE UNCHANGED eras
    BY <1>b, <2>1
  <2>2. CASE eras' = With(activeEra.index, [Info(activeEra.index) EXCEPT !.reward = eraPayout])
    BY <1>a, <2>2 DEF PointsInv, With, EraInfo
  <2> QED
    BY <1>1, <2>1, <2>2 DEF end_session, end_era
<1>2. CASE new_session
  <2> DEFINE new == currentEra + 1
             info == store_stakers_info(Info(new), plannedValidators)
  <2>1. CASE UNCHANGED eras
    BY <1>b, <2>1
  <2>2. CASE trigger_new_era
    <3>1. new \notin DOMAIN eras
      BY DEF EraInv, TypeInv, TypeOK
    <3>2. \A v \in Validators : info.points[v] = 0
      BY <3>1 DEF store_stakers_info, Info, Cleared, NoPoints
    <3>3. \A era \in DOMAIN eras' :
            eras'[era] = info \/ (era \in DOMAIN eras /\ eras'[era] = eras[era])
      BY <2>2 DEF trigger_new_era
    <3> QED
      BY <3>2, <3>3 DEF PointsInv
  <2> QED
    BY <1>2, <2>1, <2>2 DEF new_session
<1>3. ASSUME NEW v \in Validators, note_author(v) PROVE PointsInv'
  <2> DEFINE info == Info(activeEra.index)
             scored == [info EXCEPT !.points[v] = @ + 1]
  <2>1. v \in eras[activeEra.index].stakers /\ eras' = With(activeEra.index, scored)
    BY <1>3 DEF note_author, EraInv, OfficeInv
  <2>2. /\ scored.stakers = info.stakers
        /\ \A u \in Validators : u # v => scored.points[u] = info.points[u]
    BY <1>a DEF EraInfo
  <2>3. DOMAIN eras' = DOMAIN eras /\ eras'[activeEra.index] = scored
        /\ \A era \in DOMAIN eras : era # activeEra.index => eras'[era] = eras[era]
    BY <1>a, <2>1 DEF With
  <2> HIDE DEF scored
  <2> QED
    BY <1>a, <2>1, <2>2, <2>3 DEF PointsInv
<1>4. ASSUME NEW depth \in HistoryDepths, set_history_depth(depth) PROVE PointsInv'
  BY <1>4 DEF set_history_depth, clear_era_information, Without, PointsInv
<1>5. CASE \/ start_session \/ ContinueSession \/ on_finalize \/ NewSetArrives
           \/ \E payout \in Payouts : force_set_era_payout(payout)
           \/ \E s \in 0..session, who \in (SUBSET Validators) \ {{}} : report_offence(s, who)
           \/ \E value \in Activations : force_set_is_activated(value)
           \/ \E id \in ForcedIds : force_set_next_set_id(id)
           \/ \E validators \in ForcedSets : force_set_planned_validators(validators)
           \/ UNCHANGED vars
  BY <1>5, <1>b DEF start_session, ContinueSession, on_finalize, NewSetArrives,
                    force_set_era_payout, report_offence, force_set_is_activated,
                    force_set_next_set_id, force_set_planned_validators, vars, eraVars
<1> QED
  BY <1>1, <1>2, <1>3, <1>4, <1>5 DEF Next, SessionManager

\* The payouts exclude fairly: only validators of the era without a block, or
\* below four fifths of the average, and never all of them when one made a block.
THEOREM ExclusionFair ==
    ASSUME 0 \notin HistoryDepths
    PROVE  Spec => ExclusionIsFair
<1>1. ASSUME EraInv, PointsInv, [Next]_vars PROVE PayoutIsFair
  <2>a. messages \in Seq(Message)
    BY <1>1 DEF EraInv, TypeInv, TypeOK
  <2>1. CASE end_session
    <3> DEFINE info == Info(activeEra.index)
               excluded == get_exclude_validators(info)
               m == PayoutMessage(activeEra.set_id, excluded, offenders)
    <3>1. UNCHANGED messages \/ messages' = Append(messages, m)
      BY <2>1 DEF end_session, end_era, Submit
    <3>2. info \in EraInfo /\ info = eras[activeEra.index] /\ info.stakers # {}
          /\ activeEra.index \in DOMAIN eras
      BY <1>1 DEF EraInv, WindowInv, Info, TypeInv, TypeOK
    <3>3. \A v \in Validators : info.points[v] # 0 => v \in info.stakers
      BY <1>1, <3>2 DEF PointsInv
    <3>4. m.excluded = excluded
      BY DEF PayoutMessage
    <3>5. messages' = Append(messages, m) => messages'[Len(messages')] = m
      BY <2>a
    <3>6. /\ excluded \subseteq info.stakers
          /\ \A v \in excluded :
                \/ info.points[v] = 0
                \/ 100 * Cardinality(info.stakers) * info.points[v] < 80 * TotalPoints(info)
          /\ Authors(info) # {} => excluded # info.stakers
      <4> HIDE DEF m, info
      <4> QED
        BY <3>2, <3>3, ExcludedFairly
    <3> HIDE DEF m, excluded
    <3> QED
      BY <3>1, <3>4, <3>5, <3>6 DEF PayoutIsFair
  <2>2. CASE new_session
    <3>1. UNCHANGED messages \/ messages' = Append(messages, PlanNewEra(nextSetId))
      BY <2>2 DEF new_session, Submit
    <3>2. messages' = Append(messages, PlanNewEra(nextSetId))
          => messages'[Len(messages')] = PlanNewEra(nextSetId)
      BY <2>a
    <3> QED
      BY <3>1, <3>2 DEF PlanNewEra, PayoutIsFair
  <2>3. CASE \/ start_session \/ ContinueSession \/ on_finalize \/ NewSetArrives
             \/ \E v \in Validators : note_author(v)
             \/ \E depth \in HistoryDepths : set_history_depth(depth)
             \/ \E payout \in Payouts : force_set_era_payout(payout)
             \/ \E s \in 0..session, who \in (SUBSET Validators) \ {{}} :
                  report_offence(s, who)
             \/ \E value \in Activations : force_set_is_activated(value)
             \/ \E id \in ForcedIds : force_set_next_set_id(id)
             \/ \E validators \in ForcedSets : force_set_planned_validators(validators)
             \/ UNCHANGED vars
    <3>1. UNCHANGED messages
      BY <2>3 DEF start_session, ContinueSession, on_finalize, NewSetArrives, note_author,
                  set_history_depth, force_set_era_payout, report_offence,
                  force_set_is_activated, force_set_next_set_id,
                  force_set_planned_validators, vars
    <3> QED
      BY <3>1 DEF PayoutIsFair
  <2> QED
    BY <1>1, <2>1, <2>2, <2>3 DEF Next, SessionManager
<1> QED
  BY <1>1, EraInit, EraStep, PointsInit, PointsStep, PTL DEF Spec, ExclusionIsFair
=============================================================================
