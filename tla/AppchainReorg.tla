---------------------------- MODULE AppchainReorg ----------------------------
(***************************************************************************)
(* Appchain under re-organisations: the state of the chain becomes that of *)
(* an earlier block, on which another branch is built, or goes on with a   *)
(* branch left before, again and again. The runs of the offchain workers   *)
(* and the transaction pools of the nodes are not part of that state: a    *)
(* run that has read its ids on the abandoned branch, or the transaction   *)
(* it has submitted, carries on. The blocks of the new branch up to the    *)
(* height of the abandoned one contain nothing of it, so no transaction is *)
(* one from the future.                                                    *)
(***************************************************************************)
EXTENDS Appchain

CONSTANT MaxTurns   \* bound: blocks the chain may come back to, and calls of root

ASSUME TurnsAssumption == MaxTurns \in Nat

VARIABLE blocks     \* the chain's states in these blocks, of any branch

reorgVars == <<vars, blocks>>

ChainState ==
    [isActivated |-> isActivated, nextSetId |-> nextSetId,
     plannedValidators |-> plannedValidators,
     nextNotificationId |-> nextNotificationId,
     notificationHistory |-> notificationHistory, processed |-> processed,
     observations |-> observations, observing |-> observing,
     era |-> era, eraIndex |-> eraIndex]

ReorgInit == Init /\ blocks = {}

MoreTurns == forces + Cardinality(blocks) < MaxTurns

\* The block of the present state will be one that other branches part from, or
\* the last of its branch.
Fork ==
    /\ BetweenExtrinsics
    /\ MoreTurns
    /\ blocks' = blocks \cup {ChainState}
    /\ UNCHANGED vars

\* The best block of the nodes changes to one of another branch.
Reorg(block) ==
    /\ BetweenExtrinsics
    /\ isActivated' = block.isActivated
    /\ nextSetId' = block.nextSetId
    /\ plannedValidators' = block.plannedValidators
    /\ nextNotificationId' = block.nextNotificationId
    /\ notificationHistory' = block.notificationHistory
    /\ processed' = block.processed
    /\ observations' = block.observations
    /\ observing' = block.observing
    /\ era' = block.era
    /\ eraIndex' = block.eraIndex
    /\ UNCHANGED <<mainchainVars, workerVars, extrinsicVars, forces, blocks>>

ReorgNext ==
    \/ Operation /\ UNCHANGED blocks
    \/ Governance /\ MoreTurns /\ UNCHANGED blocks
    \/ Fork
    \/ \E block \in blocks : Reorg(block)

ReorgSpec == ReorgInit /\ [][ReorgNext]_reorgVars
-----------------------------------------------------------------------------
\* A validator set takes effect in order on every branch, although the votes
\* of the abandoned one, for sets the new one has not reached, are still
\* delivered to check_observation.
SetsSurviveForks == forces = 0 => PlannedIsLatest

\* On no branch, and whatever root forces, does anything take effect or have a
\* result that the mainchain has not published: votes are for what was observed.
EffectsArePublished ==
    /\ \A i \in DOMAIN processed : processed[i] < published
    /\ \A n \in DOMAIN notificationHistory : n < published
=============================================================================
