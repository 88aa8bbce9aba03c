------------------------- MODULE MainchainDelivery -------------------------
(***************************************************************************)
(* What the appchain pallet promises for the traffic from the mainchain:   *)
(* the validator sets and the notifications that the anchor contract       *)
(* publishes take effect on the appchain one by one, in the order of their *)
(* numbers, each exactly once, and (while the appchain stays active) all   *)
(* of them. Set 0 is in the genesis; notifications are numbered from 0.    *)
(***************************************************************************)
EXTENDS Naturals, Sequences

VARIABLES
    published,      \* number of notifications published on the mainchain
    publishedSets,  \* number of the last validator set published
    delivered,      \* the notifications that took effect, in order
    currentSet      \* the last validator set that took effect

deliveryVars == <<published, publishedSets, delivered, currentSet>>

DeliveryInit ==
    /\ published = 0
    /\ publishedSets = 0
    /\ delivered = <<>>
    /\ currentSet = 0

PublishNotification ==
    /\ published' = published + 1
    /\ UNCHANGED <<publishedSets, delivered, currentSet>>

PublishSet ==
    /\ publishedSets' = publishedSets + 1
    /\ UNCHANGED <<published, delivered, currentSet>>

Deliver ==
    /\ Len(delivered) < published
    /\ delivered' = Append(delivered, Len(delivered))
    /\ UNCHANGED <<published, publishedSets, currentSet>>

ApplySet ==
    /\ currentSet < publishedSets
    /\ currentSet' = currentSet + 1
    /\ UNCHANGED <<published, publishedSets, delivered>>

DeliveryNext == PublishNotification \/ PublishSet \/ Deliver \/ ApplySet

DeliverySpec == DeliveryInit /\ [][DeliveryNext]_deliveryVars
=============================================================================
