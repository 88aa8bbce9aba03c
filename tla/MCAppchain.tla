----------------------------- MODULE MCAppchain -----------------------------
\* Small instances of Appchain.
EXTENDS Appchain, TLC

CONSTANTS v1, v2

\* Two validators: both are needed, then v1 is enough, then v1 has left.
EraA == [validators |-> {v1, v2}, stake |-> (v1 :> 1 @@ v2 :> 1)]
EraB == [validators |-> {v1, v2}, stake |-> (v1 :> 3 @@ v2 :> 1)]
EraC == [validators |-> {v2}, stake |-> (v1 :> 0 @@ v2 :> 1)]

MCEras == {EraA, EraB, EraC}
MCErasLive == {EraA, EraC}
MCGenesisEras == {EraA, None}
MCGenesisEra == {EraA}
MCNotificationType == [n \in NotificationIds |-> IF n % 2 = 0 THEN "Burn" ELSE "LockAsset"]
NoIds == {}
MCForcedIds == {0, 2}
=============================================================================
