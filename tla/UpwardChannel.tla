--------------------------- MODULE UpwardChannel ---------------------------
(***************************************************************************)
(* What the upward-messages pallet promises to the relayer that reads its  *)
(* commitments: the accepted messages reach the mainchain in the order of  *)
(* their acceptance, in batches, each exactly once.                        *)
(***************************************************************************)
EXTENDS Naturals, Sequences

CONSTANT Payload        \* what a message may carry

VARIABLES
    accepted,           \* the messages accepted so far, in order
    handedOver          \* how many of them have been handed over

channelVars == <<accepted, handedOver>>

ChannelTypeOK ==
    /\ accepted \in Seq(Payload)
    /\ handedOver \in 0..Len(accepted)

ChannelInit ==
    /\ accepted = <<>>
    /\ handedOver = 0

Accept(p) ==
    /\ accepted' = Append(accepted, p)
    /\ UNCHANGED handedOver

\* The whole backlog is handed over at once.
HandOver ==
    /\ handedOver < Len(accepted)
    /\ handedOver' = Len(accepted)
    /\ UNCHANGED accepted

ChannelNext == HandOver \/ \E p \in Payload : Accept(p)

ChannelSpec == ChannelInit /\ [][ChannelNext]_channelVars /\ WF_channelVars(HandOver)
=============================================================================
