-------------------------- MODULE CrossChainLedger --------------------------
(***************************************************************************)
(* What octopus-bridge promises of the native tokens and of the items,     *)
(* with nothing of the messages and notifications between the chains: a    *)
(* transfer is one step. What is outside, circulating on the mainchain or  *)
(* on one of the two ways, is held in reserve on the appchain. What cannot *)
(* come back is stuck, until root corrects it.                             *)
(***************************************************************************)
EXTENDS Integers

CONSTANT Items

VARIABLES
    reserve,    \* the native tokens on the account of the bridge,
    outside,    \* those that are outside,
    stuck,      \* those that failed to come back,
    fees,       \* those that were paid for transfers
    corrected,  \* and those that root has taken from the account
    place       \* where an item is

tokenVars == <<reserve, outside, stuck, fees, corrected>>
ledgerVars == <<tokenVars, place>>

LedgerInit ==
    /\ reserve = outside
    /\ stuck = 0 /\ fees = 0 /\ corrected = 0
    /\ place = [item \in Items |-> "appchain"]

\* A user pays a fee, and possibly sends tokens.
Pays ==
    /\ outside' >= outside /\ fees' >= fees
    /\ reserve' - reserve = (outside' - outside) + (fees' - fees)
    /\ UNCHANGED <<stuck, corrected>>

\* Tokens come back, or fail to.
TokensReturn ==
    /\ outside' <= outside
    /\ reserve' - reserve = outside' - outside
    /\ UNCHANGED <<stuck, fees, corrected>>

TokensFail ==
    /\ outside' <= outside
    /\ stuck' - stuck = outside - outside'
    /\ UNCHANGED <<reserve, fees, corrected>>

TokensCorrected ==
    /\ corrected' >= corrected
    /\ corrected' - corrected = reserve - reserve'
    /\ UNCHANGED <<outside, stuck, fees>>

Moves(item, from, to) ==
    place[item] = from /\ place' = [place EXCEPT ![item] = to]

\* An item that root has unlocked is no longer followed.
ItemCorrected(item) == place' = [place EXCEPT ![item] = "corrected"]

LedgerNext ==
    \/ (Pays \/ TokensReturn \/ TokensFail \/ TokensCorrected) /\ UNCHANGED place
    \/ \E item \in Items :
         \/ Moves(item, "appchain", "outside") /\ Pays /\ UNCHANGED outside
         \/ /\ \/ Moves(item, "outside", "appchain")
               \/ Moves(item, "outside", "stuck")
               \/ ItemCorrected(item)
            /\ UNCHANGED tokenVars

LedgerSpec == LedgerInit /\ [][LedgerNext]_ledgerVars
=============================================================================
