------------------------------- MODULE Bridge -------------------------------
(***************************************************************************)
(* The pallet octopus-bridge between the tokens of the appchain and those  *)
(* of the mainchain. Native tokens are locked on the pallet's account      *)
(* while their wrapped counterparts are on the mainchain; the assets that  *)
(* stand for NEP-141 tokens are burned and minted; non-fungible items are  *)
(* kept by the account while the mainchain has them. Messages go up through *)
(* octopus-upward-messages, which may refuse them, and notifications come  *)
(* down through the appchain pallet, which executes each of them once and  *)
(* in order. The mainchain's side is external.                             *)
(***************************************************************************)
EXTENDS Integers, Sequences, FiniteSets, Functions

CONSTANTS
    Accounts,       \* the users
    PalletAccount,
    Tokens,         \* NEP-141 tokens
    Assets,         \* assets of the appchain
    GenesisTokens,  \* AssetIdByTokenId of the genesis, or of the chain that is upgraded
    Items,          \* non-fungible items, each with its collection
    Described,      \* the items whose attribute is the metadata of a RMRK base
    Convertor,      \* the convertor of the runtime, one of the two of impls.rs
    ED,             \* the existential deposit
    Premined,       \* premined_amount of the genesis
    GenesisBalance, \* what a user has at the genesis
    Fees,           \* the fees that the prices may lead to
    Amounts,        \* the amounts that are tried
    MaxSupply,      \* bound: NEP-141 tokens given to the appchain
    MaxInFlight,    \* bound: messages, or notifications, on the way
    MaxCalls        \* bound: calls that are observed

NoToken == "native"

ASSUME BridgeAssumption ==
    /\ IsFiniteSet(Accounts) /\ IsFiniteSet(Tokens) /\ IsFiniteSet(Assets)
    /\ PalletAccount \notin Accounts
    /\ ED \in Nat \ {0} /\ Premined \in Nat
    /\ GenesisBalance \in Nat /\ GenesisBalance >= ED
    /\ Fees \subseteq Nat /\ Amounts \subseteq Nat
    /\ GenesisTokens \subseteq Tokens \X Assets
    /\ Described \subseteq Items /\ Items \cap Tokens = {}
    /\ NoToken \notin Tokens \cup Items \cup Assets
    /\ Convertor \in {"ExampleConvertor", "RmrkBaseMetadataConvertor"}

VARIABLES
    isActivated,
    balance,            \* free balances of the native token
    holding,            \* holding[asset][account]
    assetIdByTokenId,   \* AssetIdByTokenId, as a set of pairs
    fee,                \* CrosschainTransferFee, the same for both types of transfer
    owner,              \* the account that has an item
    storageVersion,     \* the on-chain storage version of the pallet
    oldTokens,          \* the map of the tokens in the storage of OctopusAppchain
    unimplemented,      \* which of Fungibles and Nonfungibles are the stubs of impls.rs
    up,                 \* messages accepted, not yet executed on the mainchain
    down,               \* notifications not yet executed on the appchain
    wrapped,            \* native tokens that circulate on the mainchain
    deposited,          \* NEP-141 tokens that the mainchain keeps for the appchain
    minted,             \* the items that the mainchain has
    failed,             \* history: the notifications that failed
    fees,               \* history: the fees paid
    forced,             \* history: what root has unlocked or minted
    forcedItems,        \* history: the items that root has unlocked
    deleted,            \* history: the pairs that root has deleted from the map
    calls               \* history: the calls made

upgradeVars == <<storageVersion, oldTokens, unimplemented>>
configVars == <<isActivated, assetIdByTokenId, fee, upgradeVars>>
assetVars == <<balance, holding, owner>>
mainchainVars == <<wrapped, deposited, minted>>
forcedVars == <<forced, forcedItems, deleted>>
historyVars == <<failed, fees, forcedVars>>
vars == <<configVars, assetVars, up, down, mainchainVars, historyVars, calls>>

Kinds == Tokens \cup Items \cup {NoToken}
Message == [token : Kinds, amount : Nat]
Notification == [token : Kinds, amount : Nat, receiver : Accounts]

TypeOK ==
    /\ isActivated \in BOOLEAN
    /\ balance \in [Accounts \cup {PalletAccount} -> Nat]
    /\ \A a \in DOMAIN balance : balance[a] = 0 \/ balance[a] >= ED
    /\ holding \in [Assets -> [Accounts -> Nat]]
    /\ assetIdByTokenId \subseteq Tokens \X Assets
    /\ fee \in Fees \cup {0}
    /\ owner \in [Items -> Accounts \cup {PalletAccount}]
    /\ storageVersion \in {0, 1}
    /\ oldTokens \subseteq Tokens \X Assets
    /\ unimplemented \subseteq {"Fungibles", "Nonfungibles"}
    /\ up \in Seq(Message) /\ down \in Seq(Notification)
    /\ wrapped \in Nat /\ deposited \in [Tokens -> Nat] /\ minted \subseteq Items
    /\ failed \in Seq(Notification)
    /\ fees \in Nat
    /\ forced \in [Assets \cup {NoToken} -> Nat]
    /\ forcedItems \subseteq Items
    /\ deleted \subseteq Tokens \X Assets

\* The tokens premined on the pallet's account are those that circulate on the
\* mainchain from the start; less than a deposit is not put there. A chain that
\* is upgraded has its map of the tokens still in the other pallet.
Init ==
    /\ isActivated = FALSE
    /\ balance = [a \in Accounts \cup {PalletAccount} |->
                    IF a \in Accounts THEN GenesisBalance
                    ELSE IF Premined >= ED THEN Premined ELSE 0]
    /\ holding = [t \in Assets |-> [a \in Accounts |-> 0]]
    /\ \/ storageVersion = 1 /\ assetIdByTokenId = GenesisTokens /\ oldTokens = {}
       \/ storageVersion = 0 /\ assetIdByTokenId = {} /\ oldTokens = GenesisTokens
    /\ unimplemented \in SUBSET {"Fungibles", "Nonfungibles"}
    /\ fee = 0
    /\ owner \in [Items -> Accounts]
    /\ up = <<>> /\ down = <<>>
    /\ wrapped = balance[PalletAccount]
    /\ deposited = [t \in Tokens |-> 0] /\ minted = {}
    /\ failed = <<>> /\ fees = 0
    /\ forced = [t \in Assets \cup {NoToken} |-> 0] /\ forcedItems = {} /\ deleted = {}
    /\ calls = 0

Call == calls < MaxCalls /\ calls' = calls + 1
-----------------------------------------------------------------------------
\* Currency::transfer of pallet_balances: the receiver has to end with the
\* existential deposit, the sender as well if it has to be kept alive; what a
\* sender keeps below the deposit is lost.
CanTransfer(b, from, to, amount, keepAlive) ==
    \/ amount = 0
    \/ /\ b[from] >= amount
       /\ b[to] + amount >= ED
       /\ keepAlive => b[from] - amount >= ED

Transfer(b, from, to, amount) ==
    IF amount = 0 THEN b
    ELSE [b EXCEPT ![from] = IF @ - amount < ED THEN 0 ELSE @ - amount,
                   ![to] = @ + amount]

\* do_lock_fungible_transfer_fee and its copy for items.
CanPayFee(who) == CanTransfer(balance, who, PalletAccount, fee, FALSE)
AfterFee(who) == Transfer(balance, who, PalletAccount, fee)

\* UnImplementAssets and UnImplementUniques stand in for the pallets that a
\* runtime does not have: no asset is burned or minted, no item moves.
UnImplementAssets == "Fungibles" \in unimplemented
UnImplementUniques == "Nonfungibles" \in unimplemented

\* The items that the convertor of the runtime can describe: one invents what
\* an item lacks, the other needs an attribute that it can parse.
ExampleConvertor == Items
RmrkBaseMetadataConvertor == Described
HasMetadata(item) ==
    item \in IF Convertor = "ExampleConvertor" THEN ExampleConvertor
                                              ELSE RmrkBaseMetadataConvertor

\* The queue takes the message, or refuses it: then the call fails, and being
\* transactional it leaves nothing behind. Calls that fail are not steps.
Submit(message) ==
    /\ Len(up) < MaxInFlight
    /\ up' = Append(up, message)

\* Definitions under the heading "Buggy variant" are not part of the
\* specification: they are used only to show that the properties can fail.

\* Buggy variant: the call is not transactional.
LockDespiteRefusal(who, amount) ==
    /\ Call /\ isActivated
    /\ CanPayFee(who)
    /\ CanTransfer(AfterFee(who), who, PalletAccount, amount, FALSE)
    /\ balance' = Transfer(AfterFee(who), who, PalletAccount, amount)
    /\ Submit([token |-> NoToken, amount |-> amount]) \/ UNCHANGED up
    /\ fees' = fees + fee
    /\ UNCHANGED <<configVars, holding, owner, down, mainchainVars, failed, forcedVars>>

\* Buggy variant: that the amount could not be paid is overlooked.
LockUnpaid(who, amount) ==
    /\ Call /\ isActivated
    /\ CanPayFee(who)
    /\ balance' = IF CanTransfer(AfterFee(who), who, PalletAccount, amount, FALSE)
                  THEN Transfer(AfterFee(who), who, PalletAccount, amount)
                  ELSE AfterFee(who)
    /\ Submit([token |-> NoToken, amount |-> amount])
    /\ fees' = fees + fee
    /\ UNCHANGED <<configVars, holding, owner, down, mainchainVars, failed, forcedVars>>

lock(who, amount) ==
    /\ Call /\ isActivated
    /\ CanPayFee(who)
    /\ CanTransfer(AfterFee(who), who, PalletAccount, amount, FALSE)
    /\ balance' = Transfer(AfterFee(who), who, PalletAccount, amount)
    /\ Submit([token |-> NoToken, amount |-> amount])
    /\ fees' = fees + fee
    /\ UNCHANGED <<configVars, holding, owner, down, mainchainVars, failed, forcedVars>>

\* try_get_token_id and try_get_asset_id.
TokenIdsOf(asset) == {pair[1] : pair \in {p \in assetIdByTokenId : p[2] = asset}}
AssetIdsOf(token) == {pair[2] : pair \in {p \in assetIdByTokenId : p[1] = token}}

\* Buggy variant: that the assets could not be burned is overlooked.
BurnUnchecked(who, asset, amount) ==
    /\ Call /\ isActivated
    /\ CanPayFee(who)
    /\ balance' = AfterFee(who)
    /\ holding' = [holding EXCEPT ![asset][who] = IF @ >= amount THEN @ - amount ELSE @]
    /\ \E token \in TokenIdsOf(asset) : Submit([token |-> token, amount |-> amount])
    /\ fees' = fees + fee
    /\ UNCHANGED <<configVars, owner, down, mainchainVars, failed, forcedVars>>

burn_nep141(who, asset, amount) ==
    /\ Call /\ isActivated
    /\ CanPayFee(who)
    /\ ~UnImplementAssets /\ holding[asset][who] >= amount
    /\ balance' = AfterFee(who)
    /\ holding' = [holding EXCEPT ![asset][who] = @ - amount]
    /\ \E token \in TokenIdsOf(asset) : Submit([token |-> token, amount |-> amount])
    /\ fees' = fees + fee
    /\ UNCHANGED <<configVars, owner, down, mainchainVars, failed, forcedVars>>

\* Buggy variant: that the item did not move is overlooked.
LockItemUnmoved(who, item) ==
    /\ Call /\ isActivated
    /\ HasMetadata(item) /\ CanPayFee(who)
    /\ balance' = AfterFee(who)
    /\ UNCHANGED owner \/ owner' = [owner EXCEPT ![item] = PalletAccount]
    /\ Submit([token |-> item, amount |-> 1])
    /\ fees' = fees + fee
    /\ UNCHANGED <<configVars, holding, down, mainchainVars, failed, forcedVars>>

\* The transfer names the item and where it goes, not who sends it: it moves
\* whoever has it.
lock_nonfungible(who, item) ==
    /\ Call /\ isActivated
    /\ HasMetadata(item) /\ CanPayFee(who)
    /\ balance' = AfterFee(who)
    /\ ~UnImplementUniques /\ owner' = [owner EXCEPT ![item] = PalletAccount]
    /\ Submit([token |-> item, amount |-> 1])
    /\ fees' = fees + fee
    /\ UNCHANGED <<configVars, holding, down, mainchainVars, failed, forcedVars>>
-----------------------------------------------------------------------------
\* Notifications, executed by the appchain pallet in order through
\* BridgeInterface. One that fails is recorded as failed and not tried again.

UnlockKeepsNothing(n) == CanTransfer(balance, PalletAccount, n.receiver, n.amount, FALSE)
CanUnlock(n) == CanTransfer(balance, PalletAccount, n.receiver, n.amount, TRUE)

unlock(n) ==
    /\ n.token = NoToken /\ CanUnlock(n)
    /\ balance' = Transfer(balance, PalletAccount, n.receiver, n.amount)
    /\ UNCHANGED <<holding, owner, failed>>

\* Buggy variant: a token that no asset stands for is passed over.
MintUnmapped(n) ==
    /\ n.token \in Tokens /\ ~UnImplementAssets
    /\ \/ \E asset \in AssetIdsOf(n.token) :
            holding' = [holding EXCEPT ![asset][n.receiver] = @ + n.amount]
       \/ AssetIdsOf(n.token) = {} /\ UNCHANGED holding
    /\ UNCHANGED <<balance, owner, failed>>

mint_nep141(n) ==
    /\ n.token \in Tokens /\ ~UnImplementAssets
    /\ \E asset \in AssetIdsOf(n.token) :
         holding' = [holding EXCEPT ![asset][n.receiver] = @ + n.amount]
    /\ UNCHANGED <<balance, owner, failed>>

unlock_nonfungible(n) ==
    /\ n.token \in Items /\ ~UnImplementUniques
    /\ owner' = [owner EXCEPT ![n.token] = n.receiver]
    /\ UNCHANGED <<balance, holding, failed>>

\* An implementation of Nonfungibles may refuse to move an item, for instance
\* one that its collection has frozen.
NotificationFails(n) ==
    /\ n.token = NoToken => ~CanUnlock(n)
    /\ n.token \in Tokens => UnImplementAssets \/ AssetIdsOf(n.token) = {}
    /\ failed' = Append(failed, n)
    /\ UNCHANGED assetVars

\* Buggy variant: what has failed is tried again.
ProcessAgain ==
    /\ down # <<>>
    /\ LET n == Head(down) IN
       unlock(n) \/ mint_nep141(n) \/ unlock_nonfungible(n) \/ NotificationFails(n)
    /\ down' = IF failed' = failed THEN Tail(down) ELSE down
    /\ UNCHANGED <<configVars, up, mainchainVars, fees, forcedVars, calls>>

process_notification ==
    /\ down # <<>>
    /\ LET n == Head(down) IN
       unlock(n) \/ mint_nep141(n) \/ unlock_nonfungible(n) \/ NotificationFails(n)
    /\ down' = Tail(down)
    /\ UNCHANGED <<configVars, up, mainchainVars, fees, forcedVars, calls>>
-----------------------------------------------------------------------------
\* Governance and the oracle.

\* Buggy variant: the asset may be in use already.
SetTokenIdTwice(token, asset) ==
    /\ Call /\ isActivated
    /\ AssetIdsOf(token) = {}
    /\ assetIdByTokenId' = assetIdByTokenId \cup {<<token, asset>>}
    /\ UNCHANGED <<isActivated, fee, upgradeVars, assetVars, up, down, mainchainVars,
                   historyVars>>

set_token_id(token, asset) ==
    /\ Call /\ isActivated
    /\ AssetIdsOf(token) = {} /\ TokenIdsOf(asset) = {}
    /\ assetIdByTokenId' = assetIdByTokenId \cup {<<token, asset>>}
    /\ UNCHANGED <<isActivated, fee, upgradeVars, assetVars, up, down, mainchainVars,
                   historyVars>>

delete_token_id(token) ==
    /\ Call
    /\ AssetIdsOf(token) # {}
    /\ assetIdByTokenId' = {pair \in assetIdByTokenId : pair[1] # token}
    /\ deleted' = deleted \cup {pair \in assetIdByTokenId : pair[1] = token}
    /\ UNCHANGED <<isActivated, fee, upgradeVars, assetVars, up, down, mainchainVars,
                   failed, fees, forced, forcedItems>>

\* Buggy variant: what the account holds is not looked at.
ForceUnlockUnchecked(who, amount) ==
    /\ Call
    /\ balance' = [balance EXCEPT ![PalletAccount] = @ - amount, ![who] = @ + amount]
    /\ forced' = [forced EXCEPT ![NoToken] = @ + amount]
    /\ UNCHANGED <<configVars, holding, owner, up, down, mainchainVars, failed, fees,
                   forcedItems, deleted>>

force_unlock(who, amount) ==
    /\ Call
    /\ CanTransfer(balance, PalletAccount, who, amount, TRUE)
    /\ balance' = Transfer(balance, PalletAccount, who, amount)
    /\ forced' = [forced EXCEPT ![NoToken] = @ + amount]
    /\ UNCHANGED <<configVars, holding, owner, up, down, mainchainVars, failed, fees,
                   forcedItems, deleted>>

force_mint_nep141(asset, who, amount) ==
    /\ Call
    /\ ~UnImplementAssets
    /\ holding' = [holding EXCEPT ![asset][who] = @ + amount]
    /\ forced' = [forced EXCEPT ![asset] = @ + amount]
    /\ UNCHANGED <<configVars, balance, owner, up, down, mainchainVars, failed, fees,
                   forcedItems, deleted>>

force_unlock_nonfungible(who, item) ==
    /\ Call
    /\ ~UnImplementUniques
    /\ owner' = [owner EXCEPT ![item] = who]
    /\ forcedItems' = forcedItems \cup {item}
    /\ UNCHANGED <<configVars, balance, holding, up, down, mainchainVars, failed, fees,
                   forced, deleted>>

\* The fee that calculate_and_update_fee has calculated, see BridgeFee.
set_token_price(newFee) ==
    /\ Call
    /\ fee' = newFee
    /\ UNCHANGED <<isActivated, assetIdByTokenId, upgradeVars, assetVars, up, down,
                   mainchainVars, historyVars>>

force_set_is_activated(value) ==
    /\ Call
    /\ isActivated' = value
    /\ UNCHANGED <<assetIdByTokenId, fee, upgradeVars, assetVars, up, down,
                   mainchainVars, historyVars>>

\* The entries of the other pallet's map are moved: they are drained there and
\* inserted here.
migration_to_v1 ==
    /\ assetIdByTokenId' =
         oldTokens \cup {pair \in assetIdByTokenId : \A p \in oldTokens : p[1] # pair[1]}
    /\ oldTokens' = {}

\* Runs before all other code of the block that upgrades the runtime; it does
\* nothing when the version is the current one.
on_runtime_upgrade ==
    /\ storageVersion = 0
    /\ migration_to_v1
    /\ storageVersion' = 1
    /\ UNCHANGED <<isActivated, fee, unimplemented, assetVars, up, down, mainchainVars,
                   historyVars, calls>>
-----------------------------------------------------------------------------
\* The mainchain (external).

\* The next message is executed: wrapped tokens are issued, deposited tokens
\* are given back, or an item is minted.
ExecuteMessage ==
    /\ up # <<>> /\ up' = Tail(up)
    /\ LET m == Head(up) IN
       \/ /\ m.token = NoToken
          /\ wrapped' = wrapped + m.amount
          /\ UNCHANGED <<deposited, minted>>
       \/ /\ m.token \in Tokens /\ deposited[m.token] >= m.amount
          /\ deposited' = [deposited EXCEPT ![m.token] = @ - m.amount]
          /\ UNCHANGED <<wrapped, minted>>
       \/ /\ m.token \in Items
          /\ minted' = minted \cup {m.token}
          /\ UNCHANGED <<wrapped, deposited>>
    /\ UNCHANGED <<configVars, assetVars, down, historyVars, calls>>

BurnWrapped(who, amount) ==
    /\ Len(down) < MaxInFlight /\ amount <= wrapped
    /\ wrapped' = wrapped - amount
    /\ down' = Append(down, [token |-> NoToken, amount |-> amount, receiver |-> who])
    /\ UNCHANGED <<configVars, assetVars, up, deposited, minted, historyVars, calls>>

DepositToken(token, who, amount) ==
    /\ Len(down) < MaxInFlight /\ deposited[token] + amount <= MaxSupply
    /\ deposited' = [deposited EXCEPT ![token] = @ + amount]
    /\ down' = Append(down, [token |-> token, amount |-> amount, receiver |-> who])
    /\ UNCHANGED <<configVars, assetVars, up, wrapped, minted, historyVars, calls>>

BurnItem(item, who) ==
    /\ Len(down) < MaxInFlight /\ item \in minted
    /\ minted' = minted \ {item}
    /\ down' = Append(down, [token |-> item, amount |-> 1, receiver |-> who])
    /\ UNCHANGED <<configVars, assetVars, up, wrapped, deposited, historyVars, calls>>
-----------------------------------------------------------------------------
\* Users lock the items they have: that nobody else does is left to them, as
\* lock_nonfungible does not look.
UserCall(who) ==
    \/ \E amount \in Amounts :
         lock(who, amount) \/ \E asset \in Assets : burn_nep141(who, asset, amount)
    \/ \E item \in Items : owner[item] = who /\ lock_nonfungible(who, item)

RootCall ==
    \/ \E who \in Accounts, amount \in Amounts :
         \/ force_unlock(who, amount)
         \/ \E asset \in Assets : force_mint_nep141(asset, who, amount)
    \/ \E who \in Accounts, item \in Items : force_unlock_nonfungible(who, item)
    \/ \E value \in BOOLEAN : force_set_is_activated(value)

\* Root changes the map of the tokens.
Remap ==
    \/ \E token \in Tokens, asset \in Assets : set_token_id(token, asset)
    \/ \E token \in Tokens : delete_token_id(token)

\* What the runtime does once it is upgraded.
Appchain ==
    /\ storageVersion = 1
    /\ \/ \E who \in Accounts : UserCall(who)
       \/ process_notification
       \/ \E newFee \in Fees : set_token_price(newFee)
       \/ RootCall
       \/ Remap

Mainchain ==
    \/ ExecuteMessage
    \/ \E who \in Accounts :
         \/ \E amount \in Amounts :
              BurnWrapped(who, amount) \/ \E token \in Tokens : DepositToken(token, who, amount)
         \/ \E item \in Items : BurnItem(item, who)

Next == Appchain \/ on_runtime_upgrade \/ Mainchain

Spec == Init /\ [][Next]_vars
-----------------------------------------------------------------------------
\* What the messages or notifications of a list carry of a token or an item.
Amount(entry, token) == IF entry.token = token THEN entry.amount ELSE 0
SumOf(list, token) == SumFunction([i \in DOMAIN list |-> Amount(list[i], token)])

Supply(asset) == SumFunction(holding[asset])

\* Every native token on the pallet's account stands for one that is on the way
\* to the mainchain, circulates there, is on the way back or failed to come
\* back, or was paid as a fee; root's unlocking is what it is meant to be, a
\* correction.
NativeIsBacked ==
    balance[PalletAccount] + forced[NoToken] =
      SumOf(up, NoToken) + wrapped + SumOf(down, NoToken) + SumOf(failed, NoToken) + fees

\* So the account has what the next notification unlocks, unless root has taken
\* it: an unlock fails only because of the deposits that the account and the
\* receiver have to keep.
UnlocksAreCovered ==
    down # <<>> /\ Head(down).token = NoToken /\ forced[NoToken] = 0 =>
      balance[PalletAccount] >= Head(down).amount

\* The NEP-141 tokens that the mainchain keeps are held on the appchain, are on
\* one of the two ways or failed to be minted: over all the tokens, however
\* root maps them to assets while messages and notifications are on the way.
AssetsAreConserved ==
    SumFunction(deposited) + SumFunction([x \in Assets |-> forced[x] - Supply(x)]) =
      SumFunction([t \in Tokens |-> SumOf(up, t) + SumOf(down, t) + SumOf(failed, t)])

\* And each of them is backed by the asset that stands for it, as long as root has
\* not deleted the pair, or another one with its token or its asset: what was
\* minted under a pair that is gone is burned under the next one.
TokensAreBacked ==
    \A pair \in assetIdByTokenId :
      (\A p \in deleted : p[1] # pair[1] /\ p[2] # pair[2]) =>
        deposited[pair[1]] + forced[pair[2]] - Supply(pair[2]) =
          SumOf(up, pair[1]) + SumOf(down, pair[1]) + SumOf(failed, pair[1])

\* A token has one asset and an asset one token, so the two directions of
\* TokenIdAndAssetIdProvider agree.
TokensMatchAssets ==
    \A p, q \in assetIdByTokenId : p[1] = q[1] <=> p[2] = q[2]

\* An item that root has not unlocked is with the pallet exactly while it is on
\* the way to the mainchain, there, on the way back or failed to come back; and
\* it is at one of these places only, so that no second one is ever minted.
ItemsAreKept ==
    \A item \in Items \ forcedItems :
      SumOf(up, item) + Cardinality(minted \cap {item}) + SumOf(down, item) + SumOf(failed, item) =
        IF owner[item] = PalletAccount THEN 1 ELSE 0

\* Once it holds the deposit, the pallet's account never dies, so nothing that
\* it keeps for the mainchain is lost as dust.
AccountStaysAlive ==
    [][balance[PalletAccount] >= ED => balance'[PalletAccount] >= ED]_vars

\* Where an item is, as the bridge's books have it.
PlaceOf(item) ==
    IF item \in forcedItems THEN "corrected"
    ELSE IF SumOf(failed, item) > 0 THEN "stuck"
    ELSE IF owner[item] = PalletAccount THEN "outside"
    ELSE "appchain"

\* With queues in both directions, fees, refusals and failures the bridge
\* implements a ledger on which a transfer is one step: a token or an item that
\* leaves is in reserve from the same moment on, comes back once or is stuck, and
\* no step moves anything besides.
Ledger == INSTANCE CrossChainLedger WITH
    reserve <- balance[PalletAccount],
    outside <- SumOf(up, NoToken) + wrapped + SumOf(down, NoToken),
    stuck <- SumOf(failed, NoToken),
    corrected <- forced[NoToken],
    place <- [item \in Items |-> PlaceOf(item)]
ImplementsLedger == Ledger!LedgerSpec
=============================================================================
