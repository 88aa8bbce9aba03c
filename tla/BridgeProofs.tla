---------------------------- MODULE BridgeProofs ----------------------------
(***************************************************************************)
(* Proofs about Bridge, for all accounts, tokens, items and bounds: types, *)
(* the account of the pallet, the map of the tokens, and that what one     *)
(* chain has of the other's tokens and items is kept there.                *)
(***************************************************************************)
EXTENDS Bridge, SumTheorems, SequenceTheorems, TLAPS

Holders == Accounts \cup {PalletAccount}

\* An account is empty or has the existential deposit.
NoDust(b) == \A a \in Holders : b[a] = 0 \/ b[a] >= ED

LEMMA PayingHolders ==
    PalletAccount \in Holders
    /\ \A who \in Accounts : who \in Holders /\ who # PalletAccount
BY BridgeAssumption DEF Holders

\* A transfer that pallet_balances grants leaves no dust, takes nothing from
\* the receiver, and keeps a sender alive that has to be kept alive.
LEMMA TransferKeeps ==
    ASSUME NEW b \in [Holders -> Nat], NoDust(b),
           NEW from \in Holders, NEW to \in Holders, from # to, NEW amount \in Nat,
           NEW keepAlive \in BOOLEAN, CanTransfer(b, from, to, amount, keepAlive)
    PROVE  LET c == Transfer(b, from, to, amount)
           IN  /\ c \in [Holders -> Nat]
               /\ NoDust(c)
               /\ c[to] >= b[to]
               /\ keepAlive /\ b[from] >= ED => c[from] >= ED
<1> DEFINE c == Transfer(b, from, to, amount)
<1>1. CASE amount = 0
  BY <1>1, BridgeAssumption DEF Transfer
<1>2. CASE amount # 0
  <2>1. /\ b[from] \in Nat /\ b[to] \in Nat /\ ED \in Nat
        /\ b[from] >= amount /\ b[to] + amount >= ED
        /\ keepAlive => b[from] - amount >= ED
    BY <1>2, BridgeAssumption DEF CanTransfer
  <2> DEFINE rest == IF b[from] - amount < ED THEN 0 ELSE b[from] - amount
  <2>2. c = [b EXCEPT ![from] = rest, ![to] = b[to] + amount]
    BY <1>2 DEF Transfer
  <2>3. rest \in Nat /\ (rest = 0 \/ rest >= ED) /\ (keepAlive => rest >= ED)
    BY <2>1
  <2> HIDE DEF rest
  <2>4. c \in [Holders -> Nat]
    BY <2>1, <2>2, <2>3
  <2>5. /\ c[from] = rest /\ c[to] = b[to] + amount
        /\ \A a \in Holders \ {from, to} : c[a] = b[a]
    BY <2>2
  <2>6. NoDust(c)
    BY <2>1, <2>3, <2>5 DEF NoDust
  <2> QED
    BY <2>1, <2>3, <2>4, <2>5, <2>6
<1> QED
  BY <1>1, <1>2
-----------------------------------------------------------------------------
\* The balances alone: what follows about them needs nothing else.
BalancesOK == balance \in [Holders -> Nat] /\ NoDust(balance) /\ fee \in Nat

\* A fee is paid.
LEMMA FeeKeeps ==
    ASSUME BalancesOK, NEW who \in Accounts, CanPayFee(who)
    PROVE  /\ AfterFee(who) \in [Holders -> Nat]
           /\ NoDust(AfterFee(who))
           /\ AfterFee(who)[PalletAccount] >= balance[PalletAccount]
<1>1. CanTransfer(balance, who, PalletAccount, fee, FALSE)
  BY DEF CanPayFee
<1>2. LET c == Transfer(balance, who, PalletAccount, fee)
      IN  /\ c \in [Holders -> Nat] /\ NoDust(c)
          /\ c[PalletAccount] >= balance[PalletAccount]
  BY <1>1, PayingHolders, TransferKeeps DEF BalancesOK
<1> QED
  BY <1>2 DEF AfterFee

LEMMA LockKeeps ==
    ASSUME BalancesOK, NEW who \in Accounts, NEW amount \in Nat, CanPayFee(who),
           CanTransfer(AfterFee(who), who, PalletAccount, amount, FALSE)
    PROVE  LET c == Transfer(AfterFee(who), who, PalletAccount, amount)
           IN  /\ c \in [Holders -> Nat]
               /\ NoDust(c)
               /\ c[PalletAccount] >= balance[PalletAccount]
<1> DEFINE b == AfterFee(who)
           c == Transfer(b, who, PalletAccount, amount)
<1>1. b \in [Holders -> Nat] /\ NoDust(b) /\ b[PalletAccount] >= balance[PalletAccount]
  BY FeeKeeps
<1> HIDE DEF b
<1>2. CanTransfer(b, who, PalletAccount, amount, FALSE)
  BY DEF b
<1>3. c \in [Holders -> Nat] /\ NoDust(c) /\ c[PalletAccount] >= b[PalletAccount]
  BY <1>1, <1>2, PayingHolders, TransferKeeps
<1>4. /\ balance[PalletAccount] \in Nat /\ b[PalletAccount] \in Nat
      /\ c[PalletAccount] \in Nat
  BY <1>1, <1>3, PayingHolders DEF BalancesOK
<1>5. c[PalletAccount] >= balance[PalletAccount]
  BY <1>1, <1>3, <1>4
<1> QED
  BY <1>3, <1>5 DEF b

\* The account pays out, and is kept alive.
LEMMA UnlockKeeps ==
    ASSUME BalancesOK, NEW who \in Accounts, NEW amount \in Nat,
           CanTransfer(balance, PalletAccount, who, amount, TRUE)
    PROVE  LET c == Transfer(balance, PalletAccount, who, amount)
           IN  /\ c \in [Holders -> Nat]
               /\ NoDust(c)
               /\ balance[PalletAccount] >= ED => c[PalletAccount] >= ED
BY PayingHolders, TransferKeeps DEF BalancesOK
-----------------------------------------------------------------------------
LEMMA TypesOfBalances == ASSUME TypeOK PROVE BalancesOK
BY BridgeAssumption DEF TypeOK, BalancesOK, Holders, NoDust

LEMMA FirstNotification ==
    ASSUME TypeOK, down # <<>>
    PROVE  Head(down) \in Notification /\ Tail(down) \in Seq(Notification)
BY HeadTailProperties DEF TypeOK

\* What any step does to the balances.
LEMMA BalanceStep ==
    ASSUME TypeOK, [Next]_vars
    PROVE  /\ balance' \in [Holders -> Nat] /\ NoDust(balance')
           /\ balance[PalletAccount] >= ED => balance'[PalletAccount] >= ED
<1> DEFINE Goal == /\ balance' \in [Holders -> Nat] /\ NoDust(balance')
                   /\ balance[PalletAccount] >= ED => balance'[PalletAccount] >= ED
<1>a. BalancesOK /\ ED \in Nat
  BY TypesOfBalances, BridgeAssumption
<1>b. balance' = balance => Goal
  BY <1>a DEF BalancesOK
<1>c. /\ balance' \in [Holders -> Nat] /\ NoDust(balance')
      /\ balance'[PalletAccount] >= balance[PalletAccount]
      => Goal
  BY <1>a, PayingHolders DEF BalancesOK
<1> SUFFICES Goal
  OBVIOUS
<1> HIDE DEF Goal
<1>1. ASSUME NEW who \in Accounts, UserCall(who)
      PROVE  Goal
  <2>1. ASSUME NEW amount \in Amounts, lock(who, amount)
        PROVE  Goal
    <3>1. /\ CanPayFee(who)
          /\ CanTransfer(AfterFee(who), who, PalletAccount, amount, FALSE)
          /\ balance' = Transfer(AfterFee(who), who, PalletAccount, amount)
      BY <2>1 DEF lock
    <3>2. amount \in Nat
      BY BridgeAssumption
    <3> QED
      BY <1>a, <1>c, <3>1, <3>2, LockKeeps
  <2>2. ASSUME NEW asset \in Assets, NEW amount \in Amounts, burn_nep141(who, asset, amount)
        PROVE  Goal
    BY <1>a, <1>c, <2>2, FeeKeeps DEF burn_nep141
  <2>3. ASSUME NEW item \in Items, lock_nonfungible(who, item)
        PROVE  Goal
    BY <1>a, <1>c, <2>3, FeeKeeps DEF lock_nonfungible
  <2> QED
    BY <1>1, <2>1, <2>2, <2>3 DEF UserCall
<1>2. CASE process_notification
  <2> DEFINE n == Head(down)
  <2>1. n \in Notification
    BY <1>2, FirstNotification DEF process_notification
  <2>2. CASE unlock(n)
    <3>1. n.receiver \in Accounts /\ n.amount \in Nat
      BY <2>1 DEF Notification
    <3>2. /\ CanTransfer(balance, PalletAccount, n.receiver, n.amount, TRUE)
          /\ balance' = Transfer(balance, PalletAccount, n.receiver, n.amount)
      BY <2>2 DEF unlock, CanUnlock
    <3> HIDE DEF n
    <3> QED
      BY <1>a, <3>1, <3>2, UnlockKeeps DEF Goal
  <2>3. CASE ~unlock(n)
    BY <1>2, <1>b, <2>3
    DEF process_notification, mint_nep141, unlock_nonfungible, NotificationFails, assetVars
  <2> QED
    BY <2>2, <2>3
<1>3. CASE RootCall
  <2>1. ASSUME NEW who \in Accounts, NEW amount \in Amounts, force_unlock(who, amount)
        PROVE  Goal
    <3>1. /\ CanTransfer(balance, PalletAccount, who, amount, TRUE)
          /\ balance' = Transfer(balance, PalletAccount, who, amount)
          /\ amount \in Nat
      BY <2>1, BridgeAssumption DEF force_unlock
    <3> QED
      BY <1>a, <3>1, UnlockKeeps DEF Goal
  <2>2. CASE \/ \E who \in Accounts, amount \in Amounts, asset \in Assets :
                  force_mint_nep141(asset, who, amount)
             \/ \E who \in Accounts, item \in Items : force_unlock_nonfungible(who, item)
             \/ \E value \in BOOLEAN : force_set_is_activated(value)
    BY <1>b, <2>2
    DEF force_mint_nep141, force_unlock_nonfungible, force_set_is_activated, assetVars
  <2> QED
    BY <1>3, <2>1, <2>2 DEF RootCall
<1>4. CASE Remap \/ \E newFee \in Fees : set_token_price(newFee)
  BY <1>b, <1>4 DEF Remap, set_token_id, delete_token_id, set_token_price, assetVars
<1>5. CASE on_runtime_upgrade \/ Mainchain \/ UNCHANGED vars
  BY <1>b, <1>5 DEF on_runtime_upgrade, Mainchain, ExecuteMessage, BurnWrapped, DepositToken,
                    BurnItem, vars, assetVars
<1> QED
  BY <1>1, <1>2, <1>3, <1>4, <1>5 DEF Next, Appchain
-----------------------------------------------------------------------------
\* The map of the tokens, also while it is still in the other pallet.
OneToOne(map) == \A p, q \in map : p[1] = q[1] <=> p[2] = q[2]

MapInv ==
    /\ OneToOne(assetIdByTokenId)
    /\ storageVersion = 0 => assetIdByTokenId = {} /\ OneToOne(oldTokens)

LEMMA MapInit == ASSUME OneToOne(GenesisTokens), Init PROVE MapInv
BY DEF Init, MapInv, OneToOne

LEMMA MapStep == ASSUME MapInv, [Next]_vars PROVE MapInv'
<1>1. CASE storageVersion = 1 /\ \E token \in Tokens, asset \in Assets : set_token_id(token, asset)
  <2>1. PICK token \in Tokens, asset \in Assets : set_token_id(token, asset)
    BY <1>1
  <2>2. /\ assetIdByTokenId' = assetIdByTokenId \cup {<<token, asset>>}
        /\ UNCHANGED storageVersion
        /\ \A p \in assetIdByTokenId : p[1] # token /\ p[2] # asset
    BY <2>1 DEF set_token_id, AssetIdsOf, TokenIdsOf, upgradeVars
  <2> QED
    BY <1>1, <2>2 DEF MapInv, OneToOne
<1>2. CASE storageVersion = 1 /\ \E token \in Tokens : delete_token_id(token)
  BY <1>2 DEF delete_token_id, upgradeVars, MapInv, OneToOne
<1>3. CASE on_runtime_upgrade
  BY <1>3 DEF on_runtime_upgrade, migration_to_v1, MapInv, OneToOne
<1>4. CASE Mainchain \/ UNCHANGED vars
  BY <1>4 DEF Mainchain, ExecuteMessage, BurnWrapped, DepositToken, BurnItem, vars, configVars,
              upgradeVars, MapInv
<1>5. CASE \/ \E who \in Accounts : UserCall(who)
           \/ process_notification \/ RootCall
           \/ \E newFee \in Fees : set_token_price(newFee)
  <2>1. UNCHANGED <<assetIdByTokenId, storageVersion, oldTokens>>
    BY <1>5 DEF UserCall, lock, burn_nep141, lock_nonfungible, process_notification, RootCall,
                force_unlock, force_mint_nep141, force_unlock_nonfungible,
                force_set_is_activated, set_token_price, configVars, upgradeVars
  <2> QED
    BY <2>1 DEF MapInv
<1> QED
  BY <1>1, <1>2, <1>3, <1>4, <1>5 DEF Next, Appchain, Remap

\* If the genesis, or the map that the upgrade moves, gives every token one asset
\* and every asset one token, root cannot make it otherwise.
THEOREM TokensMatch ==
    ASSUME OneToOne(GenesisTokens)
    PROVE  Spec => []TokensMatchAssets
<1>1. MapInv => TokensMatchAssets
  BY DEF MapInv, OneToOne, TokensMatchAssets
<1> QED
  BY <1>1, MapInit, MapStep, PTL DEF Spec
-----------------------------------------------------------------------------
LEMMA TypeInit == Init => TypeOK
<1> SUFFICES ASSUME Init PROVE TypeOK
  OBVIOUS
<1>1. /\ balance \in [Accounts \cup {PalletAccount} -> Nat]
      /\ \A a \in DOMAIN balance : balance[a] = 0 \/ balance[a] >= ED
  BY BridgeAssumption DEF Init
<1>2. /\ holding \in [Assets -> [Accounts -> Nat]]
      /\ owner \in [Items -> Accounts \cup {PalletAccount}]
      /\ forced \in [Assets \cup {NoToken} -> Nat] /\ forcedItems \subseteq Items
  BY DEF Init
<1>3. /\ up \in Seq(Message) /\ down \in Seq(Notification) /\ failed \in Seq(Notification)
      /\ wrapped \in Nat /\ deposited \in [Tokens -> Nat] /\ minted \subseteq Items
      /\ fees \in Nat
  BY <1>1 DEF Init
<1>4. /\ isActivated \in BOOLEAN /\ fee \in Fees \cup {0}
      /\ assetIdByTokenId \subseteq Tokens \X Assets /\ oldTokens \subseteq Tokens \X Assets
      /\ storageVersion \in {0, 1}
      /\ unimplemented \subseteq {"Fungibles", "Nonfungibles"}
      /\ deleted \subseteq Tokens \X Assets
  BY BridgeAssumption DEF Init
<1> QED
  BY <1>1, <1>2, <1>3, <1>4 DEF TypeOK

\* The messages and notifications that the steps make.
LEMMA SubmitType ==
    ASSUME TypeOK, NEW token \in Kinds, NEW amount \in Nat,
           Submit([token |-> token, amount |-> amount])
    PROVE  up' \in Seq(Message)
<1>1. [token |-> token, amount |-> amount] \in Message
  BY DEF Message
<1> QED
  BY <1>1, AppendProperties DEF TypeOK, Submit

LEMMA NotifyType ==
    ASSUME TypeOK, NEW token \in Kinds, NEW amount \in Nat, NEW who \in Accounts,
           down' = Append(down, [token |-> token, amount |-> amount, receiver |-> who])
    PROVE  down' \in Seq(Notification)
<1>1. [token |-> token, amount |-> amount, receiver |-> who] \in Notification
  BY DEF Notification
<1> QED
  BY <1>1, AppendProperties DEF TypeOK

\* The types of all but the balances, of which BalanceStep speaks.
OtherTypes ==
    /\ isActivated \in BOOLEAN
    /\ holding \in [Assets -> [Accounts -> Nat]]
    /\ assetIdByTokenId \subseteq Tokens \X Assets
    /\ fee \in Fees \cup {0}
    /\ owner \in [Items -> Accounts \cup {PalletAccount}]
    /\ storageVersion \in {0, 1}
    /\ oldTokens \subseteq Tokens \X Assets
    /\ unimplemented \subseteq {"Fungibles", "Nonfungibles"}
    /\ up \in Seq(Message) /\ down \in Seq(Notification)
    /\ wrapped \in Nat /\ deposited \in [Tokens -> Nat] /\ minted \subseteq Items
    /\ failed \in Seq(Notification)
    /\ fees \in Nat
    /\ forced \in [Assets \cup {NoToken} -> Nat]
    /\ forcedItems \subseteq Items
    /\ deleted \subseteq Tokens \X Assets

LEMMA UserType ==
    ASSUME TypeOK, NEW who \in Accounts, UserCall(who)
    PROVE  OtherTypes'
<1> USE DEF configVars, upgradeVars, mainchainVars, forcedVars, TypeOK, OtherTypes
<1>a. fee \in Nat /\ fees + fee \in Nat
  BY BridgeAssumption
<1>1. ASSUME NEW amount \in Amounts, lock(who, amount)
      PROVE  OtherTypes'
  <2>1. amount \in Nat /\ NoToken \in Kinds
    BY BridgeAssumption DEF Kinds
  <2>2. up' \in Seq(Message)
    BY <1>1, <2>1, SubmitType DEF lock
  <2> QED
    BY <1>1, <1>a, <2>2 DEF lock
<1>2. ASSUME NEW asset \in Assets, NEW amount \in Amounts, burn_nep141(who, asset, amount)
      PROVE  OtherTypes'
  <2>1. amount \in Nat /\ TokenIdsOf(asset) \subseteq Kinds
    BY BridgeAssumption DEF Kinds, TokenIdsOf
  <2>2. up' \in Seq(Message)
    BY <1>2, <2>1, SubmitType DEF burn_nep141
  <2>3. holding' \in [Assets -> [Accounts -> Nat]]
    <3>1. holding[asset] \in [Accounts -> Nat] /\ holding[asset][who] - amount \in Nat
      BY <1>2, <2>1 DEF burn_nep141
    <3>2. holding' = [holding EXCEPT ![asset] =
                        [holding[asset] EXCEPT ![who] = holding[asset][who] - amount]]
      BY <1>2 DEF burn_nep141
    <3> QED
      BY <3>1, <3>2
  <2> QED
    BY <1>2, <1>a, <2>2, <2>3 DEF burn_nep141
<1>3. ASSUME NEW item \in Items, lock_nonfungible(who, item)
      PROVE  OtherTypes'
  <2>1. up' \in Seq(Message)
    BY <1>3, SubmitType DEF lock_nonfungible, Kinds
  <2> QED
    BY <1>3, <1>a, <2>1 DEF lock_nonfungible
<1> QED
  BY <1>1, <1>2, <1>3 DEF UserCall

LEMMA NotificationType ==
    ASSUME TypeOK, process_notification
    PROVE  OtherTypes'
<1> USE DEF configVars, upgradeVars, mainchainVars, forcedVars, TypeOK, OtherTypes
<1> DEFINE n == Head(down)
<1>1. n \in Notification /\ Tail(down) \in Seq(Notification)
  BY FirstNotification DEF process_notification
<1>2. n.amount \in Nat /\ n.receiver \in Accounts
  BY <1>1 DEF Notification
<1>3. down' \in Seq(Notification)
      /\ UNCHANGED <<configVars, up, mainchainVars, fees, forcedVars>>
  BY <1>1 DEF process_notification
<1>4. CASE unlock(n)
  BY <1>3, <1>4 DEF unlock
<1>5. CASE mint_nep141(n)
  <2>1. PICK asset \in AssetIdsOf(n.token) :
          holding' = [holding EXCEPT ![asset][n.receiver] = @ + n.amount]
    BY <1>5 DEF mint_nep141
  <2>2. asset \in Assets
    BY DEF AssetIdsOf
  <2>3. holding' \in [Assets -> [Accounts -> Nat]]
    <3>1. holding[asset] \in [Accounts -> Nat] /\ holding[asset][n.receiver] + n.amount \in Nat
      BY <1>2, <2>2
    <3>2. holding' = [holding EXCEPT ![asset] =
                        [holding[asset] EXCEPT ![n.receiver] = holding[asset][n.receiver] + n.amount]]
      BY <2>1
    <3> HIDE DEF n
    <3> QED
      BY <1>2, <2>2, <3>1, <3>2
  <2> QED
    BY <1>3, <1>5, <2>3 DEF mint_nep141
<1>6. CASE unlock_nonfungible(n)
  BY <1>2, <1>3, <1>6 DEF unlock_nonfungible
<1>7. CASE NotificationFails(n)
  <2>1. failed' \in Seq(Notification)
    BY <1>1, <1>7, AppendProperties DEF NotificationFails
  <2> QED
    BY <1>3, <1>7, <2>1 DEF NotificationFails, assetVars
<1> QED
  BY <1>4, <1>5, <1>6, <1>7 DEF process_notification

LEMMA RootType ==
    ASSUME TypeOK, RootCall
    PROVE  OtherTypes'
<1> USE DEF configVars, upgradeVars, assetVars, mainchainVars, forcedVars, historyVars,
            TypeOK, OtherTypes
<1>1. ASSUME NEW who \in Accounts, NEW amount \in Amounts, force_unlock(who, amount)
      PROVE  OtherTypes'
  <2>1. amount \in Nat /\ NoToken \in Assets \cup {NoToken}
    BY BridgeAssumption
  <2>2. forced' \in [Assets \cup {NoToken} -> Nat]
    BY <1>1, <2>1 DEF force_unlock
  <2> QED
    BY <1>1, <2>2 DEF force_unlock
<1>2. ASSUME NEW who \in Accounts, NEW amount \in Amounts, NEW asset \in Assets,
             force_mint_nep141(asset, who, amount)
      PROVE  OtherTypes'
  <2>1. amount \in Nat /\ holding[asset] \in [Accounts -> Nat]
    BY BridgeAssumption
  <2>2. forced' \in [Assets \cup {NoToken} -> Nat]
    BY <1>2, <2>1 DEF force_mint_nep141
  <2>3. holding' = [holding EXCEPT ![asset] =
                      [holding[asset] EXCEPT ![who] = holding[asset][who] + amount]]
    BY <1>2 DEF force_mint_nep141
  <2>4. holding' \in [Assets -> [Accounts -> Nat]]
    BY <2>1, <2>3
  <2> QED
    BY <1>2, <2>2, <2>4 DEF force_mint_nep141
<1>3. ASSUME NEW who \in Accounts, NEW item \in Items, force_unlock_nonfungible(who, item)
      PROVE  OtherTypes'
  BY <1>3 DEF force_unlock_nonfungible
<1>4. ASSUME NEW value \in BOOLEAN, force_set_is_activated(value)
      PROVE  OtherTypes'
  BY <1>4 DEF force_set_is_activated
<1> QED
  BY <1>1, <1>2, <1>3, <1>4 DEF RootCall

LEMMA ConfigType ==
    ASSUME TypeOK,
           Remap \/ on_runtime_upgrade \/ \E newFee \in Fees : set_token_price(newFee)
    PROVE  OtherTypes'
<1> USE DEF upgradeVars, assetVars, mainchainVars, forcedVars, historyVars,
            TypeOK, OtherTypes
<1>1. ASSUME NEW token \in Tokens, NEW asset \in Assets, set_token_id(token, asset)
      PROVE  OtherTypes'
  <2>1. <<token, asset>> \in Tokens \X Assets
    OBVIOUS
  <2> QED
    BY <1>1, <2>1 DEF set_token_id
<1>2. ASSUME NEW token \in Tokens, delete_token_id(token)
      PROVE  OtherTypes'
  BY <1>2 DEF delete_token_id
<1>3. CASE on_runtime_upgrade
  BY <1>3 DEF on_runtime_upgrade, migration_to_v1
<1>4. ASSUME NEW newFee \in Fees, set_token_price(newFee)
      PROVE  OtherTypes'
  BY <1>4 DEF set_token_price
<1> QED
  BY <1>1, <1>2, <1>3, <1>4 DEF Remap

LEMMA MainchainType ==
    ASSUME TypeOK, Mainchain
    PROVE  OtherTypes'
<1> USE DEF configVars, upgradeVars, assetVars, historyVars, forcedVars, TypeOK, OtherTypes
<1>1. CASE ExecuteMessage
  <2> DEFINE m == Head(up)
  <2>1. m \in Message /\ up' \in Seq(Message)
    BY <1>1, HeadTailProperties DEF ExecuteMessage
  <2>2. m.amount \in Nat
    BY <2>1 DEF Message
  <2>3. wrapped' \in Nat /\ deposited' \in [Tokens -> Nat] /\ minted' \subseteq Items
    <3>1. CASE m.token = NoToken /\ wrapped' = wrapped + m.amount /\ UNCHANGED <<deposited, minted>>
      BY <2>2, <3>1
    <3>2. CASE /\ m.token \in Tokens /\ deposited[m.token] >= m.amount
               /\ deposited' = [deposited EXCEPT ![m.token] = @ - m.amount]
               /\ UNCHANGED <<wrapped, minted>>
      <4>1. deposited[m.token] - m.amount \in Nat
        BY <2>2, <3>2
      <4> QED
        BY <3>2, <4>1
    <3>3. CASE m.token \in Items /\ minted' = minted \cup {m.token} /\ UNCHANGED <<wrapped, deposited>>
      BY <3>3
    <3> QED
      BY <1>1, <3>1, <3>2, <3>3 DEF ExecuteMessage
  <2>4. UNCHANGED <<configVars, assetVars, down, historyVars>>
    BY <1>1 DEF ExecuteMessage
  <2> QED
    BY <2>1, <2>3, <2>4
<1>2. ASSUME NEW who \in Accounts, NEW amount \in Amounts, BurnWrapped(who, amount)
      PROVE  OtherTypes'
  <2>1. amount \in Nat /\ NoToken \in Kinds
    BY BridgeAssumption DEF Kinds
  <2>2. down' \in Seq(Notification)
    BY <1>2, <2>1, NotifyType DEF BurnWrapped
  <2> QED
    BY <1>2, <2>1, <2>2 DEF BurnWrapped
<1>3. ASSUME NEW who \in Accounts, NEW amount \in Amounts, NEW token \in Tokens,
             DepositToken(token, who, amount)
      PROVE  OtherTypes'
  <2>1. amount \in Nat /\ token \in Kinds
    BY BridgeAssumption DEF Kinds
  <2>2. down' \in Seq(Notification)
    BY <1>3, <2>1, NotifyType DEF DepositToken
  <2>3. deposited' \in [Tokens -> Nat]
    BY <1>3, <2>1 DEF DepositToken
  <2> QED
    BY <1>3, <2>2, <2>3 DEF DepositToken
<1>4. ASSUME NEW who \in Accounts, NEW item \in Items, BurnItem(item, who)
      PROVE  OtherTypes'
  <2>1. down' \in Seq(Notification)
    BY <1>4, NotifyType DEF BurnItem, Kinds
  <2> QED
    BY <1>4, <2>1 DEF BurnItem
<1> QED
  BY <1>1, <1>2, <1>3, <1>4 DEF Mainchain

LEMMA TypeStep == TypeOK /\ [Next]_vars => TypeOK'
<1> SUFFICES ASSUME TypeOK, [Next]_vars PROVE TypeOK'
  OBVIOUS
<1>1. balance' \in [Holders -> Nat] /\ NoDust(balance')
  BY BalanceStep
<1>2. OtherTypes'
  <2>1. CASE UNCHANGED vars
    BY <2>1 DEF vars, configVars, upgradeVars, assetVars, mainchainVars, historyVars,
                forcedVars, TypeOK, OtherTypes
  <2>2. CASE Next
    BY <2>2, UserType, NotificationType, RootType, ConfigType, MainchainType
    DEF Next, Appchain
  <2> QED
    BY <2>1, <2>2
<1> QED
  BY <1>1, <1>2 DEF OtherTypes, TypeOK, Holders, NoDust

\* The types, and with them: no account is left with less than the deposit.
THEOREM TypeCorrect == Spec => []TypeOK
BY TypeInit, TypeStep, PTL DEF Spec

\* The account of the pallet never dies once it holds the deposit, whatever fees
\* it gets and whatever notifications and root take from it.
THEOREM AccountAlive == Spec => AccountStaysAlive
<1>1. TypeOK /\ [Next]_vars
        => [balance[PalletAccount] >= ED => balance'[PalletAccount] >= ED]_vars
  BY BalanceStep
<1> QED
  BY <1>1, TypeInit, TypeStep, PTL DEF Spec, AccountStaysAlive
-----------------------------------------------------------------------------
\* What a list of messages or notifications carries of a token.

Entries == Message \cup Notification

LEMMA AmountType ==
    ASSUME NEW entry \in Entries, NEW token
    PROVE  Amount(entry, token) \in Nat
BY DEF Entries, Message, Notification, Amount

LEMMA AmountsType ==
    ASSUME NEW list \in Seq(Entries), NEW token
    PROVE  [i \in DOMAIN list |-> Amount(list[i], token)] \in Seq(Nat)
<1>1. \A i \in 1..Len(list) : list[i] \in Entries
  OBVIOUS
<1>2. \A i \in 1..Len(list) : Amount(list[i], token) \in Nat
  BY <1>1, AmountType
<1> QED
  BY <1>2

LEMMA SumOfNothing == ASSUME NEW token PROVE SumOf(<<>>, token) = 0
<1>1. [i \in DOMAIN <<>> |-> Amount(<<>>[i], token)] = <<>>
  OBVIOUS
<1> QED
  BY <1>1, SumOfEmptyList DEF SumOf

LEMMA SumOfType ==
    ASSUME NEW list \in Seq(Entries), NEW token
    PROVE  SumOf(list, token) \in Nat
BY AmountsType, SumOfNats DEF SumOf

LEMMA SumOfMore ==
    ASSUME NEW list \in Seq(Entries), NEW entry \in Entries, NEW token
    PROVE  SumOf(Append(list, entry), token) = SumOf(list, token) + Amount(entry, token)
<1> DEFINE s == [i \in DOMAIN list |-> Amount(list[i], token)]
           more == Append(list, entry)
           x == Amount(entry, token)
<1>1. s \in Seq(Int) /\ Len(s) = Len(list) /\ x \in Int
  BY AmountsType, AmountType
<1>2. [i \in DOMAIN more |-> Amount(more[i], token)] = Append(s, x)
  BY <1>1, AppendProperties
<1>3. SumFunction(Append(s, x)) = SumFunction(s) + x
  BY <1>1, SumOfAppended
<1> QED
  BY <1>2, <1>3 DEF SumOf

LEMMA SumOfFewer ==
    ASSUME NEW list \in Seq(Entries), list # <<>>, NEW token
    PROVE  SumOf(list, token) = Amount(Head(list), token) + SumOf(Tail(list), token)
<1> DEFINE s == [i \in DOMAIN list |-> Amount(list[i], token)]
           fewer == Tail(list)
<1>1. s \in Seq(Int) /\ Len(s) = Len(list) /\ Len(list) # 0
  <2>1. s \in Seq(Nat)
    BY AmountsType
  <2>2. Len(list) # 0
    BY EmptySeq
  <2> QED
    BY <2>1, <2>2
<1>2. s # <<>> /\ Head(s) = Amount(Head(list), token)
  BY <1>1
<1>3. [i \in DOMAIN fewer |-> Amount(fewer[i], token)] = Tail(s)
  BY <1>1, HeadTailProperties
<1>4. SumFunction(s) = Head(s) + SumFunction(Tail(s))
  BY <1>1, <1>2, SumOfTail
<1> QED
  BY <1>2, <1>3, <1>4 DEF SumOf

LEMMA ListsOfEntries ==
    ASSUME TypeOK
    PROVE  up \in Seq(Entries) /\ down \in Seq(Entries) /\ failed \in Seq(Entries)
BY DEF TypeOK, Entries

\* The sums of the three lists.
LEMMA SumsType ==
    ASSUME TypeOK, NEW token
    PROVE  /\ SumOf(up, token) \in Nat
           /\ SumOf(down, token) \in Nat
           /\ SumOf(failed, token) \in Nat
BY ListsOfEntries, SumOfType

LEMMA SubmitAdds ==
    ASSUME TypeOK, NEW message \in Message, Submit(message), NEW token
    PROVE  SumOf(up', token) = SumOf(up, token) + Amount(message, token)
<1>1. up \in Seq(Entries) /\ message \in Entries
  BY ListsOfEntries DEF Entries
<1>2. up' = Append(up, message)
  BY DEF Submit
<1>3. SumOf(Append(up, message), token) = SumOf(up, token) + Amount(message, token)
  BY ONLY <1>1, SumOfMore
<1> QED
  BY ONLY <1>2, <1>3

LEMMA NotifyAdds ==
    ASSUME TypeOK, NEW n \in Notification, down' = Append(down, n), NEW token
    PROVE  SumOf(down', token) = SumOf(down, token) + Amount(n, token)
<1>1. down \in Seq(Entries) /\ n \in Entries
  BY ListsOfEntries DEF Entries
<1>2. SumOf(Append(down, n), token) = SumOf(down, token) + Amount(n, token)
  BY ONLY <1>1, SumOfMore
<1> QED
  BY ONLY <1>2, down' = Append(down, n)

LEMMA FailureAdds ==
    ASSUME TypeOK, NEW n \in Notification, failed' = Append(failed, n), NEW token
    PROVE  SumOf(failed', token) = SumOf(failed, token) + Amount(n, token)
<1>1. failed \in Seq(Entries) /\ n \in Entries
  BY ListsOfEntries DEF Entries
<1>2. SumOf(Append(failed, n), token) = SumOf(failed, token) + Amount(n, token)
  BY ONLY <1>1, SumOfMore
<1> QED
  BY ONLY <1>2, failed' = Append(failed, n)

LEMMA ExecutionTakes ==
    ASSUME TypeOK, up # <<>>, up' = Tail(up), NEW token
    PROVE  SumOf(up, token) = Amount(Head(up), token) + SumOf(up', token)
<1>1. up \in Seq(Entries)
  BY ListsOfEntries
<1>2. SumOf(up, token) = Amount(Head(up), token) + SumOf(Tail(up), token)
  BY ONLY <1>1, up # <<>>, SumOfFewer
<1> QED
  BY ONLY <1>2, up' = Tail(up)

LEMMA ProcessingTakes ==
    ASSUME TypeOK, down # <<>>, down' = Tail(down), NEW token
    PROVE  SumOf(down, token) = Amount(Head(down), token) + SumOf(down', token)
<1>1. down \in Seq(Entries)
  BY ListsOfEntries
<1>2. SumOf(down, token) = Amount(Head(down), token) + SumOf(Tail(down), token)
  BY ONLY <1>1, down # <<>>, SumOfFewer
<1> QED
  BY ONLY <1>2, down' = Tail(down)
-----------------------------------------------------------------------------
\* The native tokens. What is paid to the account arrives there in full, and
\* what it pays leaves no dust behind, as it is kept alive.

LEMMA AmountReceived ==
    ASSUME NEW b \in [Holders -> Nat], NEW who \in Accounts, NEW amount \in Nat,
           CanTransfer(b, who, PalletAccount, amount, FALSE)
    PROVE  Transfer(b, who, PalletAccount, amount)[PalletAccount] = b[PalletAccount] + amount
BY PayingHolders DEF Transfer

LEMMA AmountPaid ==
    ASSUME NEW b \in [Holders -> Nat], NEW who \in Accounts, NEW amount \in Nat,
           CanTransfer(b, PalletAccount, who, amount, TRUE)
    PROVE  Transfer(b, PalletAccount, who, amount)[PalletAccount] = b[PalletAccount] - amount
<1>1. b[PalletAccount] \in Nat /\ ED \in Nat \ {0} /\ who # PalletAccount
  BY PayingHolders, BridgeAssumption
<1> QED
  BY <1>1, PayingHolders DEF Transfer, CanTransfer

LEMMA FeeReceived ==
    ASSUME BalancesOK, NEW who \in Accounts, CanPayFee(who)
    PROVE  AfterFee(who)[PalletAccount] = balance[PalletAccount] + fee
BY AmountReceived DEF BalancesOK, CanPayFee, AfterFee

LEMMA NativeInit == Init => NativeIsBacked
<1> SUFFICES ASSUME Init PROVE NativeIsBacked
  OBVIOUS
<1>1. /\ SumOf(up, NoToken) = 0 /\ SumOf(down, NoToken) = 0 /\ SumOf(failed, NoToken) = 0
  BY SumOfNothing DEF Init
<1>2. balance[PalletAccount] \in Nat /\ wrapped = balance[PalletAccount]
  BY BridgeAssumption DEF Init
<1>3. fees = 0 /\ forced[NoToken] = 0
  BY DEF Init
<1> QED
  BY <1>1, <1>2, <1>3 DEF NativeIsBacked

\* What the sums and numbers of the equation are.
LEMMA NativeTypes ==
    ASSUME TypeOK
    PROVE  /\ balance[PalletAccount] \in Nat /\ forced[NoToken] \in Nat
           /\ wrapped \in Nat /\ fees \in Nat /\ fee \in Nat
           /\ SumOf(up, NoToken) \in Nat
           /\ SumOf(down, NoToken) \in Nat
           /\ SumOf(failed, NoToken) \in Nat
BY SumsType, BridgeAssumption DEF TypeOK

\* A user's call: what it takes from the user beside the fee is in the message.
LEMMA NativeUser ==
    ASSUME TypeOK, NativeIsBacked, NEW who \in Accounts, UserCall(who)
    PROVE  NativeIsBacked'
<1>a. BalancesOK
  BY TypesOfBalances
<1>1. ASSUME NEW message \in Message, Submit(message),
             balance'[PalletAccount] = balance[PalletAccount] + fee + Amount(message, NoToken),
             fees' = fees + fee, UNCHANGED <<forced, wrapped, down, failed>>
      PROVE  NativeIsBacked'
  <2>1. SumOf(up', NoToken) = SumOf(up, NoToken) + Amount(message, NoToken)
    BY <1>1, SubmitAdds
  <2>2. Amount(message, NoToken) \in Nat
    BY AmountType DEF Entries
  <2> QED
    BY <1>1, <2>1, <2>2, NativeTypes DEF NativeIsBacked
<1>2. ASSUME NEW amount \in Amounts, lock(who, amount)
      PROVE  NativeIsBacked'
  <2> DEFINE message == [token |-> NoToken, amount |-> amount]
  <2>1. message \in Message /\ Amount(message, NoToken) = amount /\ amount \in Nat
    BY BridgeAssumption DEF Message, Kinds, Amount
  <2>2. /\ AfterFee(who) \in [Holders -> Nat]
        /\ AfterFee(who)[PalletAccount] = balance[PalletAccount] + fee
    BY <1>2, <1>a, FeeKeeps, FeeReceived DEF lock
  <2>3. balance'[PalletAccount] = balance[PalletAccount] + fee + amount
    BY <1>2, <2>1, <2>2, AmountReceived DEF lock
  <2>4. Submit(message) /\ fees' = fees + fee /\ UNCHANGED <<forced, wrapped, down, failed>>
    BY <1>2 DEF lock, mainchainVars, forcedVars
  <2> HIDE DEF message
  <2> QED
    BY <1>1, <2>1, <2>3, <2>4
<1>3. ASSUME NEW asset \in Assets, NEW amount \in Amounts, burn_nep141(who, asset, amount)
      PROVE  NativeIsBacked'
  <2>1. PICK token \in TokenIdsOf(asset) : Submit([token |-> token, amount |-> amount])
    BY <1>3 DEF burn_nep141
  <2> DEFINE message == [token |-> token, amount |-> amount]
  <2>2. message \in Message /\ Amount(message, NoToken) = 0 /\ amount \in Nat
    <3>1. token \in Tokens
      BY DEF TypeOK, TokenIdsOf
    <3> QED
      BY <3>1, BridgeAssumption DEF Message, Kinds, Amount
  <2>3. balance'[PalletAccount] = balance[PalletAccount] + fee
    BY <1>3, <1>a, FeeReceived DEF burn_nep141
  <2>4. Submit(message) /\ fees' = fees + fee /\ UNCHANGED <<forced, wrapped, down, failed>>
    BY <1>3, <2>1 DEF burn_nep141, mainchainVars, forcedVars
  <2> HIDE DEF message
  <2> QED
    BY <1>1, <2>2, <2>3, <2>4, NativeTypes
<1>4. ASSUME NEW item \in Items, lock_nonfungible(who, item)
      PROVE  NativeIsBacked'
  <2> DEFINE message == [token |-> item, amount |-> 1]
  <2>1. message \in Message /\ Amount(message, NoToken) = 0
    BY BridgeAssumption DEF Message, Kinds, Amount
  <2>2. balance'[PalletAccount] = balance[PalletAccount] + fee
    BY <1>4, <1>a, FeeReceived DEF lock_nonfungible
  <2>3. Submit(message) /\ fees' = fees + fee /\ UNCHANGED <<forced, wrapped, down, failed>>
    BY <1>4 DEF lock_nonfungible, mainchainVars, forcedVars
  <2> HIDE DEF message
  <2> QED
    BY <1>1, <2>1, <2>2, <2>3, NativeTypes
<1> QED
  BY <1>2, <1>3, <1>4 DEF UserCall

\* A notification is paid from the account, concerns other tokens, or fails.
LEMMA NativeNotification ==
    ASSUME TypeOK, NativeIsBacked, process_notification
    PROVE  NativeIsBacked'
<1> DEFINE n == Head(down)
<1>1. n \in Notification
  BY FirstNotification DEF process_notification
<1>2. n.receiver \in Accounts /\ n.amount \in Nat /\ Amount(n, NoToken) \in Nat
  BY <1>1, AmountType DEF Notification, Entries
<1>3. /\ SumOf(down, NoToken) = Amount(n, NoToken) + SumOf(down', NoToken)
      /\ SumOf(down', NoToken) \in Nat
  <2>1. down' \in Seq(Entries)
    BY FirstNotification DEF process_notification, Entries
  <2> QED
    BY <2>1, ProcessingTakes, SumOfType DEF process_notification
<1>4. UNCHANGED <<up, wrapped, fees, forced>>
  BY DEF process_notification, mainchainVars, forcedVars
<1> HIDE DEF n
<1>5. CASE unlock(n)
  <2>1. balance'[PalletAccount] = balance[PalletAccount] - n.amount
    BY <1>2, <1>5, AmountPaid, TypesOfBalances DEF unlock, CanUnlock, BalancesOK
  <2>2. Amount(n, NoToken) = n.amount /\ UNCHANGED failed
    BY <1>5 DEF unlock, Amount
  <2> QED
    BY <1>2, <1>3, <1>4, <2>1, <2>2, NativeTypes DEF NativeIsBacked
<1>6. CASE mint_nep141(n) \/ unlock_nonfungible(n)
  <2>1. Amount(n, NoToken) = 0 /\ UNCHANGED <<balance, failed>>
    BY <1>6, BridgeAssumption DEF mint_nep141, unlock_nonfungible, Amount
  <2> QED
    BY <1>3, <1>4, <2>1, NativeTypes DEF NativeIsBacked
<1>7. CASE NotificationFails(n)
  <2>1. SumOf(failed', NoToken) = SumOf(failed, NoToken) + Amount(n, NoToken)
    BY <1>1, <1>7, FailureAdds DEF NotificationFails
  <2>2. UNCHANGED balance
    BY <1>7 DEF NotificationFails, assetVars
  <2> QED
    BY <1>2, <1>3, <1>4, <2>1, <2>2, NativeTypes DEF NativeIsBacked
<1> QED
  BY <1>5, <1>6, <1>7 DEF process_notification, n

LEMMA NativeRoot ==
    ASSUME TypeOK, NativeIsBacked, RootCall
    PROVE  NativeIsBacked'
<1>1. ASSUME NEW who \in Accounts, NEW amount \in Amounts, force_unlock(who, amount)
      PROVE  NativeIsBacked'
  <2>1. amount \in Nat /\ balance \in [Holders -> Nat]
    BY BridgeAssumption, TypesOfBalances DEF BalancesOK
  <2>2. balance'[PalletAccount] = balance[PalletAccount] - amount
    BY <1>1, <2>1, AmountPaid DEF force_unlock
  <2>3. forced'[NoToken] = forced[NoToken] + amount
    BY <1>1 DEF force_unlock, TypeOK
  <2>4. UNCHANGED <<up, down, failed, wrapped, fees>>
    BY <1>1 DEF force_unlock, mainchainVars
  <2> QED
    BY <2>1, <2>2, <2>3, <2>4, NativeTypes DEF NativeIsBacked
<1>2. ASSUME NEW who \in Accounts, NEW amount \in Amounts, NEW asset \in Assets,
             force_mint_nep141(asset, who, amount)
      PROVE  NativeIsBacked'
  <2>1. forced'[NoToken] = forced[NoToken]
    BY <1>2, BridgeAssumption DEF force_mint_nep141, TypeOK
  <2> QED
    BY <1>2, <2>1 DEF force_mint_nep141, mainchainVars, NativeIsBacked
<1>3. ASSUME NEW who \in Accounts, NEW item \in Items, force_unlock_nonfungible(who, item)
      PROVE  NativeIsBacked'
  BY <1>3 DEF force_unlock_nonfungible, mainchainVars, NativeIsBacked
<1>4. ASSUME NEW value \in BOOLEAN, force_set_is_activated(value)
      PROVE  NativeIsBacked'
  BY <1>4 DEF force_set_is_activated, assetVars, mainchainVars, historyVars, forcedVars,
              NativeIsBacked
<1> QED
  BY <1>1, <1>2, <1>3, <1>4 DEF RootCall

\* The mainchain issues what a message tells it, and burns before it notifies.
LEMMA NativeMainchain ==
    ASSUME TypeOK, NativeIsBacked, Mainchain
    PROVE  NativeIsBacked'
<1>1. CASE ExecuteMessage
  <2> DEFINE m == Head(up)
  <2>1. m \in Message /\ up' \in Seq(Message)
    BY <1>1, HeadTailProperties DEF ExecuteMessage, TypeOK
  <2>2. /\ SumOf(up, NoToken) = Amount(m, NoToken) + SumOf(up', NoToken)
        /\ SumOf(up', NoToken) \in Nat /\ Amount(m, NoToken) \in Nat
    <3>1. m \in Entries /\ up' \in Seq(Entries)
      BY <2>1 DEF Entries
    <3> QED
      BY <1>1, <3>1, ExecutionTakes, AmountType, SumOfType DEF ExecuteMessage
  <2>3. wrapped' = wrapped + Amount(m, NoToken)
    BY <1>1, NativeTypes, BridgeAssumption DEF ExecuteMessage, Amount
  <2>4. UNCHANGED <<balance, forced, down, failed, fees>>
    BY <1>1 DEF ExecuteMessage, assetVars, historyVars, forcedVars
  <2> HIDE DEF m
  <2> QED
    BY <2>2, <2>3, <2>4, NativeTypes DEF NativeIsBacked
<1>2. ASSUME NEW n \in Notification, down' = Append(down, n),
             wrapped' = wrapped - Amount(n, NoToken),
             UNCHANGED <<balance, forced, up, failed, fees>>
      PROVE  NativeIsBacked'
  <2>1. SumOf(down', NoToken) = SumOf(down, NoToken) + Amount(n, NoToken)
    BY <1>2, NotifyAdds
  <2>2. Amount(n, NoToken) \in Nat
    BY AmountType DEF Entries
  <2> QED
    BY <1>2, <2>1, <2>2, NativeTypes DEF NativeIsBacked
<1>3. ASSUME NEW who \in Accounts, NEW amount \in Amounts, BurnWrapped(who, amount)
      PROVE  NativeIsBacked'
  <2> DEFINE n == [token |-> NoToken, amount |-> amount, receiver |-> who]
  <2>1. n \in Notification /\ Amount(n, NoToken) = amount
    BY BridgeAssumption DEF Notification, Kinds, Amount
  <2> HIDE DEF n
  <2> QED
    BY <1>2, <1>3, <2>1 DEF BurnWrapped, assetVars, historyVars, forcedVars, n
<1>4. ASSUME NEW who \in Accounts, NEW amount \in Amounts, NEW token \in Tokens,
             DepositToken(token, who, amount)
      PROVE  NativeIsBacked'
  <2> DEFINE n == [token |-> token, amount |-> amount, receiver |-> who]
  <2>1. n \in Notification /\ Amount(n, NoToken) = 0
    BY BridgeAssumption DEF Notification, Kinds, Amount
  <2>2. wrapped' = wrapped - 0
    BY <1>4, NativeTypes DEF DepositToken
  <2> HIDE DEF n
  <2> QED
    BY <1>2, <1>4, <2>1, <2>2 DEF DepositToken, assetVars, historyVars, forcedVars, n
<1>5. ASSUME NEW who \in Accounts, NEW item \in Items, BurnItem(item, who)
      PROVE  NativeIsBacked'
  <2> DEFINE n == [token |-> item, amount |-> 1, receiver |-> who]
  <2>1. n \in Notification /\ Amount(n, NoToken) = 0
    BY BridgeAssumption DEF Notification, Kinds, Amount
  <2>2. wrapped' = wrapped - 0
    BY <1>5, NativeTypes DEF BurnItem
  <2> HIDE DEF n
  <2> QED
    BY <1>2, <1>5, <2>1, <2>2 DEF BurnItem, assetVars, historyVars, forcedVars, n
<1> QED
  BY <1>1, <1>3, <1>4, <1>5 DEF Mainchain

\* What no other step touches.
Money == <<balance, holding, owner, up, down, failed, wrapped, deposited, minted, fees,
           forced, forcedItems>>

LEMMA SettingsLeaveMoney ==
    ASSUME \/ Remap \/ on_runtime_upgrade \/ UNCHANGED vars
           \/ \E newFee \in Fees : set_token_price(newFee)
    PROVE  UNCHANGED Money
BY DEF Money, Remap, set_token_id, delete_token_id, on_runtime_upgrade, set_token_price, vars,
       assetVars, mainchainVars, historyVars, forcedVars

LEMMA NativeStep == ASSUME TypeOK, NativeIsBacked, [Next]_vars PROVE NativeIsBacked'
<1>1. CASE \/ Remap \/ on_runtime_upgrade \/ UNCHANGED vars
           \/ \E newFee \in Fees : set_token_price(newFee)
  BY <1>1, SettingsLeaveMoney DEF Money, NativeIsBacked
<1> QED
  BY <1>1, NativeUser, NativeNotification, NativeRoot, NativeMainchain DEF Next, Appchain

\* Every native token on the account of the pallet is accounted for, through
\* locking, refused messages, unlocking that fails, fees and what root does.
THEOREM NativeBacked == Spec => []NativeIsBacked
BY NativeInit, NativeStep, TypeInit, TypeStep, PTL DEF Spec

LEMMA BackedCovers == ASSUME TypeOK, NativeIsBacked PROVE UnlocksAreCovered
<1> SUFFICES ASSUME down # <<>>, Head(down).token = NoToken, forced[NoToken] = 0
             PROVE  balance[PalletAccount] >= Head(down).amount
  BY DEF UnlocksAreCovered
<1>1. Head(down) \in Notification /\ Tail(down) \in Seq(Entries)
  BY FirstNotification DEF Entries
<1>2. /\ SumOf(down, NoToken) = Amount(Head(down), NoToken) + SumOf(Tail(down), NoToken)
      /\ SumOf(Tail(down), NoToken) \in Nat
  BY <1>1, ListsOfEntries, SumOfFewer, SumOfType
<1>3. Amount(Head(down), NoToken) = Head(down).amount /\ Head(down).amount \in Nat
  BY <1>1 DEF Amount, Notification
<1> QED
  BY <1>2, <1>3, NativeTypes DEF NativeIsBacked

\* As long as root has unlocked nothing, the account has what the next notification
\* is to unlock.
THEOREM UnlocksCovered == Spec => []UnlocksAreCovered
BY BackedCovers, NativeBacked, TypeCorrect, PTL
-----------------------------------------------------------------------------
\* The items. One is a unit on its way, so an item that is counted once is
\* at one place only.

UnitEntries(list) == \A i \in DOMAIN list : list[i].token \in Items => list[i].amount = 1

ItemInv == UnitEntries(up) /\ UnitEntries(down) /\ ItemsAreKept

\* The number of times that an item is with the mainchain, or between the chains.
Away(item) ==
    SumOf(up, item) + Cardinality(minted \cap {item}) + SumOf(down, item) + SumOf(failed, item)

LEMMA MintedCount ==
    ASSUME NEW S, NEW item
    PROVE  Cardinality(S \cap {item}) = IF item \in S THEN 1 ELSE 0
<1>1. CASE item \in S
  <2>1. S \cap {item} = {item}
    BY <1>1
  <2> QED
    BY <1>1, <2>1, FS_Singleton
<1>2. CASE item \notin S
  <2>1. S \cap {item} = {}
    BY <1>2
  <2> QED
    BY <1>2, <2>1, FS_EmptySet
<1> QED
  BY <1>1, <1>2

LEMMA ItemInit == Init => ItemInv
<1> SUFFICES ASSUME Init PROVE ItemInv
  OBVIOUS
<1>1. up = <<>> /\ down = <<>> /\ failed = <<>> /\ minted = {}
  BY DEF Init
<1>2. UnitEntries(up) /\ UnitEntries(down)
  BY <1>1 DEF UnitEntries
<1>3. ASSUME NEW item \in Items PROVE Away(item) = 0 /\ owner[item] # PalletAccount
  <2>1. owner[item] # PalletAccount
    BY BridgeAssumption DEF Init
  <2>2. /\ SumOf(up, item) = 0 /\ SumOf(down, item) = 0 /\ SumOf(failed, item) = 0
        /\ Cardinality(minted \cap {item}) = 0
    BY <1>1, SumOfNothing, MintedCount
  <2> QED
    BY <2>1, <2>2 DEF Away
<1> QED
  BY <1>2, <1>3 DEF ItemInv, ItemsAreKept, Away

LEMMA UnitsAdded ==
    ASSUME NEW list \in Seq(Entries), UnitEntries(list), NEW entry \in Entries,
           entry.token \in Items => entry.amount = 1
    PROVE  UnitEntries(Append(list, entry))
<1>1. /\ DOMAIN Append(list, entry) = 1..(Len(list) + 1)
      /\ \A i \in 1..Len(list) : Append(list, entry)[i] = list[i]
      /\ Append(list, entry)[Len(list) + 1] = entry
  BY AppendProperties
<1>2. DOMAIN list = 1..Len(list) /\ Len(list) \in Nat
  OBVIOUS
<1>3. ASSUME NEW i \in 1..(Len(list) + 1) PROVE i \in 1..Len(list) \/ i = Len(list) + 1
  BY <1>2
<1> QED
  BY <1>1, <1>2, <1>3 DEF UnitEntries

LEMMA UnitsTaken ==
    ASSUME NEW list \in Seq(Entries), UnitEntries(list), list # <<>>
    PROVE  /\ UnitEntries(Tail(list))
           /\ \A item \in Items :
                Amount(Head(list), item) = IF Head(list).token = item THEN 1 ELSE 0
<1>1. Len(list) \in Nat \ {0} /\ DOMAIN list = 1..Len(list) /\ Head(list) = list[1]
  BY EmptySeq
<1>2. UnitEntries(Tail(list))
  <2>1. /\ DOMAIN Tail(list) = 1..(Len(list) - 1)
        /\ \A i \in 1..(Len(list) - 1) : Tail(list)[i] = list[i + 1]
    BY <1>1, HeadTailProperties
  <2>2. \A i \in 1..(Len(list) - 1) : i + 1 \in 1..Len(list)
    BY <1>1
  <2> QED
    BY <1>1, <2>1, <2>2 DEF UnitEntries
<1>3. Head(list).token \in Items => Head(list).amount = 1
  BY <1>1 DEF UnitEntries
<1> QED
  BY <1>2, <1>3 DEF Amount

\* Each number of the equation, and that none exceeds one.
LEMMA ItemCounts ==
    ASSUME TypeOK, ItemsAreKept, NEW item \in Items \ forcedItems
    PROVE  /\ SumOf(up, item) \in Nat /\ SumOf(down, item) \in Nat /\ SumOf(failed, item) \in Nat
           /\ Cardinality(minted \cap {item}) = IF item \in minted THEN 1 ELSE 0
           /\ Away(item) = IF owner[item] = PalletAccount THEN 1 ELSE 0
BY SumsType, MintedCount DEF ItemsAreKept, Away

\* To keep the equation it is enough to keep the balance for each item.
LEMMA ItemByItem ==
    ASSUME TypeOK, ItemsAreKept, forcedItems \subseteq forcedItems',
           ASSUME NEW item \in Items \ forcedItems'
           PROVE  Away(item)' = IF owner'[item] = PalletAccount THEN 1 ELSE 0
    PROVE  ItemsAreKept'
BY DEF ItemsAreKept, Away

\* A message about another token, or a notification, changes nothing for the items.
LEMMA SubmitOther ==
    ASSUME TypeOK, ItemInv, NEW token \in Kinds \ Items, NEW amount \in Nat,
           Submit([token |-> token, amount |-> amount]),
           UNCHANGED <<owner, down, minted, failed, forcedItems>>
    PROVE  ItemInv'
<1> DEFINE message == [token |-> token, amount |-> amount]
<1>1. message \in Message /\ message \in Entries /\ message.token \notin Items
  BY DEF Message, Entries
<1>2. \A item \in Items : Amount(message, item) = 0
  BY <1>1 DEF Amount
<1> HIDE DEF message
<1>3. UnitEntries(up')
  BY <1>1, ListsOfEntries, UnitsAdded DEF Submit, ItemInv, message
<1>4. ASSUME NEW item \in Items \ forcedItems'
      PROVE  Away(item)' = IF owner'[item] = PalletAccount THEN 1 ELSE 0
  <2>1. SumOf(up', item) = SumOf(up, item) + Amount(message, item)
    BY <1>1, SubmitAdds DEF message
  <2>2. SumOf(up', item) = SumOf(up, item)
    BY <1>2, <2>1, SumsType
  <2> QED
    BY <1>4, <2>2, ItemCounts DEF ItemInv, Away
<1> QED
  BY <1>3, <1>4, ItemByItem DEF ItemInv

LEMMA ItemUser ==
    ASSUME TypeOK, ItemInv, NEW who \in Accounts, UserCall(who)
    PROVE  ItemInv'
<1>1. ASSUME NEW amount \in Amounts, lock(who, amount)
      PROVE  ItemInv'
  <2>1. NoToken \in Kinds \ Items /\ amount \in Nat
    BY BridgeAssumption DEF Kinds
  <2>2. /\ Submit([token |-> NoToken, amount |-> amount])
        /\ UNCHANGED <<owner, down, minted, failed, forcedItems>>
    BY <1>1 DEF lock, mainchainVars, forcedVars
  <2> QED
    BY <2>1, <2>2, SubmitOther
<1>2. ASSUME NEW asset \in Assets, NEW amount \in Amounts, burn_nep141(who, asset, amount)
      PROVE  ItemInv'
  <2>1. TokenIdsOf(asset) \subseteq Kinds \ Items
    <3>1. TokenIdsOf(asset) \subseteq Tokens
      BY DEF TypeOK, TokenIdsOf
    <3>2. Tokens \subseteq Kinds \ Items
      BY BridgeAssumption DEF Kinds
    <3> QED
      BY ONLY <3>1, <3>2
  <2>2. PICK token \in TokenIdsOf(asset) : Submit([token |-> token, amount |-> amount])
    BY <1>2 DEF burn_nep141
  <2>3. amount \in Nat /\ UNCHANGED <<owner, down, minted, failed, forcedItems>>
    BY <1>2, BridgeAssumption DEF burn_nep141, mainchainVars, forcedVars
  <2>4. token \in Kinds \ Items
    BY <2>1
  <2> QED
    BY ONLY TypeOK, ItemInv, <2>2, <2>3, <2>4, SubmitOther
<1>3. ASSUME NEW item \in Items, owner[item] = who, lock_nonfungible(who, item)
      PROVE  ItemInv'
  <2> DEFINE message == [token |-> item, amount |-> 1]
  <2>1. message \in Message /\ message \in Entries /\ message.amount = 1
    BY DEF Message, Entries, Kinds
  <2>2. UnitEntries(up')
    BY <1>3, <2>1, ListsOfEntries, UnitsAdded DEF lock_nonfungible, Submit, ItemInv
  <2>3. /\ owner' = [owner EXCEPT ![item] = PalletAccount]
        /\ UNCHANGED <<down, minted, failed, forcedItems>>
    BY <1>3 DEF lock_nonfungible, mainchainVars, forcedVars
  <2>4. ASSUME NEW x \in Items \ forcedItems'
        PROVE  Away(x)' = IF owner'[x] = PalletAccount THEN 1 ELSE 0
    <3>1. SumOf(up', x) = SumOf(up, x) + Amount(message, x)
      BY <1>3, <2>1, SubmitAdds DEF lock_nonfungible
    <3>2. Amount(message, x) = IF x = item THEN 1 ELSE 0
      BY DEF Amount
    <3>3. owner'[x] = IF x = item THEN PalletAccount ELSE owner[x]
      BY <2>3 DEF TypeOK
    <3>4. x \in Items \ forcedItems
      BY <2>3
    <3> HIDE DEF message
    <3> QED
      BY <1>3, <2>3, <3>1, <3>2, <3>3, <3>4, ItemCounts, PayingHolders DEF ItemInv, Away
  <2> QED
    BY <2>2, <2>3, <2>4, ItemByItem DEF ItemInv
<1> QED
  BY <1>1, <1>2, <1>3 DEF UserCall

\* A notification gives its item to the receiver, or is recorded as failed.
LEMMA ItemNotification ==
    ASSUME TypeOK, ItemInv, process_notification
    PROVE  ItemInv'
<1> DEFINE n == Head(down)
<1>1. /\ n \in Notification /\ n.receiver \in Accounts /\ down' \in Seq(Entries)
      /\ down # <<>> /\ down' = Tail(down)
  <2>1. down # <<>> /\ down' = Tail(down)
    BY DEF process_notification
  <2>2. n \in Notification /\ Tail(down) \in Seq(Notification)
    BY <2>1, FirstNotification
  <2> HIDE DEF n
  <2>3. n.receiver \in Accounts
    BY <2>2 DEF Notification
  <2>4. down' \in Seq(Entries)
    BY <2>1, <2>2 DEF Entries
  <2> QED
    BY <2>1, <2>2, <2>3, <2>4
<1>2. UnitEntries(up') /\ UnitEntries(down')
      /\ \A item \in Items : Amount(n, item) = IF n.token = item THEN 1 ELSE 0
  BY <1>1, ListsOfEntries, UnitsTaken DEF process_notification, ItemInv
<1>3. UNCHANGED <<up, minted, forcedItems>>
  BY DEF process_notification, mainchainVars, forcedVars
<1>4. ASSUME NEW item \in Items \ forcedItems'
      PROVE  Away(item)' = IF owner'[item] = PalletAccount THEN 1 ELSE 0
  <2>1. /\ SumOf(down, item) = Amount(n, item) + SumOf(down', item)
        /\ SumOf(down', item) \in Nat
    BY <1>1, ProcessingTakes, SumOfType
  <2>2. Amount(n, item) = IF n.token = item THEN 1 ELSE 0
    BY <1>2
  <2>3. /\ SumOf(up, item) \in Nat /\ SumOf(down, item) \in Nat /\ SumOf(failed, item) \in Nat
        /\ Cardinality(minted \cap {item}) \in Nat
        /\ Away(item) = IF owner[item] = PalletAccount THEN 1 ELSE 0
    BY <1>3, <1>4, ItemCounts DEF ItemInv
  <2>4. Away(item)' = SumOf(up, item) + Cardinality(minted \cap {item}) + SumOf(down', item)
                        + SumOf(failed', item)
    BY <1>3 DEF Away
  <2> HIDE DEF n
  <2>5. CASE unlock(n) \/ mint_nep141(n)
    <3>1. n.token # item /\ UNCHANGED <<owner, failed>>
      BY <2>5, BridgeAssumption DEF unlock, mint_nep141
    <3> QED
      BY <2>1, <2>2, <2>3, <2>4, <3>1 DEF Away
  <2>6. CASE unlock_nonfungible(n)
    <3>1. UNCHANGED failed /\ owner' = [owner EXCEPT ![n.token] = n.receiver]
      BY <2>6 DEF unlock_nonfungible
    <3>2. CASE n.token = item
      <4>1. owner'[item] # PalletAccount
        BY <1>1, <3>1, <3>2, PayingHolders DEF TypeOK
      <4> QED
        BY <2>1, <2>2, <2>3, <2>4, <3>1, <3>2, <4>1 DEF Away
    <3>3. CASE n.token # item
      <4>1. owner'[item] = owner[item]
        BY <3>1, <3>3
      <4> QED
        BY <2>1, <2>2, <2>3, <2>4, <3>1, <3>3, <4>1 DEF Away
    <3> QED
      BY <3>2, <3>3
  <2>7. CASE NotificationFails(n)
    <3>1. UNCHANGED owner /\ SumOf(failed', item) = SumOf(failed, item) + Amount(n, item)
      BY <1>1, <2>7, FailureAdds DEF NotificationFails, assetVars
    <3> QED
      BY <2>1, <2>2, <2>3, <2>4, <3>1 DEF Away
  <2> QED
    BY <2>5, <2>6, <2>7 DEF process_notification, n
<1> QED
  BY <1>2, <1>3, <1>4, ItemByItem DEF ItemInv

LEMMA ItemRoot ==
    ASSUME TypeOK, ItemInv, RootCall
    PROVE  ItemInv'
<1>1. UNCHANGED <<up, down, minted, failed>> /\ forcedItems \subseteq forcedItems'
  BY DEF RootCall, force_unlock, force_mint_nep141, force_unlock_nonfungible,
         force_set_is_activated, assetVars, mainchainVars, historyVars, forcedVars
<1>2. \A item \in Items \ forcedItems' : owner'[item] = owner[item]
  BY DEF RootCall, force_unlock, force_mint_nep141, force_unlock_nonfungible,
         force_set_is_activated, assetVars, historyVars, forcedVars, TypeOK
<1>3. ASSUME NEW item \in Items \ forcedItems'
      PROVE  Away(item)' = IF owner'[item] = PalletAccount THEN 1 ELSE 0
  BY <1>1, <1>2, ItemCounts DEF ItemInv, Away
<1> QED
  BY <1>1, <1>3, ItemByItem DEF ItemInv

LEMMA ItemMainchain ==
    ASSUME TypeOK, ItemInv, Mainchain
    PROVE  ItemInv'
<1>1. UNCHANGED <<owner, failed, forcedItems>>
  BY DEF Mainchain, ExecuteMessage, BurnWrapped, DepositToken, BurnItem, assetVars,
         historyVars, forcedVars
<1>2. CASE ExecuteMessage
  <2> DEFINE m == Head(up)
  <2>1. up # <<>> /\ up' = Tail(up) /\ UNCHANGED down
    BY <1>2 DEF ExecuteMessage
  <2>2. m \in Entries /\ up' \in Seq(Entries)
    BY <2>1, ListsOfEntries, HeadTailProperties
  <2>3. /\ UnitEntries(up')
        /\ \A item \in Items : Amount(m, item) = IF m.token = item THEN 1 ELSE 0
    BY <2>1, ListsOfEntries, UnitsTaken DEF ItemInv
  <2>4. \A item \in Items : item \in minted' <=> item \in minted \/ m.token = item
    BY <1>2, BridgeAssumption DEF ExecuteMessage
  <2>5. ASSUME NEW item \in Items \ forcedItems'
        PROVE  Away(item)' = IF owner'[item] = PalletAccount THEN 1 ELSE 0
    <3>1. /\ SumOf(up, item) = Amount(m, item) + SumOf(up', item)
          /\ SumOf(up', item) \in Nat
      BY <2>1, <2>2, ExecutionTakes, SumOfType
    <3>2. /\ Amount(m, item) = IF m.token = item THEN 1 ELSE 0
          /\ item \in minted' <=> item \in minted \/ m.token = item
      BY <2>3, <2>4
    <3>3. /\ Cardinality(minted' \cap {item}) = IF item \in minted' THEN 1 ELSE 0
          /\ Cardinality(minted \cap {item}) = IF item \in minted THEN 1 ELSE 0
      BY MintedCount
    <3>4. /\ SumOf(down, item) \in Nat /\ SumOf(failed, item) \in Nat
          /\ Away(item) = IF owner[item] = PalletAccount THEN 1 ELSE 0
      BY <1>1, <2>5, ItemCounts DEF ItemInv
    <3> HIDE DEF m
    <3> QED
      BY <1>1, <2>1, <3>1, <3>2, <3>3, <3>4 DEF Away
  <2> QED
    BY <1>1, <2>1, <2>3, <2>5, ItemByItem DEF ItemInv
<1>3. ASSUME NEW n \in Notification, down' = Append(down, n), UNCHANGED up,
             n.token \in Items => n.amount = 1,
             \A item \in Items :
               item \in minted <=> item \in minted' \/ n.token = item,
             n.token \notin minted'
      PROVE  ItemInv'
  <2>1. n \in Entries /\ UnitEntries(down')
    BY <1>3, ListsOfEntries, UnitsAdded DEF ItemInv, Entries
  <2>2. ASSUME NEW item \in Items \ forcedItems'
        PROVE  Away(item)' = IF owner'[item] = PalletAccount THEN 1 ELSE 0
    <3>1. SumOf(down', item) = SumOf(down, item) + Amount(n, item)
      BY <1>3, NotifyAdds
    <3>2. /\ Amount(n, item) = IF n.token = item THEN 1 ELSE 0
          /\ item \in minted <=> item \in minted' \/ n.token = item
          /\ n.token \notin minted'
      BY <1>3 DEF Amount
    <3>3. /\ Cardinality(minted' \cap {item}) = IF item \in minted' THEN 1 ELSE 0
          /\ Cardinality(minted \cap {item}) = IF item \in minted THEN 1 ELSE 0
      BY MintedCount
    <3>4. /\ SumOf(up, item) \in Nat /\ SumOf(down, item) \in Nat /\ SumOf(failed, item) \in Nat
          /\ Away(item) = IF owner[item] = PalletAccount THEN 1 ELSE 0
      BY <1>1, <2>2, ItemCounts DEF ItemInv
    <3> QED
      BY <1>1, <1>3, <3>1, <3>2, <3>3, <3>4 DEF Away
  <2> QED
    BY <1>1, <1>3, <2>1, <2>2, ItemByItem DEF ItemInv
<1>4. ASSUME NEW who \in Accounts, NEW amount \in Amounts, NEW token \in Tokens \cup {NoToken},
             down' = Append(down, [token |-> token, amount |-> amount, receiver |-> who]),
             UNCHANGED <<up, minted>>
      PROVE  ItemInv'
  <2> DEFINE n == [token |-> token, amount |-> amount, receiver |-> who]
  <2>1. n \in Notification /\ n.token \notin Items /\ n.token \notin minted'
    BY <1>4, BridgeAssumption DEF Notification, Kinds, TypeOK
  <2> HIDE DEF n
  <2> QED
    BY <1>3, <1>4, <2>1 DEF n
<1>5. ASSUME NEW who \in Accounts, NEW item \in Items, BurnItem(item, who)
      PROVE  ItemInv'
  <2> DEFINE n == [token |-> item, amount |-> 1, receiver |-> who]
  <2>1. n \in Notification /\ n.token = item /\ n.amount = 1
    BY DEF Notification, Kinds
  <2>2. down' = Append(down, n) /\ item \in minted /\ minted' = minted \ {item} /\ UNCHANGED up
    BY <1>5 DEF BurnItem
  <2> HIDE DEF n
  <2> QED
    BY <1>3, <2>1, <2>2
<1> QED
  BY <1>2, <1>4, <1>5 DEF Mainchain, BurnWrapped, DepositToken

LEMMA ItemStep == ASSUME TypeOK, ItemInv, [Next]_vars PROVE ItemInv'
<1>1. CASE \/ Remap \/ on_runtime_upgrade \/ UNCHANGED vars
           \/ \E newFee \in Fees : set_token_price(newFee)
  BY <1>1, SettingsLeaveMoney DEF Money, ItemInv, ItemsAreKept, UnitEntries
<1> QED
  BY <1>1, ItemUser, ItemNotification, ItemRoot, ItemMainchain DEF Next, Appchain

\* Of an item that root leaves alone there is never a second one: it is with its
\* owner, or with the pallet and then at one place beyond it.
THEOREM ItemsKept == Spec => []ItemsAreKept
<1>1. ItemInv => ItemsAreKept
  BY DEF ItemInv
<1> QED
  BY <1>1, ItemInit, ItemStep, TypeInit, TypeStep, PTL DEF Spec
-----------------------------------------------------------------------------
\* The NEP-141 tokens. Each action changes one summand on each side at most.

\* What is neither deposited nor held: on one of the ways, or failed.
Under(token) == SumOf(up, token) + SumOf(down, token) + SumOf(failed, token)
Unheld(asset) == forced[asset] - Supply(asset)

Deposited == SumFunction(deposited)
UnheldInAll == SumFunction([x \in Assets |-> Unheld(x)])
UnderWay == SumFunction([t \in Tokens |-> Under(t)])

LEMMA Books == AssetsAreConserved <=> Deposited + UnheldInAll = UnderWay
BY DEF AssetsAreConserved, Deposited, UnheldInAll, UnderWay, Unheld, Under

LEMMA SupplyType ==
    ASSUME NEW f \in [Accounts -> Nat]
    PROVE  SumFunction(f) \in Nat
BY SumNat, BridgeAssumption DEF SumFunction

LEMMA BookTypes ==
    ASSUME TypeOK
    PROVE  /\ \A x \in Assets : Unheld(x) \in Int
           /\ \A t \in Tokens : Under(t) \in Nat
           /\ Deposited \in Int /\ UnheldInAll \in Int /\ UnderWay \in Int
<1>1. \A x \in Assets : Unheld(x) \in Int
  <2>1. ASSUME NEW x \in Assets PROVE Unheld(x) \in Int
    <3>1. holding[x] \in [Accounts -> Nat] /\ forced[x] \in Nat
      BY DEF TypeOK
    <3>2. Supply(x) \in Nat
      BY <3>1, SupplyType DEF Supply
    <3> QED
      BY <3>1, <3>2 DEF Unheld
  <2> QED
    BY <2>1
<1>2. \A t \in Tokens : Under(t) \in Nat
  BY SumsType DEF Under
<1>3. Deposited \in Int
  BY SumType, BridgeAssumption DEF Deposited, SumFunction, TypeOK
<1>4. UnheldInAll \in Int
  <2> DEFINE f == [x \in Assets |-> Unheld(x)]
  <2>1. DOMAIN f = Assets /\ \A x \in Assets : f[x] \in Int
    BY <1>1
  <2> HIDE DEF f
  <2>2. SumFunction(f) \in Int
    BY <2>1, SumType, BridgeAssumption DEF SumFunction
  <2> QED
    BY <2>2 DEF f, UnheldInAll
<1>5. UnderWay \in Int
  <2> DEFINE f == [t \in Tokens |-> Under(t)]
  <2>1. DOMAIN f = Tokens /\ \A t \in Tokens : f[t] \in Int
    BY <1>2
  <2> HIDE DEF f
  <2>2. SumFunction(f) \in Int
    BY <2>1, SumType, BridgeAssumption DEF SumFunction
  <2> QED
    BY <2>2 DEF f, UnderWay
<1> QED
  BY <1>1, <1>2, <1>3, <1>4, <1>5

\* One entry of a book changes, and its total with it.
LEMMA UnderWayChange ==
    ASSUME NEW token \in Tokens, NEW d \in Int, TypeOK,
           Under(token)' = Under(token) + d,
           \A t \in Tokens \ {token} : Under(t)' = Under(t)
    PROVE  UnderWay' = UnderWay + d
<1> DEFINE f == [t \in Tokens |-> Under(t)]
           g == [t \in Tokens |-> Under(t)']
<1>1. \A t \in Tokens : Under(t) \in Nat
  BY BookTypes
<1>2. \A t \in Tokens : Under(t)' \in Int
  BY <1>1
<1>3. /\ DOMAIN f = Tokens /\ DOMAIN g = Tokens
      /\ \A t \in Tokens : f[t] \in Int /\ g[t] \in Int
      /\ \A t \in Tokens \ {token} : f[t] = g[t]
      /\ g[token] = f[token] + d
  BY <1>1, <1>2
<1> HIDE DEF f, g
<1>4. SumFunctionOnSet(g, Tokens) = SumFunctionOnSet(f, Tokens) - f[token] + g[token]
  BY <1>3, SumChange, BridgeAssumption
<1>5. SumFunctionOnSet(f, Tokens) \in Int
  BY <1>3, SumType, BridgeAssumption
<1>6. SumFunction(g) = SumFunction(f) + d
  BY <1>3, <1>4, <1>5 DEF SumFunction
<1> QED
  BY <1>6 DEF UnderWay, f, g

LEMMA UnheldChange ==
    ASSUME NEW asset \in Assets, NEW d \in Int,
           TypeOK,
           Unheld(asset)' = Unheld(asset) + d,
           \A x \in Assets \ {asset} : Unheld(x)' = Unheld(x)
    PROVE  UnheldInAll' = UnheldInAll + d
<1> DEFINE f == [x \in Assets |-> Unheld(x)]
           g == [x \in Assets |-> Unheld(x)']
<1>1. \A x \in Assets : Unheld(x) \in Int
  BY BookTypes
<1>2. \A x \in Assets : Unheld(x)' \in Int
  BY <1>1
<1>3. /\ DOMAIN f = Assets /\ DOMAIN g = Assets
      /\ \A x \in Assets : f[x] \in Int /\ g[x] \in Int
      /\ \A x \in Assets \ {asset} : f[x] = g[x]
      /\ g[asset] = f[asset] + d
  BY <1>1, <1>2
<1> HIDE DEF f, g
<1>4. SumFunctionOnSet(g, Assets) = SumFunctionOnSet(f, Assets) - f[asset] + g[asset]
  BY <1>3, SumChange, BridgeAssumption
<1>5. SumFunctionOnSet(f, Assets) \in Int
  BY <1>3, SumType, BridgeAssumption
<1>6. SumFunction(g) = SumFunction(f) + d
  BY <1>3, <1>4, <1>5 DEF SumFunction
<1> QED
  BY <1>6 DEF UnheldInAll, f, g

LEMMA DepositedChange ==
    ASSUME TypeOK, NEW token \in Tokens, NEW d \in Int, deposited[token] + d \in Nat,
           deposited' = [deposited EXCEPT ![token] = @ + d]
    PROVE  Deposited' = Deposited + d
<1> DEFINE f == deposited
           g == deposited'
<1>1. /\ DOMAIN f = Tokens /\ DOMAIN g = Tokens
      /\ \A t \in Tokens : f[t] \in Int /\ g[t] \in Int
      /\ \A t \in Tokens \ {token} : f[t] = g[t]
      /\ g[token] = f[token] + d
  BY DEF TypeOK
<1> HIDE DEF f, g
<1>2. SumFunctionOnSet(g, Tokens) = SumFunctionOnSet(f, Tokens) - f[token] + g[token]
  BY <1>1, SumChange, BridgeAssumption
<1>3. SumFunctionOnSet(f, Tokens) \in Int
  BY <1>1, SumType, BridgeAssumption
<1>4. SumFunction(g) = SumFunction(f) + d
  BY <1>1, <1>2, <1>3 DEF SumFunction
<1> QED
  BY <1>4 DEF Deposited, f, g

\* What somebody holds of an asset changes, and what root has minted of it.
LEMMA HoldingChange ==
    ASSUME TypeOK, NEW asset \in Assets, NEW who \in Accounts, NEW d \in Int,
           holding[asset][who] + d \in Nat,
           holding' = [holding EXCEPT ![asset][who] = @ + d],
           forced' \in [Assets \cup {NoToken} -> Nat],
           \A x \in Assets \ {asset} : forced'[x] = forced[x]
    PROVE  /\ Unheld(asset)' = Unheld(asset) + (forced'[asset] - forced[asset] - d)
           /\ \A x \in Assets \ {asset} : Unheld(x)' = Unheld(x)
<1> DEFINE f == holding[asset]
           g == holding'[asset]
<1>1. f \in [Accounts -> Nat] /\ f[who] + d \in Nat
  BY DEF TypeOK
<1>2. g = [f EXCEPT ![who] = f[who] + d] /\ \A x \in Assets \ {asset} : holding'[x] = holding[x]
  BY DEF TypeOK
<1> HIDE DEF f, g
<1>3. g \in [Accounts -> Nat] /\ g[who] = f[who] + d /\ \A a \in Accounts \ {who} : f[a] = g[a]
  BY <1>1, <1>2
<1>4. SumFunctionOnSet(g, Accounts) = SumFunctionOnSet(f, Accounts) - f[who] + g[who]
  BY <1>1, <1>3, SumChange, BridgeAssumption
<1>5. SumFunction(f) \in Nat /\ SumFunction(g) \in Nat /\ SumFunction(g) = SumFunction(f) + d
  <2>1. SumFunction(f) \in Nat /\ SumFunction(g) \in Nat
    BY <1>1, <1>3, SupplyType
  <2> QED
    BY <1>1, <1>3, <1>4, <2>1 DEF SumFunction
<1>6. /\ Supply(asset) = SumFunction(f) /\ Supply(asset)' = SumFunction(g)
      /\ \A x \in Assets \ {asset} : Supply(x)' = Supply(x)
  BY <1>2 DEF Supply, f, g
<1>7. forced[asset] \in Nat /\ forced'[asset] \in Nat
  BY DEF TypeOK
<1>8. Unheld(asset)' = Unheld(asset) + (forced'[asset] - forced[asset] - d)
  BY <1>5, <1>6, <1>7 DEF Unheld
<1>9. \A x \in Assets \ {asset} : Unheld(x)' = Unheld(x)
  BY <1>6 DEF Unheld
<1> QED
  BY <1>8, <1>9
-----------------------------------------------------------------------------
LEMMA AssetInit == Init => AssetsAreConserved
<1> SUFFICES ASSUME Init PROVE AssetsAreConserved
  OBVIOUS
<1>1. Deposited = 0
  <2>1. DOMAIN deposited = Tokens /\ \A t \in Tokens : deposited[t] = 0
    BY DEF Init
  <2> QED
    BY <2>1, SumOfZeros, BridgeAssumption DEF Deposited, SumFunction
<1>2. \A x \in Assets : Unheld(x) = 0
  <2>1. ASSUME NEW x \in Assets PROVE Unheld(x) = 0
    <3>1. /\ DOMAIN holding[x] = Accounts /\ \A a \in Accounts : holding[x][a] = 0
          /\ forced[x] = 0
      BY DEF Init
    <3>2. Supply(x) = 0
      BY <3>1, SumOfZeros, BridgeAssumption DEF Supply, SumFunction
    <3> QED
      BY <3>1, <3>2 DEF Unheld
  <2> QED
    BY <2>1
<1>3. \A t \in Tokens : Under(t) = 0
  BY SumOfNothing DEF Init, Under
<1>4. UnheldInAll = 0
  <2> DEFINE f == [x \in Assets |-> Unheld(x)]
  <2>1. DOMAIN f = Assets /\ \A x \in Assets : f[x] = 0
    BY <1>2
  <2> HIDE DEF f
  <2>2. SumFunction(f) = 0
    BY <2>1, SumOfZeros, BridgeAssumption DEF SumFunction
  <2> QED
    BY <2>2 DEF f, UnheldInAll
<1>5. UnderWay = 0
  <2> DEFINE f == [t \in Tokens |-> Under(t)]
  <2>1. DOMAIN f = Tokens /\ \A t \in Tokens : f[t] = 0
    BY <1>3
  <2> HIDE DEF f
  <2>2. SumFunction(f) = 0
    BY <2>1, SumOfZeros, BridgeAssumption DEF SumFunction
  <2> QED
    BY <2>2 DEF f, UnderWay
<1> QED
  BY <1>1, <1>4, <1>5, Books

\* What a step does to the books: nothing; or it moves something of a token
\* between the mainchain's account and the ways; or between the ways and those who
\* hold the asset that stands for the token.
UnderMoves(token, d) ==
    /\ Under(token)' = Under(token) + d
    /\ \A t \in Tokens \ {token} : Under(t)' = Under(t)

AllStaysHeld == \A x \in Assets : Unheld(x)' = Unheld(x)

BooksStay == UNCHANGED deposited /\ AllStaysHeld /\ \A t \in Tokens : Under(t)' = Under(t)

DepositMoves(token, d) ==
    /\ deposited[token] + d \in Nat /\ deposited' = [deposited EXCEPT ![token] = @ + d]
    /\ UnderMoves(token, d) /\ AllStaysHeld

HoldingMoves(token, asset, d) ==
    /\ <<token, asset>> \in assetIdByTokenId
    /\ UNCHANGED deposited /\ UnderMoves(token, d)
    /\ Unheld(asset)' = Unheld(asset) + d
    /\ \A x \in Assets \ {asset} : Unheld(x)' = Unheld(x)

BooksMove ==
    \/ BooksStay
    \/ \E token \in Tokens, d \in Int : DepositMoves(token, d)
    \/ \E token \in Tokens, asset \in Assets, d \in Int : HoldingMoves(token, asset, d)

LEMMA BooksUntouched ==
    ASSUME UNCHANGED <<deposited, holding>>, \A x \in Assets : forced'[x] = forced[x],
           \A t \in Tokens : Under(t)' = Under(t)
    PROVE  BooksMove
<1>1. AllStaysHeld
  BY DEF AllStaysHeld, Unheld, Supply
<1> QED
  BY <1>1 DEF BooksMove, BooksStay

\* A message, or a notification, of another kind is no token under way.
LEMMA AmountOfOther ==
    ASSUME NEW entry \in Entries, NEW t \in Tokens, entry.token # t
    PROVE  Amount(entry, t) = 0
BY DEF Amount

LEMMA BooksUser ==
    ASSUME TypeOK, NEW who \in Accounts, UserCall(who)
    PROVE  BooksMove
<1>1. ASSUME NEW token \in Kinds \ Tokens, NEW amount \in Nat,
             Submit([token |-> token, amount |-> amount]),
             UNCHANGED <<holding, down, failed, deposited, forced>>
      PROVE  BooksMove
  <2> DEFINE message == [token |-> token, amount |-> amount]
  <2>1. message \in Message /\ message \in Entries /\ message.token \notin Tokens
    BY DEF Message, Entries
  <2>2. \A t \in Tokens : SumOf(up', t) = SumOf(up, t) + Amount(message, t)
    BY <1>1, <2>1, SubmitAdds
  <2>3. \A t \in Tokens : Amount(message, t) = 0
    BY <2>1, AmountOfOther
  <2>4. \A t \in Tokens : SumOf(up, t) \in Nat
    BY SumsType
  <2> HIDE DEF message
  <2>5. \A t \in Tokens : Under(t)' = Under(t)
    BY <1>1, <2>2, <2>3, <2>4 DEF Under
  <2> QED
    BY <1>1, <2>5, BooksUntouched
<1>2. ASSUME NEW amount \in Amounts, lock(who, amount)
      PROVE  BooksMove
  BY <1>1, <1>2, BridgeAssumption DEF lock, Kinds, mainchainVars, forcedVars
<1>3. ASSUME NEW item \in Items, lock_nonfungible(who, item)
      PROVE  BooksMove
  BY <1>1, <1>3, BridgeAssumption DEF lock_nonfungible, Kinds, mainchainVars, forcedVars
<1>4. ASSUME NEW asset \in Assets, NEW amount \in Amounts, burn_nep141(who, asset, amount)
      PROVE  BooksMove
  <2>1. PICK token \in TokenIdsOf(asset) : Submit([token |-> token, amount |-> amount])
    BY <1>4 DEF burn_nep141
  <2> DEFINE message == [token |-> token, amount |-> amount]
  <2>2. /\ token \in Tokens /\ <<token, asset>> \in assetIdByTokenId
        /\ amount \in Nat /\ message \in Message
    <3>1. assetIdByTokenId \subseteq Tokens \X Assets
      BY DEF TypeOK
    <3>2. token \in Tokens /\ <<token, asset>> \in assetIdByTokenId
      BY <3>1 DEF TokenIdsOf
    <3> QED
      BY <3>2, BridgeAssumption DEF Message, Kinds
  <2>3. /\ holding' = [holding EXCEPT ![asset][who] = @ - amount]
        /\ holding[asset][who] >= amount
        /\ UNCHANGED <<down, failed, deposited, forced>>
    BY <1>4 DEF burn_nep141, mainchainVars, forcedVars
  <2>4. UnderMoves(token, amount)
    <3>1. \A t \in Tokens : SumOf(up', t) = SumOf(up, t) + Amount(message, t)
      BY <2>1, <2>2, SubmitAdds
    <3>2. \A t \in Tokens : Amount(message, t) = IF t = token THEN amount ELSE 0
      BY DEF Amount
    <3> HIDE DEF message
    <3>3. \A t \in Tokens : /\ SumOf(up, t) \in Nat /\ SumOf(down, t) \in Nat
                            /\ SumOf(failed, t) \in Nat
      BY SumsType
    <3> QED
      BY <2>2, <2>3, <3>1, <3>2, <3>3 DEF Under, UnderMoves
  <2>5. /\ Unheld(asset)' = Unheld(asset) + amount
        /\ \A x \in Assets \ {asset} : Unheld(x)' = Unheld(x)
    <3> DEFINE d == -amount
    <3>1. holding[asset][who] \in Nat /\ d \in Int /\ forced \in [Assets \cup {NoToken} -> Nat]
      BY <2>2 DEF TypeOK
    <3>2. holding[asset][who] + d \in Nat /\ holding[asset][who] - amount = holding[asset][who] + d
      BY <2>2, <2>3, <3>1
    <3>3. holding' = [holding EXCEPT ![asset][who] = @ + d]
      BY <2>3, <3>2
    <3> HIDE DEF d
    <3>4. /\ Unheld(asset)' = Unheld(asset) + (forced'[asset] - forced[asset] - d)
          /\ \A x \in Assets \ {asset} : Unheld(x)' = Unheld(x)
      BY <2>3, <3>1, <3>2, <3>3, HoldingChange
    <3>5. forced'[asset] - forced[asset] - d = amount
      BY <2>2, <2>3, <3>1 DEF d
    <3> QED
      BY <3>4, <3>5
  <2>6. HoldingMoves(token, asset, amount)
    BY <2>2, <2>3, <2>4, <2>5 DEF HoldingMoves
  <2> QED
    BY <2>2, <2>6 DEF BooksMove
<1> QED
  BY <1>2, <1>3, <1>4 DEF UserCall

LEMMA BooksNotification ==
    ASSUME TypeOK, process_notification
    PROVE  BooksMove
<1> DEFINE n == Head(down)
<1>1. down # <<>> /\ down' = Tail(down) /\ UNCHANGED <<up, deposited, forced>>
  BY DEF process_notification, mainchainVars, forcedVars
<1>2. n \in Notification /\ n \in Entries /\ down' \in Seq(Entries)
  <2>1. n \in Notification /\ Tail(down) \in Seq(Notification)
    BY <1>1, FirstNotification
  <2> HIDE DEF n
  <2> QED
    BY <1>1, <2>1 DEF Entries
<1>3. n.receiver \in Accounts /\ n.amount \in Nat
  BY <1>2 DEF Notification
<1>4. \A t \in Tokens : SumOf(down, t) = Amount(n, t) + SumOf(down', t)
  BY <1>1, ProcessingTakes
<1>5. \A t \in Tokens : /\ SumOf(up, t) \in Nat /\ SumOf(failed, t) \in Nat
                        /\ SumOf(down', t) \in Nat
  BY <1>2, SumsType, SumOfType
<1> HIDE DEF n
<1>6. CASE unlock(n) \/ unlock_nonfungible(n)
  <2>1. UNCHANGED <<holding, failed>> /\ n.token \notin Tokens
    BY <1>6, BridgeAssumption DEF unlock, unlock_nonfungible
  <2>2. \A t \in Tokens : Amount(n, t) = 0
    BY <1>2, <2>1, AmountOfOther
  <2>3. \A t \in Tokens : Under(t)' = Under(t)
    BY <1>1, <1>4, <1>5, <2>1, <2>2 DEF Under
  <2> QED
    BY <1>1, <2>1, <2>3, BooksUntouched
<1>7. CASE NotificationFails(n)
  <2>1. UNCHANGED holding /\ failed' = Append(failed, n)
    BY <1>7 DEF NotificationFails, assetVars
  <2>2. \A t \in Tokens : SumOf(failed', t) = SumOf(failed, t) + Amount(n, t)
    BY <1>2, <2>1, FailureAdds
  <2>3. \A t \in Tokens : Amount(n, t) \in Nat
    BY <1>2, AmountType
  <2>4. \A t \in Tokens : Under(t)' = Under(t)
    BY <1>1, <1>4, <1>5, <2>2, <2>3 DEF Under
  <2> QED
    BY <1>1, <2>1, <2>4, BooksUntouched
<1>8. CASE mint_nep141(n)
  <2>1. PICK asset \in AssetIdsOf(n.token) :
          holding' = [holding EXCEPT ![asset][n.receiver] = @ + n.amount]
    BY <1>8 DEF mint_nep141
  <2>2. /\ asset \in Assets /\ n.token \in Tokens /\ UNCHANGED failed
        /\ <<n.token, asset>> \in assetIdByTokenId
    <3>1. assetIdByTokenId \subseteq Tokens \X Assets
      BY DEF TypeOK
    <3>2. asset \in Assets /\ <<n.token, asset>> \in assetIdByTokenId
      BY <3>1 DEF AssetIdsOf
    <3> QED
      BY <1>8, <3>2 DEF mint_nep141
  <2>3. PICK token \in Tokens, amount \in Nat, who \in Accounts :
          n.token = token /\ n.amount = amount /\ n.receiver = who
    BY <1>3, <2>2
  <2> DEFINE d == -amount
  <2>4. \A t \in Tokens : Amount(n, t) = IF t = token THEN amount ELSE 0
    BY <2>3 DEF Amount
  <2>5. holding' = [holding EXCEPT ![asset][who] = @ + amount] /\ amount \in Int /\ d \in Int
    BY <2>1, <2>3
  <2>6. UnderMoves(token, d)
    BY <1>1, <1>4, <1>5, <2>2, <2>4 DEF Under, UnderMoves
  <2> HIDE DEF d
  <2>7. /\ holding[asset][who] + amount \in Nat
        /\ forced[asset] \in Nat /\ forced' \in [Assets \cup {NoToken} -> Nat]
        /\ \A x \in Assets \ {asset} : forced'[x] = forced[x]
    BY <1>1, <2>2 DEF TypeOK
  <2>8. /\ Unheld(asset)' = Unheld(asset) + (forced'[asset] - forced[asset] - amount)
        /\ \A x \in Assets \ {asset} : Unheld(x)' = Unheld(x)
    BY <2>2, <2>5, <2>7, HoldingChange
  <2>9. forced'[asset] - forced[asset] - amount = d
    BY <1>1, <2>5, <2>7 DEF d
  <2>10. HoldingMoves(token, asset, d)
    BY <1>1, <2>2, <2>3, <2>6, <2>8, <2>9 DEF HoldingMoves
  <2> QED
    BY <2>2, <2>5, <2>10 DEF BooksMove
<1> QED
  BY <1>6, <1>7, <1>8 DEF process_notification, n

LEMMA BooksRoot ==
    ASSUME TypeOK, RootCall
    PROVE  BooksMove
<1>1. UNCHANGED <<up, down, failed, deposited>>
  BY DEF RootCall, force_unlock, force_mint_nep141, force_unlock_nonfungible,
         force_set_is_activated, assetVars, mainchainVars, historyVars, forcedVars
<1>2. \A t \in Tokens : Under(t)' = Under(t)
  BY <1>1 DEF Under
<1>3. ASSUME NEW who \in Accounts, NEW amount \in Amounts, force_unlock(who, amount)
      PROVE  BooksMove
  <2>1. UNCHANGED holding /\ \A x \in Assets : forced'[x] = forced[x]
    BY <1>3, BridgeAssumption DEF force_unlock, TypeOK
  <2> QED
    BY <1>1, <1>2, <2>1, BooksUntouched
<1>4. ASSUME NEW who \in Accounts, NEW amount \in Amounts, NEW asset \in Assets,
             force_mint_nep141(asset, who, amount)
      PROVE  BooksMove
  <2>1. /\ holding' = [holding EXCEPT ![asset][who] = @ + amount]
        /\ forced' = [forced EXCEPT ![asset] = @ + amount]
        /\ amount \in Nat /\ amount \in Int /\ forced \in [Assets \cup {NoToken} -> Nat]
        /\ holding[asset][who] \in Nat
    BY <1>4, BridgeAssumption DEF force_mint_nep141, TypeOK
  <2>2. /\ forced' \in [Assets \cup {NoToken} -> Nat] /\ holding[asset][who] + amount \in Nat
        /\ forced'[asset] - forced[asset] - amount = 0
        /\ \A x \in Assets \ {asset} : forced'[x] = forced[x]
    BY <2>1
  <2>3. /\ Unheld(asset)' = Unheld(asset) + (forced'[asset] - forced[asset] - amount)
        /\ \A x \in Assets \ {asset} : Unheld(x)' = Unheld(x)
    BY <2>1, <2>2, HoldingChange
  <2>4. Unheld(asset) \in Int
    BY BookTypes
  <2>5. AllStaysHeld
    BY <2>2, <2>3, <2>4 DEF AllStaysHeld
  <2> QED
    BY <1>1, <1>2, <2>5 DEF BooksMove, BooksStay
<1>5. ASSUME NEW who \in Accounts, NEW item \in Items, force_unlock_nonfungible(who, item)
      PROVE  BooksMove
  BY <1>1, <1>2, <1>5, BooksUntouched DEF force_unlock_nonfungible
<1>6. ASSUME NEW value \in BOOLEAN, force_set_is_activated(value)
      PROVE  BooksMove
  BY <1>1, <1>2, <1>6, BooksUntouched
  DEF force_set_is_activated, assetVars, historyVars, forcedVars
<1> QED
  BY <1>3, <1>4, <1>5, <1>6 DEF RootCall

LEMMA BooksMainchain ==
    ASSUME TypeOK, Mainchain
    PROVE  BooksMove
<1>1. UNCHANGED <<holding, failed, forced>>
  BY DEF Mainchain, ExecuteMessage, BurnWrapped, DepositToken, BurnItem, assetVars,
         historyVars, forcedVars
<1>2. CASE ExecuteMessage
  <2> DEFINE m == Head(up)
  <2>1. up # <<>> /\ up' = Tail(up) /\ UNCHANGED down
    BY <1>2 DEF ExecuteMessage
  <2>2. m \in Message /\ m \in Entries /\ up' \in Seq(Entries)
    <3>1. m \in Message
      BY <2>1, HeadTailProperties DEF TypeOK
    <3>2. up' \in Seq(Entries)
      BY <2>1, ListsOfEntries, HeadTailProperties
    <3> QED
      BY <3>1, <3>2 DEF Entries
  <2>3. m.amount \in Nat
    BY <2>2 DEF Message
  <2>4. \A t \in Tokens : /\ SumOf(up, t) = Amount(m, t) + SumOf(up', t)
                          /\ SumOf(up', t) \in Nat /\ SumOf(down, t) \in Nat
                          /\ SumOf(failed, t) \in Nat
    BY <2>1, <2>2, ExecutionTakes, SumOfType, SumsType
  <2> HIDE DEF m
  <2>5. CASE m.token \notin Tokens /\ UNCHANGED deposited
    <3>1. \A t \in Tokens : Amount(m, t) = 0
      BY <2>2, <2>5, AmountOfOther
    <3>2. \A t \in Tokens : Under(t)' = Under(t)
      BY <1>1, <2>1, <2>4, <3>1 DEF Under
    <3> QED
      BY <1>1, <2>5, <3>2, BooksUntouched
  <2>6. CASE /\ m.token \in Tokens /\ deposited[m.token] >= m.amount
             /\ deposited' = [deposited EXCEPT ![m.token] = @ - m.amount]
    <3>1. PICK token \in Tokens, amount \in Nat : m.token = token /\ m.amount = amount
      BY <2>3, <2>6
    <3> DEFINE d == -amount
    <3>2. deposited[token] \in Nat /\ d \in Int
      BY DEF TypeOK
    <3>3. deposited[token] + d \in Nat /\ deposited[token] - amount = deposited[token] + d
      BY <2>6, <3>1, <3>2
    <3>4. deposited' = [deposited EXCEPT ![token] = @ + d]
      BY <2>6, <3>1, <3>3
    <3>5. UnderMoves(token, d)
      <4>1. \A t \in Tokens : Amount(m, t) = IF t = token THEN amount ELSE 0
        BY <3>1 DEF Amount
      <4> QED
        BY <1>1, <2>1, <2>4, <4>1 DEF Under, UnderMoves
    <3> HIDE DEF d
    <3>6. AllStaysHeld
      BY <1>1 DEF AllStaysHeld, Unheld, Supply
    <3>7. DepositMoves(token, d)
      BY <3>3, <3>4, <3>5, <3>6 DEF DepositMoves
    <3> QED
      BY <3>2, <3>7 DEF BooksMove
  <2> QED
    BY <1>2, <2>5, <2>6, BridgeAssumption DEF ExecuteMessage, m
<1>3. ASSUME NEW n \in Notification, n.token \notin Tokens, down' = Append(down, n),
             UNCHANGED <<up, deposited>>
      PROVE  BooksMove
  <2>1. \A t \in Tokens : SumOf(down', t) = SumOf(down, t) + Amount(n, t) /\ Amount(n, t) = 0
    BY <1>3, NotifyAdds, AmountOfOther DEF Entries
  <2>2. \A t \in Tokens : Under(t)' = Under(t)
    BY <1>1, <1>3, <2>1, SumsType DEF Under
  <2> QED
    BY <1>1, <1>3, <2>2, BooksUntouched
<1>4. ASSUME NEW who \in Accounts, NEW amount \in Amounts, BurnWrapped(who, amount)
      PROVE  BooksMove
  <2> DEFINE n == [token |-> NoToken, amount |-> amount, receiver |-> who]
  <2>1. n \in Notification /\ n.token \notin Tokens
    BY BridgeAssumption DEF Notification, Kinds
  <2> HIDE DEF n
  <2> QED
    BY <1>3, <1>4, <2>1 DEF BurnWrapped, n
<1>5. ASSUME NEW who \in Accounts, NEW item \in Items, BurnItem(item, who)
      PROVE  BooksMove
  <2> DEFINE n == [token |-> item, amount |-> 1, receiver |-> who]
  <2>1. n \in Notification /\ n.token \notin Tokens
    BY BridgeAssumption DEF Notification, Kinds
  <2> HIDE DEF n
  <2> QED
    BY <1>3, <1>5, <2>1 DEF BurnItem, n
<1>6. ASSUME NEW who \in Accounts, NEW amount \in Amounts, NEW token \in Tokens,
             DepositToken(token, who, amount)
      PROVE  BooksMove
  <2> DEFINE n == [token |-> token, amount |-> amount, receiver |-> who]
  <2>1. n \in Notification /\ amount \in Nat /\ amount \in Int
    BY BridgeAssumption DEF Notification, Kinds
  <2>2. \A t \in Tokens : Amount(n, t) = IF t = token THEN amount ELSE 0
    BY DEF Amount
  <2> HIDE DEF n
  <2>3. /\ down' = Append(down, n) /\ UNCHANGED up
        /\ deposited' = [deposited EXCEPT ![token] = @ + amount]
    BY <1>6 DEF DepositToken, n
  <2>4. \A t \in Tokens : SumOf(down', t) = SumOf(down, t) + Amount(n, t)
    BY <2>1, <2>3, NotifyAdds
  <2>5. \A t \in Tokens : /\ SumOf(up, t) \in Nat /\ SumOf(down, t) \in Nat
                          /\ SumOf(failed, t) \in Nat
    BY SumsType
  <2>6. UnderMoves(token, amount)
    BY <1>1, <2>1, <2>2, <2>3, <2>4, <2>5 DEF Under, UnderMoves
  <2>7. deposited[token] + amount \in Nat
    BY <2>1 DEF TypeOK
  <2>8. AllStaysHeld
    BY <1>1 DEF AllStaysHeld, Unheld, Supply
  <2>9. DepositMoves(token, amount)
    BY <2>3, <2>6, <2>7, <2>8 DEF DepositMoves
  <2> QED
    BY <2>1, <2>9 DEF BooksMove
<1> QED
  BY <1>2, <1>4, <1>5, <1>6 DEF Mainchain

LEMMA BooksStep == ASSUME TypeOK, [Next]_vars PROVE BooksMove
<1>1. CASE \/ Remap \/ on_runtime_upgrade \/ UNCHANGED vars
           \/ \E newFee \in Fees : set_token_price(newFee)
  <2>1. UNCHANGED Money
    BY <1>1, SettingsLeaveMoney
  <2> QED
    BY <2>1, BooksUntouched DEF Money, Under
<1> QED
  BY <1>1, BooksUser, BooksNotification, BooksRoot, BooksMainchain DEF Next, Appchain

\* Each move changes both sides of the equation by as much.
LEMMA AssetStep == ASSUME TypeOK, AssetsAreConserved, [Next]_vars PROVE AssetsAreConserved'
<1>1. Deposited + UnheldInAll = UnderWay
  BY Books
<1>2. Deposited \in Int /\ UnheldInAll \in Int /\ UnderWay \in Int
  BY BookTypes
<1>3. AllStaysHeld => UnheldInAll' = UnheldInAll
  BY DEF AllStaysHeld, UnheldInAll
<1>4. UNCHANGED deposited => Deposited' = Deposited
  BY DEF Deposited
<1>5. ASSUME BooksStay
      PROVE  Deposited' + UnheldInAll' = UnderWay'
  <2>1. UnderWay' = UnderWay
    BY <1>5 DEF BooksStay, UnderWay
  <2> QED
    BY <1>1, <1>3, <1>4, <1>5, <2>1 DEF BooksStay
<1>6. ASSUME NEW token \in Tokens, NEW d \in Int, DepositMoves(token, d)
      PROVE  Deposited' + UnheldInAll' = UnderWay'
  <2>1. Deposited' = Deposited + d
    BY <1>6, DepositedChange DEF DepositMoves
  <2>2. UnderWay' = UnderWay + d
    BY <1>6, UnderWayChange DEF DepositMoves, UnderMoves
  <2> QED
    BY <1>1, <1>2, <1>3, <1>6, <2>1, <2>2 DEF DepositMoves
<1>7. ASSUME NEW token \in Tokens, NEW asset \in Assets, NEW d \in Int,
             HoldingMoves(token, asset, d)
      PROVE  Deposited' + UnheldInAll' = UnderWay'
  <2>1. UnheldInAll' = UnheldInAll + d
    BY <1>7, UnheldChange DEF HoldingMoves
  <2>2. UnderWay' = UnderWay + d
    BY <1>7, UnderWayChange DEF HoldingMoves, UnderMoves
  <2> QED
    BY <1>1, <1>2, <1>4, <1>7, <2>1, <2>2 DEF HoldingMoves
<1>8. Deposited' + UnheldInAll' = UnderWay'
  BY <1>5, <1>6, <1>7, BooksStep DEF BooksMove
<1> QED
  BY <1>8 DEF AssetsAreConserved, Deposited, UnheldInAll, UnderWay, Unheld, Under

\* However tokens are mapped to assets, and mapped anew while messages and
\* notifications are on the way: in all there is as much on the mainchain's
\* account as on the appchain and between.
THEOREM AssetsConserved == Spec => []AssetsAreConserved
BY AssetInit, AssetStep, TypeInit, TypeStep, PTL DEF Spec
-----------------------------------------------------------------------------
\* Each token by itself. A token that never had an asset has nothing minted, and
\* an asset that never stood for a token was minted by root alone: so a new pair
\* begins with balanced books.

EverPaired == assetIdByTokenId \cup deleted
NewToken(t) == \A a \in Assets : <<t, a>> \notin EverPaired
NewAsset(a) == \A t \in Tokens : <<t, a>> \notin EverPaired
FirstPair(t, a) ==
    /\ <<t, a>> \in assetIdByTokenId
    /\ \A x \in Assets : <<t, x>> \notin deleted
    /\ \A x \in Tokens : <<x, a>> \notin deleted

BackedInv ==
    /\ \A t \in Tokens, a \in Assets : FirstPair(t, a) => deposited[t] + Unheld(a) = Under(t)
    /\ \A t \in Tokens : NewToken(t) => deposited[t] = Under(t)
    /\ \A a \in Assets : NewAsset(a) => Unheld(a) = 0

LEMMA BackedInit == Init => BackedInv
<1> SUFFICES ASSUME Init PROVE BackedInv
  OBVIOUS
<1>1. \A t \in Tokens : Under(t) = 0 /\ deposited[t] = 0
  <2>1. \A t \in Tokens : SumOf(<<>>, t) = 0
    BY SumOfNothing
  <2> QED
    BY <2>1 DEF Init, Under
<1>2. \A a \in Assets : Unheld(a) = 0
  <2>1. ASSUME NEW a \in Assets PROVE Unheld(a) = 0
    <3> DEFINE f == holding[a]
    <3>1. DOMAIN f = Accounts /\ \A x \in Accounts : f[x] = 0
      BY DEF Init
    <3> HIDE DEF f
    <3>2. SumFunction(f) = 0
      BY <3>1, SumOfZeros, BridgeAssumption DEF SumFunction
    <3>3. forced[a] = 0
      BY DEF Init
    <3> QED
      BY <3>2, <3>3 DEF Unheld, Supply, f
  <2> QED
    BY <2>1
<1> QED
  BY <1>1, <1>2 DEF BackedInv

\* Messages and notifications keep to the pairs, which are one-to-one.
LEMMA BackedMove ==
    ASSUME TypeOK, MapInv, BackedInv, BooksMove, UNCHANGED <<assetIdByTokenId, deleted>>
    PROVE  BackedInv'
<1>1. /\ \A t \in Tokens, a \in Assets : FirstPair(t, a)' = FirstPair(t, a)
      /\ \A t \in Tokens : NewToken(t)' = NewToken(t)
      /\ \A a \in Assets : NewAsset(a)' = NewAsset(a)
  BY DEF FirstPair, NewToken, NewAsset, EverPaired
<1>2. /\ \A t \in Tokens : deposited[t] \in Int /\ Under(t) \in Int
      /\ \A a \in Assets : Unheld(a) \in Int
  BY BookTypes DEF TypeOK
<1>3. CASE BooksStay
  BY <1>1, <1>3 DEF BooksStay, AllStaysHeld, BackedInv
<1>4. ASSUME NEW token \in Tokens, NEW d \in Int, DepositMoves(token, d)
      PROVE  BackedInv'
  <2>1. /\ deposited'[token] = deposited[token] + d
        /\ \A t \in Tokens \ {token} : deposited'[t] = deposited[t]
    BY <1>4 DEF DepositMoves, TypeOK
  <2> QED
    BY <1>1, <1>2, <1>4, <2>1 DEF DepositMoves, UnderMoves, AllStaysHeld, BackedInv
<1>5. ASSUME NEW token \in Tokens, NEW asset \in Assets, NEW d \in Int,
             HoldingMoves(token, asset, d)
      PROVE  BackedInv'
  <2>1. ~NewToken(token) /\ ~NewAsset(asset)
    BY <1>5 DEF HoldingMoves, NewToken, NewAsset, EverPaired
  <2>2. \A t \in Tokens, a \in Assets : FirstPair(t, a) => (t = token <=> a = asset)
    BY <1>5 DEF HoldingMoves, FirstPair, MapInv, OneToOne
  <2> QED
    BY <1>1, <1>2, <1>5, <2>1, <2>2 DEF HoldingMoves, UnderMoves, BackedInv
<1> QED
  BY <1>3, <1>4, <1>5 DEF BooksMove

\* Pairs are made of what has never been in another pair, or do not count.
LEMMA BackedPairs ==
    ASSUME BackedInv, BooksStay, deleted \subseteq deleted', EverPaired \subseteq EverPaired',
           \A t \in Tokens, a \in Assets :
             FirstPair(t, a)' => FirstPair(t, a) \/ (NewToken(t) /\ NewAsset(a)),
           \A t \in Tokens : Under(t) \in Int
    PROVE  BackedInv'
<1>1. /\ \A t \in Tokens : NewToken(t)' => NewToken(t)
      /\ \A a \in Assets : NewAsset(a)' => NewAsset(a)
  BY DEF NewToken, NewAsset
<1>2. /\ \A t \in Tokens : deposited'[t] = deposited[t] /\ Under(t)' = Under(t)
      /\ \A a \in Assets : Unheld(a)' = Unheld(a)
  BY DEF BooksStay, AllStaysHeld
<1>3. \A t \in Tokens, a \in Assets :
        FirstPair(t, a)' => deposited[t] + Unheld(a) = Under(t)
  BY DEF BackedInv
<1> QED
  BY <1>1, <1>2, <1>3 DEF BackedInv

LEMMA BackedStep ==
    ASSUME TypeOK, MapInv, BackedInv, [Next]_vars
    PROVE  BackedInv'
<1>1. BooksMove
  BY BooksStep
<1>2. CASE Remap \/ on_runtime_upgrade
  <2>1. BooksStay
    <3>1. UNCHANGED Money
      BY <1>2, SettingsLeaveMoney
    <3> QED
      BY <3>1 DEF Money, BooksStay, AllStaysHeld, Under, Unheld, Supply
  <2>2. \A t \in Tokens : Under(t) \in Int
    BY BookTypes
  <2>3. CASE \E token \in Tokens, asset \in Assets : set_token_id(token, asset)
    <3>1. PICK token \in Tokens, asset \in Assets : set_token_id(token, asset)
      BY <2>3
    <3>2. /\ assetIdByTokenId' = assetIdByTokenId \cup {<<token, asset>>}
          /\ deleted' = deleted
          /\ \A a \in Assets : <<token, a>> \notin assetIdByTokenId
          /\ \A t \in Tokens : <<t, asset>> \notin assetIdByTokenId
      BY <3>1 DEF set_token_id, AssetIdsOf, TokenIdsOf, historyVars, forcedVars
    <3>3. \A t \in Tokens, a \in Assets :
            FirstPair(t, a)' => FirstPair(t, a) \/ (NewToken(t) /\ NewAsset(a))
      BY <3>2 DEF FirstPair, NewToken, NewAsset, EverPaired
    <3>4. EverPaired \subseteq EverPaired'
      BY <3>2 DEF EverPaired
    <3> QED
      BY <2>1, <2>2, <3>2, <3>3, <3>4, BackedPairs
  <2>4. CASE \E token \in Tokens : delete_token_id(token)
    <3>1. PICK token \in Tokens : delete_token_id(token)
      BY <2>4
    <3>2. /\ assetIdByTokenId' = {pair \in assetIdByTokenId : pair[1] # token}
          /\ deleted' = deleted \cup {pair \in assetIdByTokenId : pair[1] = token}
      BY <3>1 DEF delete_token_id
    <3>3. \A t \in Tokens, a \in Assets : FirstPair(t, a)' => FirstPair(t, a)
      BY <3>2 DEF FirstPair
    <3>4. EverPaired \subseteq EverPaired'
      BY <3>2 DEF EverPaired
    <3> QED
      BY <2>1, <2>2, <3>2, <3>3, <3>4, BackedPairs
  <2>5. CASE on_runtime_upgrade
    <3>1. /\ assetIdByTokenId = {} /\ OneToOne(oldTokens)
          /\ assetIdByTokenId' = oldTokens /\ deleted' = deleted
      BY <2>5 DEF on_runtime_upgrade, migration_to_v1, MapInv, historyVars, forcedVars
    <3>2. \A t \in Tokens, a \in Assets : FirstPair(t, a)' => NewToken(t) /\ NewAsset(a)
      BY <3>1 DEF FirstPair, NewToken, NewAsset, EverPaired
    <3>3. EverPaired \subseteq EverPaired'
      BY <3>1 DEF EverPaired
    <3> QED
      BY <2>1, <2>2, <3>1, <3>2, <3>3, BackedPairs
  <2> QED
    BY <1>2, <2>3, <2>4, <2>5 DEF Remap
<1>3. CASE \/ \E who \in Accounts : UserCall(who)
           \/ process_notification \/ RootCall \/ Mainchain \/ UNCHANGED vars
           \/ \E newFee \in Fees : set_token_price(newFee)
  <2>1. UNCHANGED <<assetIdByTokenId, deleted>>
    BY <1>3 DEF UserCall, lock, burn_nep141, lock_nonfungible, process_notification, RootCall,
                force_unlock, force_mint_nep141, force_unlock_nonfungible,
                force_set_is_activated, set_token_price, Mainchain, ExecuteMessage, BurnWrapped,
                DepositToken, BurnItem, vars, configVars, historyVars, forcedVars
  <2> QED
    BY <1>1, <2>1, BackedMove
<1> QED
  BY <1>2, <1>3 DEF Next, Appchain

LEMMA BackedTokens == ASSUME TypeOK, BackedInv PROVE TokensAreBacked
<1> SUFFICES ASSUME NEW pair \in assetIdByTokenId,
                    \A p \in deleted : p[1] # pair[1] /\ p[2] # pair[2]
             PROVE  deposited[pair[1]] + Unheld(pair[2]) = Under(pair[1])
  BY BookTypes DEF TokensAreBacked, Unheld, Under, TypeOK
<1>1. PICK t \in Tokens, a \in Assets : pair = <<t, a>>
  BY DEF TypeOK
<1>2. FirstPair(t, a)
  BY <1>1 DEF FirstPair
<1> QED
  BY <1>1, <1>2 DEF BackedInv

\* Not only in all: as long as root takes no asset from a token that has one, each
\* token on the mainchain's account has its own asset on the appchain, whatever is
\* on the ways, refused, or failed because the token had no asset yet.
THEOREM TokensBacked ==
    ASSUME OneToOne(GenesisTokens)
    PROVE  Spec => []TokensAreBacked
<1>1. TypeOK /\ BackedInv => TokensAreBacked
  BY BackedTokens
<1> QED
  BY <1>1, BackedInit, BackedStep, MapInit, MapStep, TypeInit, TypeStep, PTL DEF Spec
-----------------------------------------------------------------------------
\* The bridge implements the ledger. As the books balance before and after a
\* step, it is enough to know which of their entries it leaves alone.

Outside == SumOf(up, NoToken) + wrapped + SumOf(down, NoToken)
Stuck == SumOf(failed, NoToken)
Places == [item \in Items |-> PlaceOf(item)]

Balanced ==
    /\ balance[PalletAccount] \in Nat /\ forced[NoToken] \in Nat
    /\ Outside \in Nat /\ Stuck \in Nat /\ fees \in Nat
    /\ balance[PalletAccount] + forced[NoToken] = Outside + Stuck + fees

LEMMA LedgerBalanced == TypeOK /\ NativeIsBacked => Balanced
BY NativeTypes DEF NativeIsBacked, Balanced, Outside, Stuck

LEMMA LedgerTypes ==
    ASSUME TypeOK, TypeOK', NativeIsBacked, NativeIsBacked'
    PROVE  Balanced /\ Balanced'
BY LedgerBalanced, PTL

LEMMA PlaceMoves ==
    ASSUME NEW item \in Items, NEW to, PlaceOf(item)' = to,
           \A x \in Items \ {item} : PlaceOf(x)' = PlaceOf(x)
    PROVE  Places' = [Places EXCEPT ![item] = to]
BY DEF Places

LEMMA PlacesStay ==
    ASSUME UNCHANGED <<owner, failed, forcedItems>>
    PROVE  UNCHANGED Places
BY DEF Places, PlaceOf

\* An item that is under way is with the pallet, and nowhere else.
LEMMA PlaceOutside ==
    ASSUME TypeOK, ItemInv, NEW item \in Items \ forcedItems,
           SumOf(up, item) >= 1 \/ SumOf(down, item) >= 1
    PROVE  PlaceOf(item) = "outside" /\ SumOf(failed, item) = 0
<1>1. /\ SumOf(up, item) \in Nat /\ SumOf(down, item) \in Nat /\ SumOf(failed, item) \in Nat
      /\ Cardinality(minted \cap {item}) \in Nat
      /\ Away(item) = IF owner[item] = PalletAccount THEN 1 ELSE 0
  BY ItemCounts DEF ItemInv
<1>2. owner[item] = PalletAccount /\ SumOf(failed, item) = 0
  BY <1>1 DEF Away
<1> QED
  BY <1>2 DEF PlaceOf

LEMMA LedgerUser ==
    ASSUME TypeOK, TypeOK', NativeIsBacked, NativeIsBacked', ItemInv,
           NEW who \in Accounts, UserCall(who)
    PROVE  Ledger!LedgerNext
<1>1. ASSUME NEW message \in Message, Submit(message), fees' = fees + fee,
             UNCHANGED <<forced, wrapped, down, failed>>
      PROVE  Ledger!Pays /\ (message.token # NoToken => UNCHANGED Outside)
  <2>1. Amount(message, NoToken) \in Nat
    BY AmountType DEF Entries
  <2>2. SumOf(up', NoToken) = SumOf(up, NoToken) + Amount(message, NoToken)
    BY <1>1, SubmitAdds
  <2>3. Outside' = Outside + Amount(message, NoToken)
    BY <1>1, <2>1, <2>2, NativeTypes DEF Outside
  <2>4. Stuck' = Stuck /\ forced'[NoToken] = forced[NoToken] /\ fees' >= fees
    BY <1>1, NativeTypes DEF Stuck
  <2>5. Balanced /\ Balanced'
    BY LedgerTypes
  <2>6. /\ Outside' >= Outside
        /\ balance'[PalletAccount] - balance[PalletAccount]
             = (Outside' - Outside) + (fees' - fees)
    BY <2>1, <2>3, <2>4, <2>5 DEF Balanced
  <2>7. Ledger!Pays
    BY <2>4, <2>6 DEF Ledger!Pays, Outside, Stuck
  <2>8. message.token # NoToken => Amount(message, NoToken) = 0
    BY DEF Amount
  <2> QED
    BY <2>3, <2>5, <2>7, <2>8 DEF Balanced
<1>2. CASE \E amount \in Amounts :
             \/ lock(who, amount)
             \/ \E asset \in Assets : burn_nep141(who, asset, amount)
  <2>1. PICK token \in Kinds, amount \in Nat : Submit([token |-> token, amount |-> amount])
    <3>1. Amounts \subseteq Nat /\ NoToken \in Kinds
      BY BridgeAssumption DEF Kinds
    <3>2. \A asset \in Assets : TokenIdsOf(asset) \subseteq Kinds
      <4>1. assetIdByTokenId \subseteq Tokens \X Assets
        BY DEF TypeOK
      <4>2. \A pair \in Tokens \X Assets : pair[1] \in Kinds
        BY DEF Kinds
      <4> QED
        BY <4>1, <4>2 DEF TokenIdsOf
    <3>3. CASE \E amount \in Amounts : lock(who, amount)
      BY <3>1, <3>3 DEF lock
    <3>4. CASE \E amount \in Amounts, asset \in Assets : burn_nep141(who, asset, amount)
      BY <3>1, <3>2, <3>4 DEF burn_nep141
    <3> QED
      BY <1>2, <3>3, <3>4
  <2>2. [token |-> token, amount |-> amount] \in Message
    BY DEF Message
  <2>3. /\ fees' = fees + fee
        /\ UNCHANGED <<owner, forced, forcedItems, wrapped, down, failed>>
    BY <1>2 DEF lock, burn_nep141, mainchainVars, forcedVars
  <2>4. Ledger!Pays /\ UNCHANGED Places
    BY <1>1, <2>1, <2>2, <2>3, PlacesStay
  <2> QED
    BY <2>4 DEF Ledger!LedgerNext, Places
<1>3. ASSUME NEW item \in Items, owner[item] = who, lock_nonfungible(who, item)
      PROVE  Ledger!LedgerNext
  <2> DEFINE message == [token |-> item, amount |-> 1]
  <2>1. message \in Message /\ message.token # NoToken
    BY BridgeAssumption DEF Message, Kinds
  <2>2. /\ Submit(message) /\ fees' = fees + fee
        /\ owner' = [owner EXCEPT ![item] = PalletAccount]
        /\ UNCHANGED <<forced, forcedItems, wrapped, down, failed>>
    BY <1>3 DEF lock_nonfungible, mainchainVars, forcedVars
  <2>3. Ledger!Pays /\ UNCHANGED Outside
    BY <1>1, <2>1, <2>2
  <2>4. \A x \in Items \ {item} : PlaceOf(x)' = PlaceOf(x)
    BY <2>2 DEF PlaceOf
  <2>5. CASE item \in forcedItems
    <3>1. PlaceOf(item)' = PlaceOf(item)
      BY <2>2, <2>5 DEF PlaceOf
    <3>2. UNCHANGED Places
      BY <2>4, <3>1 DEF Places
    <3> QED
      BY <2>3, <3>2 DEF Ledger!LedgerNext, Places
  <2>6. CASE item \notin forcedItems
    <3>1. /\ SumOf(failed, item) = 0 /\ owner[item] # PalletAccount
          /\ owner'[item] = PalletAccount
      <4>1. owner[item] # PalletAccount
        BY <1>3, BridgeAssumption
      <4>2. /\ SumOf(up, item) \in Nat /\ SumOf(down, item) \in Nat
            /\ SumOf(failed, item) \in Nat /\ Cardinality(minted \cap {item}) \in Nat
            /\ Away(item) = IF owner[item] = PalletAccount THEN 1 ELSE 0
        <5>1. item \in Items \ forcedItems
          BY <2>6
        <5> QED
          BY <5>1, ItemCounts DEF ItemInv
      <4>3. SumOf(failed, item) = 0
        BY <4>1, <4>2 DEF Away
      <4> QED
        BY <2>2, <4>1, <4>3 DEF TypeOK
    <3>2. PlaceOf(item) = "appchain" /\ PlaceOf(item)' = "outside"
      BY <2>2, <2>6, <3>1 DEF PlaceOf
    <3>3. Ledger!Moves(item, "appchain", "outside")
      BY <2>4, <3>2, PlaceMoves DEF Ledger!Moves, Places
    <3> QED
      BY <2>3, <3>3 DEF Ledger!LedgerNext, Outside
  <2> QED
    BY <2>5, <2>6
<1> QED
  BY <1>2, <1>3 DEF UserCall

LEMMA LedgerNotification ==
    ASSUME TypeOK, TypeOK', NativeIsBacked, NativeIsBacked', ItemInv, process_notification
    PROVE  Ledger!LedgerNext
<1> DEFINE n == Head(down)
<1>1. /\ n \in Notification /\ n.receiver \in Accounts /\ Tail(down) \in Seq(Entries)
      /\ down # <<>> /\ down' = Tail(down)
      /\ UNCHANGED <<up, wrapped, fees, forced, forcedItems>>
  <2>1. /\ down # <<>> /\ down' = Tail(down)
        /\ UNCHANGED <<up, wrapped, fees, forced, forcedItems>>
    BY DEF process_notification, mainchainVars, forcedVars
  <2>2. n \in Notification /\ Tail(down) \in Seq(Notification)
    BY <2>1, FirstNotification
  <2> HIDE DEF n
  <2>3. n.receiver \in Accounts
    BY <2>2 DEF Notification
  <2>4. Tail(down) \in Seq(Entries)
    BY <2>2 DEF Entries
  <2> QED
    BY <2>1, <2>2, <2>3, <2>4
<1>2. \A item \in Items : Amount(n, item) = IF n.token = item THEN 1 ELSE 0
  BY <1>1, ListsOfEntries, UnitsTaken DEF ItemInv
<1> HIDE DEF n
<1>3. /\ SumOf(down, NoToken) = Amount(n, NoToken) + SumOf(down', NoToken)
      /\ SumOf(down', NoToken) \in Nat /\ Amount(n, NoToken) \in Nat
  BY <1>1, ProcessingTakes, SumOfType, AmountType DEF n, Entries
<1>4. Outside' = Outside - Amount(n, NoToken)
  BY <1>1, <1>3, NativeTypes DEF Outside
<1>5. n.token # NoToken => UNCHANGED Outside
  <2>1. n.token # NoToken => Amount(n, NoToken) = 0
    BY DEF Amount
  <2>2. Outside \in Nat
    BY LedgerTypes DEF Balanced
  <2> QED
    BY <1>4, <2>1, <2>2
\* Of an item, a unit leaves the queue.
<1>6. ASSUME NEW item \in Items \ forcedItems, n.token = item
      PROVE  PlaceOf(item) = "outside" /\ SumOf(failed, item) = 0
  <2>1. SumOf(down, item) = Amount(n, item) + SumOf(down', item) /\ SumOf(down', item) \in Nat
    BY <1>1, ProcessingTakes, SumOfType DEF n
  <2>2. SumOf(down, item) >= 1
    BY <1>2, <1>6, <2>1
  <2> QED
    BY <2>2, PlaceOutside
<1>7. CASE unlock(n) \/ mint_nep141(n)
  <2>1. UNCHANGED <<owner, failed>>
    BY <1>7 DEF unlock, mint_nep141
  <2>2. UNCHANGED Places /\ UNCHANGED Stuck
    BY <1>1, <2>1, PlacesStay DEF Stuck
  <2>3. /\ Outside' <= Outside
        /\ balance[PalletAccount]' - balance[PalletAccount] = Outside' - Outside
    <3>1. /\ balance[PalletAccount] \in Nat /\ balance'[PalletAccount] \in Nat
          /\ Outside \in Nat /\ Outside' \in Nat /\ Stuck \in Nat
          /\ fees \in Nat /\ forced[NoToken] \in Nat
      BY LedgerTypes DEF Balanced
    <3>2. balance[PalletAccount] + forced[NoToken] = Outside + Stuck + fees
      BY LedgerTypes DEF Balanced
    <3>3. balance'[PalletAccount] + forced'[NoToken] = Outside' + Stuck' + fees'
      BY LedgerTypes DEF Balanced
    <3>4. Stuck' = Stuck /\ forced'[NoToken] = forced[NoToken] /\ fees' = fees
      BY <1>1, <2>2
    <3>5. balance'[PalletAccount] - balance[PalletAccount] = Outside' - Outside
      BY <3>1, <3>2, <3>3, <3>4
    <3>6. Outside' <= Outside
      BY <1>3, <1>4, <3>1
    <3> QED
      BY <3>5, <3>6
  <2>4. Ledger!TokensReturn
    BY <1>1, <2>2, <2>3 DEF Ledger!TokensReturn, Outside, Stuck
  <2> QED
    BY <2>2, <2>4 DEF Ledger!LedgerNext, Places
<1>8. CASE unlock_nonfungible(n)
  <2>1. PICK item \in Items :
          /\ item = n.token /\ item # NoToken /\ UNCHANGED <<balance, failed>>
          /\ owner' = [owner EXCEPT ![item] = n.receiver]
    BY <1>8, BridgeAssumption DEF unlock_nonfungible
  <2>2. UNCHANGED Outside
    BY <1>5, <2>1
  <2>3. UNCHANGED <<balance[PalletAccount], Outside, Stuck, fees, forced[NoToken]>>
    BY <1>1, <2>1, <2>2 DEF Stuck
  <2>4. \A x \in Items \ {item} : PlaceOf(x)' = PlaceOf(x)
    BY <1>1, <2>1 DEF PlaceOf
  <2>5. CASE item \in forcedItems
    <3>1. PlaceOf(item)' = PlaceOf(item)
      BY <1>1, <2>1, <2>5 DEF PlaceOf
    <3>2. UNCHANGED Places
      BY <2>4, <3>1 DEF Places
    <3>3. Ledger!TokensReturn
      <4>1. Balanced
        BY LedgerTypes
      <4> QED
        BY <2>3, <4>1 DEF Balanced, Ledger!TokensReturn, Outside, Stuck
    <3> QED
      BY <3>2, <3>3 DEF Ledger!LedgerNext, Places
  <2>6. CASE item \notin forcedItems
    <3>1. PlaceOf(item) = "outside" /\ SumOf(failed, item) = 0
      BY <1>6, <2>1, <2>6
    <3>2. owner'[item] # PalletAccount
      BY <1>1, <2>1, PayingHolders DEF TypeOK
    <3>3. PlaceOf(item)' = "appchain"
      BY <1>1, <2>1, <2>6, <3>1, <3>2 DEF PlaceOf
    <3>4. Ledger!Moves(item, "outside", "appchain")
      BY <2>1, <2>4, <3>1, <3>3, PlaceMoves DEF Ledger!Moves, Places
    <3> QED
      BY <2>1, <2>3, <3>4 DEF Ledger!LedgerNext, Ledger!tokenVars, Outside, Stuck
  <2> QED
    BY <2>5, <2>6
<1>9. CASE NotificationFails(n)
  <2>1. UNCHANGED <<balance, owner>> /\ failed' = Append(failed, n)
    BY <1>9 DEF NotificationFails, assetVars
  <2>2. Ledger!TokensFail /\ (n.token # NoToken => UNCHANGED Stuck)
    <3>1. Stuck' = Stuck + Amount(n, NoToken)
      BY <1>1, <2>1, FailureAdds DEF Stuck
    <3>2. Outside' <= Outside /\ Stuck' - Stuck = Outside - Outside'
      <4>1. Balanced
        BY LedgerTypes
      <4> QED
        BY <1>3, <1>4, <3>1, <4>1 DEF Balanced
    <3>3. n.token # NoToken => UNCHANGED Stuck
      <4>1. Balanced
        BY LedgerTypes
      <4> QED
        BY <3>1, <4>1 DEF Amount, Balanced
    <3> QED
      BY <1>1, <2>1, <3>2, <3>3 DEF Ledger!TokensFail, Outside, Stuck
  <2>3. \A x \in Items : SumOf(failed', x) = SumOf(failed, x) + IF n.token = x THEN 1 ELSE 0
    BY <1>1, <1>2, <2>1, FailureAdds
  <2>4. \A x \in Items : n.token # x => PlaceOf(x)' = PlaceOf(x)
    <3> SUFFICES ASSUME NEW x \in Items, n.token # x PROVE PlaceOf(x)' = PlaceOf(x)
      OBVIOUS
    <3>1. SumOf(failed', x) = SumOf(failed, x)
      BY <2>3, SumsType
    <3> QED
      BY <1>1, <2>1, <3>1 DEF PlaceOf
  <2>5. CASE n.token \notin Items \ forcedItems
    <3>1. \A x \in Items : PlaceOf(x)' = PlaceOf(x)
      BY <1>1, <2>4, <2>5 DEF PlaceOf
    <3>2. UNCHANGED Places
      BY <3>1 DEF Places
    <3> QED
      BY <2>2, <3>2 DEF Ledger!LedgerNext, Places
  <2>6. CASE n.token \in Items \ forcedItems
    <3>0. PICK item \in Items \ forcedItems : item = n.token
      BY <2>6
    <3>1. PlaceOf(item) = "outside" /\ SumOf(failed, item) = 0
      BY <1>6, <3>0
    <3>2. PlaceOf(item)' = "stuck"
      <4>1. SumOf(failed', item) = 1
        BY <2>3, <3>0, <3>1
      <4> QED
        BY <1>1, <3>0, <4>1 DEF PlaceOf
    <3>3. Ledger!Moves(item, "outside", "stuck")
      <4>1. item \in Items /\ \A x \in Items \ {item} : PlaceOf(x)' = PlaceOf(x)
        BY <2>4, <3>0
      <4> QED
        BY <3>1, <3>2, <4>1, PlaceMoves DEF Ledger!Moves, Places
    <3>4. UNCHANGED <<balance[PalletAccount], Outside, Stuck, fees, forced[NoToken]>>
      BY <1>1, <1>5, <2>1, <2>2, <2>6, BridgeAssumption
    <3> QED
      BY <3>0, <3>3, <3>4 DEF Ledger!LedgerNext, Ledger!tokenVars, Outside, Stuck
  <2> QED
    BY <2>5, <2>6
<1> QED
  BY <1>7, <1>8, <1>9 DEF process_notification, n

LEMMA LedgerRoot ==
    ASSUME TypeOK, TypeOK', NativeIsBacked, NativeIsBacked', RootCall
    PROVE  Ledger!LedgerNext
<1>1. UNCHANGED <<up, down, wrapped, failed, fees>>
  BY DEF RootCall, force_unlock, force_mint_nep141, force_unlock_nonfungible,
         force_set_is_activated, assetVars, mainchainVars, historyVars, forcedVars
<1>2. UNCHANGED <<Outside, Stuck>>
  BY <1>1 DEF Outside, Stuck
<1>3. ASSUME forced'[NoToken] >= forced[NoToken], UNCHANGED <<owner, forcedItems>>
      PROVE  Ledger!LedgerNext
  <2>1. forced'[NoToken] - forced[NoToken] = balance[PalletAccount] - balance'[PalletAccount]
    <3>1. Balanced /\ Balanced'
      BY LedgerTypes
    <3> QED
      BY <1>1, <1>2, <3>1 DEF Balanced
  <2>2. Ledger!TokensCorrected
    BY <1>1, <1>2, <1>3, <2>1 DEF Ledger!TokensCorrected, Outside, Stuck
  <2>3. UNCHANGED Places
    BY <1>1, <1>3, PlacesStay
  <2> QED
    BY <2>2, <2>3 DEF Ledger!LedgerNext, Places
<1>4. CASE \E who \in Accounts, amount \in Amounts : force_unlock(who, amount)
  <2>1. PICK amount \in Amounts : forced' = [forced EXCEPT ![NoToken] = @ + amount]
    BY <1>4 DEF force_unlock
  <2>2. forced'[NoToken] >= forced[NoToken] /\ UNCHANGED <<owner, forcedItems>>
    BY <1>4, <2>1, BridgeAssumption DEF force_unlock, TypeOK
  <2> QED
    BY <1>3, <2>2
<1>5. CASE \/ \E who \in Accounts, amount \in Amounts, asset \in Assets :
                force_mint_nep141(asset, who, amount)
           \/ \E value \in BOOLEAN : force_set_is_activated(value)
  <2>1. forced'[NoToken] = forced[NoToken] /\ UNCHANGED <<owner, forcedItems>>
    <3>1. NoToken \notin Assets
      BY BridgeAssumption
    <3> QED
      BY <1>5, <3>1 DEF force_mint_nep141, force_set_is_activated, assetVars, historyVars,
                        forcedVars, TypeOK
  <2>2. Balanced
    BY LedgerTypes
  <2> QED
    BY <1>3, <2>1, <2>2 DEF Balanced
<1>6. ASSUME NEW who \in Accounts, NEW item \in Items, force_unlock_nonfungible(who, item)
      PROVE  Ledger!LedgerNext
  <2>1. /\ UNCHANGED <<balance, forced>> /\ forcedItems' = forcedItems \cup {item}
        /\ owner' = [owner EXCEPT ![item] = who]
    BY <1>6 DEF force_unlock_nonfungible
  <2>2. PlaceOf(item)' = "corrected" /\ \A x \in Items \ {item} : PlaceOf(x)' = PlaceOf(x)
    BY <1>1, <2>1 DEF PlaceOf
  <2>3. Ledger!ItemCorrected(item)
    BY <2>2, PlaceMoves DEF Ledger!ItemCorrected, Places
  <2> QED
    BY <1>1, <1>2, <2>1, <2>3 DEF Ledger!LedgerNext, Ledger!tokenVars, Outside, Stuck
<1> QED
  BY <1>4, <1>5, <1>6 DEF RootCall

\* What the mainchain does moves nothing between the entries of the ledger.
LEMMA LedgerMainchain ==
    ASSUME TypeOK, TypeOK', NativeIsBacked, NativeIsBacked', Mainchain
    PROVE  UNCHANGED Ledger!ledgerVars
<1>1. UNCHANGED <<balance, owner, failed, fees, forced, forcedItems>>
  BY DEF Mainchain, ExecuteMessage, BurnWrapped, DepositToken, BurnItem, assetVars,
         historyVars, forcedVars
<1>2. UNCHANGED Places /\ UNCHANGED Stuck
  BY <1>1, PlacesStay DEF Stuck
<1>3. UNCHANGED Outside
  <2>1. Balanced /\ Balanced'
    BY LedgerTypes
  <2> QED
    BY <1>1, <1>2, <2>1 DEF Balanced
<1> QED
  BY <1>1, <1>2, <1>3 DEF Ledger!ledgerVars, Ledger!tokenVars, Outside, Stuck, Places

LEMMA LedgerInit == Init => Ledger!LedgerInit
<1> SUFFICES ASSUME Init PROVE Ledger!LedgerInit
  OBVIOUS
<1>1. TypeOK /\ NativeIsBacked
  BY TypeInit, NativeInit
<1>2. SumOf(failed, NoToken) = 0 /\ \A item \in Items : SumOf(failed, item) = 0
  BY SumOfNothing DEF Init
<1>3. fees = 0 /\ forced[NoToken] = 0
  BY DEF Init
<1>4. \A item \in Items : PlaceOf(item) = "appchain"
  BY <1>2, BridgeAssumption DEF Init, PlaceOf
<1>5. balance[PalletAccount] = Outside
  BY <1>1, <1>2, <1>3, LedgerBalanced DEF Balanced, Stuck
<1> QED
  BY <1>2, <1>3, <1>4, <1>5 DEF Ledger!LedgerInit, Outside

LEMMA LedgerStep ==
    ASSUME TypeOK, TypeOK', NativeIsBacked, NativeIsBacked', ItemInv, [Next]_vars
    PROVE  [Ledger!LedgerNext]_(Ledger!ledgerVars)
<1>1. CASE \/ Remap \/ on_runtime_upgrade \/ UNCHANGED vars
           \/ \E newFee \in Fees : set_token_price(newFee)
  BY <1>1, SettingsLeaveMoney DEF Money, PlaceOf, Ledger!ledgerVars, Ledger!tokenVars
<1> QED
  BY <1>1, LedgerUser, LedgerNotification, LedgerRoot, LedgerMainchain DEF Next, Appchain

\* Seen without its queues the bridge is a ledger: whatever is refused, delayed,
\* or fails, every step moves tokens or one item between two of its entries.
THEOREM LedgerImplemented == Spec => ImplementsLedger
BY LedgerInit, LedgerStep, NativeInit, NativeStep, ItemInit, ItemStep, TypeInit, TypeStep, PTL
DEF Spec, ImplementsLedger, Ledger!LedgerSpec
=============================================================================
