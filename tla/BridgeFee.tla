----------------------------- MODULE BridgeFee -----------------------------
(***************************************************************************)
(* The fee of a transfer to the mainchain, as the pallet octopus-bridge    *)
(* calculates it when the oracle sets the prices: the price of NEAR over   *)
(* that of the native token, times a coefficient in percent, limited by a  *)
(* threshold. Fractions are Perbill, here in parts of PARTS, and integers  *)
(* are u64, here modulo WORD.                                              *)
(***************************************************************************)
EXTENDS Integers

CONSTANTS
    Accounts,   \* that may be or become the oracle's
    NoAccount,
    PARTS,      \* parts of a Perbill, a multiple of 100
    WORD,       \* values of a u64
    TOKEN,      \* NativeTokenDecimals: the units of one native token
    Threshold,
    Prices,     \* the prices that the oracle may try
    Coefs       \* the coefficients that root may try, in percent

DefaultForCoef == 3

ASSUME FeeAssumption ==
    /\ NoAccount \notin Accounts
    /\ PARTS \in Nat \ {0} /\ PARTS % 100 = 0
    /\ WORD \in Nat \ {0} /\ TOKEN \in Nat /\ Threshold \in Nat
    /\ Prices \subseteq 0..(WORD - 1) /\ Coefs \subseteq Nat

VARIABLES
    oracleAccount,
    coef,
    price,      \* the prices of NEAR and of the native token; zero: none yet
    fee,        \* CrosschainTransferFee, the same for all kinds of transfers
    coefUsed    \* history: the coefficient that the fee was calculated with

vars == <<oracleAccount, coef, price, fee, coefUsed>>

TypeOK ==
    /\ oracleAccount \in Accounts \cup {NoAccount}
    /\ coef \in 1..100 /\ coefUsed \in 1..100
    /\ price \in [near : Prices \cup {0}, native : Prices \cup {0}]
    /\ price.near = 0 <=> price.native = 0
    /\ fee \in Nat

Init ==
    /\ oracleAccount = NoAccount
    /\ coef = DefaultForCoef /\ coefUsed = DefaultForCoef
    /\ price = [near |-> 0, native |-> 0]
    /\ fee = 0
-----------------------------------------------------------------------------
\* Definitions under the heading "Buggy variant" are not part of the
\* specification: they are used only to show that the properties can fail.

\* Buggy variant: a sum above one wraps.
PlusWrapping(f, g) == (f + g) % PARTS

\* Perbill (external): rounding down, and never more than one (a debug build
\* asserts it when adding).
FromRational(p, q) == IF p >= q THEN PARTS ELSE (p * PARTS) \div q
Plus(f, g) == IF f + g > PARTS THEN PARTS ELSE f + g
Times(f, g) == (f * g) \div PARTS

\* Buggy variant: the fraction is not multiplied by the coefficient.
QuantityOfWholeFraction(near, native) ==
    LET integer1 == (((near \div native) * coef) % WORD) \div 100
    IN  IF integer1 >= Threshold
        THEN <<Threshold, 0>>
        ELSE <<integer1, Plus(FromRational((((near \div native) * coef) % WORD) % 100, 100),
                              FromRational(near % native, native))>>

\* calculate_quantity_of_native_tokens: the whole tokens and their fraction.
calculate_quantity(near, native) ==
    LET integer   == near \div native
        fraction  == FromRational(near % native, native)
        value1    == (integer * coef) % WORD
        integer1  == value1 \div 100
        fraction1 == FromRational(value1 % 100, 100)
        fraction2 == Times(fraction, FromRational(coef, 100))
    IN  IF integer1 >= Threshold THEN <<Threshold, 0>>
        ELSE <<integer1, Plus(fraction1, fraction2)>>

calculate_fee(quantity) == TOKEN * quantity[1] + (TOKEN * quantity[2]) \div PARTS

set_oracle_account(who) ==
    /\ oracleAccount' = who
    /\ UNCHANGED <<coef, price, fee, coefUsed>>

set_token_price(who, near, native) ==
    /\ near # 0 /\ native # 0
    /\ who = oracleAccount
    /\ price' = [near |-> near, native |-> native]
    /\ fee' = calculate_fee(calculate_quantity(near, native))
    /\ coefUsed' = coef
    /\ UNCHANGED <<oracleAccount, coef>>

\* Buggy variant: any coefficient is taken.
SetAnyCoef(c) ==
    /\ coef' = c
    /\ UNCHANGED <<oracleAccount, price, fee, coefUsed>>

set_coef_for_calculate_fee(c) ==
    /\ c > 0 /\ c <= 100
    /\ coef' = c
    /\ UNCHANGED <<oracleAccount, price, fee, coefUsed>>

Next ==
    \/ \E who \in Accounts : set_oracle_account(who)
    \/ \E who \in Accounts, near, native \in Prices : set_token_price(who, near, native)
    \/ \E c \in Coefs : set_coef_for_calculate_fee(c)

Spec == Init /\ [][Next]_vars
-----------------------------------------------------------------------------
\* coef * near / (100 * native) tokens, as a fraction.
Over == TOKEN * coefUsed * price.near
Under == 100 * price.native

\* There are prices, the product fits a u64, and the threshold does not apply.
IsCalculated ==
    /\ price.native # 0
    /\ (price.near \div price.native) * coefUsed < WORD
    /\ fee < Threshold * TOKEN

\* Nobody pays more than the coefficient of the prices' quotient asks for, and
\* nobody more than the threshold, whatever is rounded on the way.
FeeIsNoMore ==
    /\ fee <= Threshold * TOKEN
    /\ price.native # 0 => fee * Under <= Over

\* What rounding and the limit of a Perbill take off is less than one token, if
\* the product fits a u64; only the threshold takes off more.
FeeIsNoTokenLess == IsCalculated => Over < (fee + TOKEN) * Under
=============================================================================
