--------------------------- MODULE BridgeFeeProofs ---------------------------
(***************************************************************************)
(* Theorems about BridgeFee, for all prices, coefficients, thresholds and  *)
(* decimals, and for every width of the integers and of the fractions. The *)
(* arithmetic is exact: what is rounded is bounded by Quotient, and then   *)
(* carried through the formula in the order in which the code calculates.  *)
(***************************************************************************)
EXTENDS BridgeFee, TLAPS

\* What the division of integers does.
LEMMA Division ==
    ASSUME NEW a \in Nat, NEW b \in Nat \ {0}, NEW q, NEW r, q = a \div b, r = a % b
    PROVE  q \in Nat /\ r \in Nat /\ b * q <= a /\ a = b * q + r /\ r < b /\ r <= a
<1>1. a = b * q + r
  OBVIOUS
<1>2. q \in Nat /\ r \in 0..(b - 1)
  OBVIOUS
<1>3. b * q \in Nat
  BY <1>2
<1> QED
  BY <1>1, <1>2, <1>3

LEMMA Quotient ==
    ASSUME NEW a \in Nat, NEW b \in Nat \ {0}, NEW q, q = a \div b
    PROVE  q \in Nat /\ b * q <= a
  OBVIOUS

\* Factors keep the order, and a positive one can be cancelled.
LEMMA Grows ==
    ASSUME NEW x \in Nat, NEW y \in Nat, NEW z \in Nat, x <= y
    PROVE  z * x <= z * y
  OBVIOUS

LEMMA Cancels ==
    ASSUME NEW x \in Nat, NEW y \in Nat, NEW z \in Nat \ {0}, z * x <= z * y
    PROVE  x <= y
<1>1. ASSUME x >= y + 1
      PROVE  FALSE
  <2>1. z * (y + 1) <= z * x
    BY <1>1, Grows
  <2> QED
    BY <2>1
<1> QED
  BY <1>1

\* A Perbill from a fraction is none too large.
LEMMA RationalIsNoMore ==
    ASSUME NEW p \in Nat, NEW q \in Nat \ {0}
    PROVE  /\ FromRational(p, q) \in 0..PARTS
           /\ q * FromRational(p, q) <= p * PARTS
<1> USE FeeAssumption
<1>1. CASE p >= q
  <2>1. PARTS * q <= PARTS * p
    BY <1>1, Grows
  <2> QED
    BY <1>1, <2>1 DEF FromRational
<1>2. CASE p < q
  <2> DEFINE a == p * PARTS
  <2>1. a \in Nat /\ a <= q * PARTS
    <3>1. PARTS * p <= PARTS * q
      BY <1>2, Grows
    <3> QED
      BY <3>1
  <2> HIDE DEF a
  <2>2. PICK d : d = a \div q
    OBVIOUS
  <2>3. d \in Nat /\ q * d <= a
    BY <2>1, <2>2, Quotient
  <2>4. q * d <= q * PARTS
    BY <2>1, <2>3
  <2>5. d <= PARTS
    BY <2>3, <2>4, Cancels
  <2>6. FromRational(p, q) = d
    BY <1>2, <2>2 DEF FromRational, a
  <2> QED
    BY <2>3, <2>5, <2>6 DEF a
<1> QED
  BY <1>1, <1>2

\* A product keeps the order in both factors.
LEMMA ProductGrows ==
    ASSUME NEW x \in Nat, NEW y \in Nat, NEW u \in Nat, NEW w \in Nat, x <= y, u <= w
    PROVE  x * u <= y * w
<1>1. x * u <= x * w
  BY Grows
<1>2. w * x <= w * y
  BY Grows
<1> QED
  BY <1>1, <1>2

\* The fraction of the prices' quotient times the coefficient.
LEMMA FractionIsNoMore ==
    ASSUME NEW native \in Nat \ {0}, NEW rem \in Nat, NEW c \in Nat,
           NEW f \in Nat, NEW g \in Nat, NEW f2 \in Nat,
           native * f <= rem * PARTS, 100 * g <= c * PARTS, PARTS * f2 <= f * g
    PROVE  100 * (native * f2) <= PARTS * (c * rem)
<1> USE FeeAssumption
<1>1. (native * f) * (100 * g) <= (rem * PARTS) * (c * PARTS)
  BY ProductGrows
<1>2. (100 * native) * (PARTS * f2) <= (100 * native) * (f * g)
  BY Grows
<1>3. (100 * native) * (f * g) = (native * f) * (100 * g)
  OBVIOUS
<1>4. PARTS * (100 * (native * f2)) = (100 * native) * (PARTS * f2)
  OBVIOUS
<1>5. PARTS * (PARTS * (c * rem)) = (rem * PARTS) * (c * PARTS)
  OBVIOUS
<1>6. PARTS * (100 * (native * f2)) <= PARTS * (PARTS * (c * rem))
  BY <1>1, <1>2, <1>3, <1>4, <1>5
<1> QED
  BY <1>6, Cancels

\* The whole part times the coefficient, in hundredths.
LEMMA WholeIsNoMore ==
    ASSUME NEW i \in Nat, NEW c \in Nat, NEW v \in Nat, v <= i * c,
           NEW i1 \in Nat, NEW r1 \in Nat, v = 100 * i1 + r1,
           NEW f1 \in Nat, 100 * f1 <= r1 * PARTS
    PROVE  100 * (PARTS * i1 + f1) <= PARTS * (c * i)
<1> USE FeeAssumption
<1>1. PARTS * v <= PARTS * (i * c)
  BY Grows
<1>2. PARTS * v = 100 * (PARTS * i1) + r1 * PARTS
  OBVIOUS
<1>3. 100 * (PARTS * i1 + f1) <= PARTS * v
  BY <1>2
<1>4. PARTS * (i * c) = PARTS * (c * i)
  OBVIOUS
<1> QED
  BY <1>1, <1>3, <1>4

\* The quantity of tokens is no more than the formula's, whatever is rounded.
LEMMA QuantityIsNoMore ==
    ASSUME NEW near \in Nat, NEW native \in Nat \ {0}, coef \in 1..100,
           NEW whole, NEW part, calculate_quantity(near, native) = <<whole, part>>
    PROVE  /\ whole \in 0..Threshold /\ part \in 0..PARTS
           /\ whole = Threshold => part = 0
           /\ (100 * native) * (PARTS * whole + part) <= PARTS * (coef * near)
<1> USE FeeAssumption
<1> coef \in Nat /\ 100 \in Nat \ {0}
  OBVIOUS
<1>1. PICK i, rem : i = near \div native /\ rem = near % native
  OBVIOUS
<1>2. i \in Nat /\ rem \in Nat /\ near = native * i + rem /\ rem < native
  <2>1. near = native * i + rem
    BY <1>1
  <2>2. i \in Nat /\ rem \in 0..(native - 1)
    BY <1>1
  <2> QED
    BY <2>1, <2>2
<1>3. PICK f : f = FromRational(rem, native)
  OBVIOUS
<1>4. f \in 0..PARTS /\ native * f <= rem * PARTS
  BY <1>2, <1>3, RationalIsNoMore
<1>5. PICK x : x = i * coef
  OBVIOUS
<1>6. PICK v, over : v = x % WORD /\ over = x \div WORD
  OBVIOUS
<1>7. v \in Nat /\ v <= i * coef
  <2>1. x \in Nat
    BY <1>2, <1>5
  <2> QED
    BY <1>5, <1>6, <2>1, Division
<1>8. PICK i1, r1 : i1 = v \div 100 /\ r1 = v % 100
  OBVIOUS
<1>9. i1 \in Nat /\ r1 \in Nat /\ v = 100 * i1 + r1
  <2>1. v = 100 * i1 + r1
    BY <1>7, <1>8
  <2>2. i1 \in Nat /\ r1 \in 0..99
    BY <1>7, <1>8
  <2> QED
    BY <2>1, <2>2
<1>10. PICK f1 : f1 = FromRational(r1, 100)
  OBVIOUS
<1>11. f1 \in 0..PARTS /\ 100 * f1 <= r1 * PARTS
  BY <1>9, <1>10, RationalIsNoMore
<1>12. PICK g : g = FromRational(coef, 100)
  OBVIOUS
<1>13. g \in 0..PARTS /\ 100 * g <= coef * PARTS
  BY <1>12, RationalIsNoMore, Zenon
<1>14. PICK y, f2 : y = f * g /\ f2 = y \div PARTS
  OBVIOUS
<1>15. f2 \in Nat /\ PARTS * f2 <= f * g
  <2>1. y \in Nat
    BY <1>4, <1>13, <1>14
  <2> QED
    BY <1>14, <2>1, Quotient
<1>16. calculate_quantity(near, native) =
         IF i1 >= Threshold THEN <<Threshold, 0>> ELSE <<i1, Plus(f1, f2)>>
  <2>1. Times(f, g) = f2
    BY <1>14 DEF Times
  <2> QED
    BY <1>1, <1>3, <1>5, <1>6, <1>8, <1>10, <1>12, <2>1, Zenon DEF calculate_quantity
<1>17. 100 * (PARTS * i1 + f1) <= PARTS * (coef * i)
  BY <1>2, <1>7, <1>9, <1>11, WholeIsNoMore
<1>18. 100 * (native * f2) <= PARTS * (coef * rem)
  BY <1>2, <1>4, <1>13, <1>15, FractionIsNoMore
<1>19. (100 * native) * (PARTS * i1 + f1 + f2) <= PARTS * (coef * near)
  <2>1. native * (100 * (PARTS * i1 + f1)) <= native * (PARTS * (coef * i))
    BY <1>2, <1>9, <1>11, <1>17, Grows
  <2>2. (100 * native) * (PARTS * i1 + f1 + f2) =
          native * (100 * (PARTS * i1 + f1)) + 100 * (native * f2)
    BY <1>9, <1>11, <1>15
  <2>3. PARTS * (coef * near) = native * (PARTS * (coef * i)) + PARTS * (coef * rem)
    BY <1>2
  <2> QED
    BY <1>2, <1>9, <1>11, <1>15, <1>18, <2>1, <2>2, <2>3
<1>20. CASE i1 >= Threshold
  <2>1. whole = Threshold /\ part = 0
    BY <1>16, <1>20
  <2>2. PARTS * Threshold <= PARTS * i1 + f1 + f2
    <3>1. PARTS * Threshold <= PARTS * i1
      BY <1>9, <1>20, Grows
    <3> QED
      BY <1>9, <1>11, <1>15, <3>1
  <2>3. (100 * native) * (PARTS * Threshold) <= (100 * native) * (PARTS * i1 + f1 + f2)
    BY <1>9, <1>11, <1>15, <2>2, Grows
  <2> QED
    BY <1>2, <1>9, <1>11, <1>15, <1>19, <2>1, <2>3
<1>21. CASE i1 < Threshold
  <2>1. whole = i1 /\ part = Plus(f1, f2)
    BY <1>9, <1>16, <1>21
  <2>2. part \in 0..PARTS /\ part <= f1 + f2
    BY <1>11, <1>15, <2>1 DEF Plus
  <2>3. PARTS * whole + part <= PARTS * i1 + f1 + f2
    BY <1>9, <1>11, <1>15, <2>1, <2>2
  <2>4. (100 * native) * (PARTS * whole + part) <= (100 * native) * (PARTS * i1 + f1 + f2)
    BY <1>9, <1>11, <1>15, <2>1, <2>2, <2>3, Grows
  <2> QED
    BY <1>9, <1>11, <1>15, <1>19, <1>21, <2>1, <2>2, <2>4
<1> QED
  BY <1>9, <1>20, <1>21

\* The quantity in units: the fee.
LEMMA FeeOfQuantity ==
    ASSUME NEW near \in Nat, NEW native \in Nat \ {0}, coef \in 1..100,
           NEW x, x = calculate_fee(calculate_quantity(near, native))
    PROVE  /\ x \in Nat /\ x <= Threshold * TOKEN
           /\ x * (100 * native) <= TOKEN * coef * near
<1> USE FeeAssumption
<1>1. PICK whole, part : calculate_quantity(near, native) = <<whole, part>>
  BY DEF calculate_quantity
<1>2. /\ whole \in 0..Threshold /\ part \in 0..PARTS
      /\ whole = Threshold => part = 0
      /\ (100 * native) * (PARTS * whole + part) <= PARTS * (coef * near)
  BY <1>1, QuantityIsNoMore
<1>3. PICK y, d : y = TOKEN * part /\ d = y \div PARTS
  OBVIOUS
<1>4. d \in Nat /\ PARTS * d <= TOKEN * part
  <2>1. y \in Nat
    BY <1>2, <1>3
  <2> QED
    BY <1>3, <2>1, Quotient
<1>5. x = TOKEN * whole + d
  BY <1>1, <1>3 DEF calculate_fee
<1>6. x \in Nat
  BY <1>2, <1>4, <1>5
<1>7. x <= Threshold * TOKEN
  <2>1. CASE whole = Threshold
    <3>1. PARTS * d <= PARTS * 0
      BY <1>2, <1>4, <2>1
    <3>2. d <= 0
      BY <1>4, <3>1, Cancels
    <3> QED
      BY <1>4, <1>5, <2>1, <3>2
  <2>2. CASE whole < Threshold
    <3>1. TOKEN * part <= TOKEN * PARTS
      BY <1>2, Grows
    <3>2. PARTS * d <= PARTS * TOKEN
      BY <1>2, <1>4, <3>1
    <3>3. d <= TOKEN
      BY <1>4, <3>2, Cancels
    <3>4. TOKEN * (whole + 1) <= TOKEN * Threshold
      BY <1>2, <2>2, Grows
    <3> QED
      BY <1>2, <1>4, <1>5, <3>3, <3>4
  <2> QED
    BY <1>2, <2>1, <2>2
<1>8. x * (100 * native) <= TOKEN * (coef * near)
  <2>1. PARTS * x <= TOKEN * (PARTS * whole + part)
    BY <1>2, <1>4, <1>5
  <2>2. (100 * native) * (PARTS * x) <= (100 * native) * (TOKEN * (PARTS * whole + part))
    BY <1>2, <1>6, <2>1, Grows
  <2>3. TOKEN * ((100 * native) * (PARTS * whole + part)) <= TOKEN * (PARTS * (coef * near))
    BY <1>2, Grows
  <2>4. (100 * native) * (TOKEN * (PARTS * whole + part)) =
          TOKEN * ((100 * native) * (PARTS * whole + part))
    BY <1>2
  <2>5. PARTS * (x * (100 * native)) = (100 * native) * (PARTS * x)
    BY <1>6
  <2>6. TOKEN * (PARTS * (coef * near)) = PARTS * (TOKEN * (coef * near))
    OBVIOUS
  <2>7. PARTS * (x * (100 * native)) <= PARTS * (TOKEN * (coef * near))
    BY <1>2, <1>6, <2>2, <2>3, <2>4, <2>5, <2>6
  <2> QED
    BY <1>6, <2>7, Cancels
<1> QED
  BY <1>6, <1>7, <1>8
-----------------------------------------------------------------------------
\* Type correctness: the coefficient stays a percentage, and the two prices are
\* set together.
THEOREM TypeCorrect == Spec => []TypeOK
<1> USE FeeAssumption
<1>1. Init => TypeOK
  BY DEF Init, TypeOK, DefaultForCoef
<1>2. TypeOK /\ [Next]_vars => TypeOK'
  <2> SUFFICES ASSUME TypeOK, [Next]_vars
               PROVE  TypeOK'
    OBVIOUS
  <2>1. ASSUME NEW who \in Accounts, set_oracle_account(who)
        PROVE  TypeOK'
    BY <2>1 DEF TypeOK, set_oracle_account
  <2>2. ASSUME NEW who \in Accounts, NEW near \in Prices, NEW native \in Prices,
               set_token_price(who, near, native)
        PROVE  TypeOK'
    <3>1. near \in Nat \ {0} /\ native \in Nat \ {0}
      BY <2>2 DEF set_token_price
    <3>2. fee' = calculate_fee(calculate_quantity(near, native))
      BY <2>2 DEF set_token_price
    <3>3. fee' \in Nat
      BY <3>1, <3>2, FeeOfQuantity DEF TypeOK
    <3> QED
      BY <2>2, <3>1, <3>3 DEF TypeOK, set_token_price
  <2>3. ASSUME NEW c \in Coefs, set_coef_for_calculate_fee(c)
        PROVE  TypeOK'
    BY <2>3 DEF TypeOK, set_coef_for_calculate_fee
  <2>4. ASSUME UNCHANGED vars
        PROVE  TypeOK'
    BY <2>4 DEF TypeOK, vars
  <2> QED
    BY <2>1, <2>2, <2>3, <2>4 DEF Next
<1> QED
  BY <1>1, <1>2, PTL DEF Spec

\* Nobody pays more than the prices and the coefficient ask for, or than the
\* threshold: every rounding and every overflow is in favour of the user.
THEOREM FeeNeverMore == Spec => []FeeIsNoMore
<1> USE FeeAssumption
<1>1. Init => FeeIsNoMore
  BY DEF Init, FeeIsNoMore
<1>2. TypeOK /\ FeeIsNoMore /\ [Next]_vars => FeeIsNoMore'
  <2> SUFFICES ASSUME TypeOK, FeeIsNoMore, [Next]_vars
               PROVE  FeeIsNoMore'
    OBVIOUS
  <2>1. ASSUME UNCHANGED <<fee, price, coefUsed>>
        PROVE  FeeIsNoMore'
    BY <2>1 DEF FeeIsNoMore, Over, Under
  <2>2. ASSUME NEW who \in Accounts, set_oracle_account(who)
        PROVE  FeeIsNoMore'
    BY <2>1, <2>2 DEF set_oracle_account
  <2>3. ASSUME NEW who \in Accounts, NEW near \in Prices, NEW native \in Prices,
               set_token_price(who, near, native)
        PROVE  FeeIsNoMore'
    <3>1. near \in Nat /\ native \in Nat \ {0}
      BY <2>3 DEF set_token_price
    <3>2. /\ fee' = calculate_fee(calculate_quantity(near, native))
          /\ price'.near = near /\ price'.native = native /\ coefUsed' = coef
      BY <2>3 DEF set_token_price
    <3>3. /\ fee' <= Threshold * TOKEN
          /\ fee' * (100 * native) <= TOKEN * coef * near
      BY <3>1, <3>2, FeeOfQuantity DEF TypeOK
    <3> QED
      BY <3>2, <3>3, Zenon DEF FeeIsNoMore, Over, Under
  <2>4. ASSUME NEW c \in Coefs, set_coef_for_calculate_fee(c)
        PROVE  FeeIsNoMore'
    BY <2>1, <2>4 DEF set_coef_for_calculate_fee
  <2> QED
    BY <2>1, <2>2, <2>3, <2>4 DEF Next, vars
<1> QED
  BY <1>1, <1>2, TypeCorrect, PTL DEF Spec

-----------------------------------------------------------------------------
\* How little is rounded off.

LEMMA CancelsStrictly ==
    ASSUME NEW x \in Nat, NEW y \in Nat, NEW z \in Nat, z * x < z * y
    PROVE  x < y
<1>1. ASSUME y <= x
      PROVE  FALSE
  <2>1. z * y <= z * x
    BY <1>1, Grows
  <2> QED
    BY <2>1
<1> QED
  BY <1>1

LEMMA GrowsStrictly ==
    ASSUME NEW x \in Nat, NEW y \in Nat, NEW z \in Nat \ {0}, x < y
    PROVE  z * x < z * y
<1>1. z * (x + 1) <= z * y
  BY Grows
<1> QED
  BY <1>1

LEMMA QuotientIsNearly ==
    ASSUME NEW a \in Nat, NEW b \in Nat \ {0}, NEW q, q = a \div b
    PROVE  a < b * q + b
  OBVIOUS

LEMMA RationalIsNearly ==
    ASSUME NEW p \in Nat, NEW q \in Nat \ {0}, p < q, NEW f, f = FromRational(p, q)
    PROVE  p * PARTS < q * f + q
<1> USE FeeAssumption
<1>1. PICK a, d : a = p * PARTS /\ d = a \div q
  OBVIOUS
<1>2. a \in Nat
  BY <1>1
<1>3. a < q * d + q
  BY <1>1, <1>2, QuotientIsNearly
<1>4. f = d
  BY <1>1 DEF FromRational
<1> QED
  BY <1>1, <1>3, <1>4

\* The parts are a multiple of one hundred, so percentages are exact.
LEMMA PercentIsExact ==
    ASSUME NEW p \in 0..100, NEW f, f = FromRational(p, 100)
    PROVE  100 * f = p * PARTS
<1> USE FeeAssumption
<1>1. PICK k : k = PARTS \div 100
  OBVIOUS
<1>2. k \in Nat /\ PARTS = 100 * k
  BY <1>1
<1>3. CASE p = 100
  BY <1>2, <1>3 DEF FromRational
<1>4. CASE p < 100
  <2>1. PICK a, d : a = p * PARTS /\ d = a \div 100
    OBVIOUS
  <2>2. a = 100 * (p * k) /\ p * k \in Nat
    BY <1>2, <2>1
  <2>3. d = p * k
    BY <2>1, <2>2
  <2>4. f = d
    BY <1>4, <2>1 DEF FromRational
  <2> QED
    BY <2>1, <2>2, <2>3, <2>4
<1> QED
  BY <1>3, <1>4

LEMMA FractionIsNearly ==
    ASSUME NEW native \in Nat \ {0}, NEW rem \in Nat, NEW c \in Nat,
           NEW f \in Nat, NEW g \in 0..PARTS, NEW f2 \in Nat,
           rem * PARTS < native * f + native, 100 * g = c * PARTS,
           f * g < PARTS * f2 + PARTS
    PROVE  PARTS * (c * rem) < 100 * (native * (f2 + 2))
<1> USE FeeAssumption
<1>1. g * (rem * PARTS) <= g * (native * f + native)
  BY Grows
<1>2. native * (f * g) < native * (PARTS * f2 + PARTS)
  BY GrowsStrictly
<1>3. native * g <= native * PARTS
  BY Grows
<1>4. g * (native * f + native) = native * (f * g) + native * g
  OBVIOUS
<1>5. native * (PARTS * f2 + PARTS) + native * PARTS = PARTS * (native * (f2 + 2))
  OBVIOUS
<1>6. g * (rem * PARTS) = PARTS * (g * rem)
  OBVIOUS
<1>7. PARTS * (g * rem) < PARTS * (native * (f2 + 2))
  BY <1>1, <1>2, <1>3, <1>4, <1>5, <1>6
<1>8. g * rem < native * (f2 + 2)
  BY <1>7, CancelsStrictly
<1>9. PARTS * (c * rem) = 100 * (g * rem)
  <2>1. PARTS * (c * rem) = (c * PARTS) * rem
    OBVIOUS
  <2> QED
    BY <2>1
<1> QED
  BY <1>8, <1>9

\* Below the threshold, and if the product fits the word, the quantity is at
\* most two parts below the formula's, or has reached the limit of a Perbill.
LEMMA QuantityIsNearly ==
    ASSUME NEW near \in Nat, NEW native \in Nat \ {0}, coef \in 1..100,
           (near \div native) * coef < WORD,
           NEW whole \in Nat, NEW part \in 0..PARTS, whole < Threshold,
           calculate_quantity(near, native) = <<whole, part>>
    PROVE  \/ PARTS * (coef * near) < (100 * native) * (PARTS * whole + part + 2)
           \/ /\ part = PARTS
              /\ coef * near < (100 * native) * (whole + 2)
<1> USE FeeAssumption
<1> coef \in Nat /\ 100 \in Nat \ {0}
  OBVIOUS
<1>1. PICK i, rem : i = near \div native /\ rem = near % native
  OBVIOUS
<1>2. i \in Nat /\ rem \in Nat /\ near = native * i + rem /\ rem < native
  <2>1. near = native * i + rem
    BY <1>1
  <2>2. i \in Nat /\ rem \in 0..(native - 1)
    BY <1>1
  <2> QED
    BY <2>1, <2>2
<1>3. PICK f : f = FromRational(rem, native)
  OBVIOUS
<1>4. f \in Nat /\ rem * PARTS < native * f + native
  BY <1>2, <1>3, RationalIsNoMore, RationalIsNearly
<1>5. PICK v : v = i * coef
  OBVIOUS
<1>6. v \in Nat /\ v < WORD
  BY <1>1, <1>2, <1>5
<1>7. PICK i1, r1 : i1 = v \div 100 /\ r1 = v % 100
  OBVIOUS
<1>8. i1 \in Nat /\ r1 \in 0..99 /\ v = 100 * i1 + r1
  <2>1. v = 100 * i1 + r1
    BY <1>6, <1>7
  <2>2. i1 \in Nat /\ r1 \in 0..99
    BY <1>6, <1>7
  <2> QED
    BY <2>1, <2>2
<1>9. PICK f1 : f1 = FromRational(r1, 100)
  OBVIOUS
<1>10. f1 \in Nat /\ 100 * f1 = r1 * PARTS
  <2>1. r1 \in Nat /\ r1 \in 0..100
    BY <1>8
  <2>2. f1 \in 0..PARTS
    BY <1>9, <2>1, RationalIsNoMore, Zenon
  <2>3. 100 * f1 = r1 * PARTS
    BY <1>9, <2>1, PercentIsExact
  <2> QED
    BY <2>2, <2>3
<1>11. PICK g : g = FromRational(coef, 100)
  OBVIOUS
<1>12. g \in 0..PARTS /\ 100 * g = coef * PARTS
  <2>1. g \in 0..PARTS
    BY <1>11, RationalIsNoMore, Zenon
  <2>2. coef \in 0..100
    OBVIOUS
  <2>3. 100 * g = coef * PARTS
    BY <1>11, <2>2, PercentIsExact
  <2> QED
    BY <2>1, <2>3
<1>13. PICK y, f2 : y = f * g /\ f2 = y \div PARTS
  OBVIOUS
<1>14. f2 \in Nat /\ f * g < PARTS * f2 + PARTS
  <2>1. y \in Nat
    BY <1>4, <1>12, <1>13
  <2> QED
    BY <1>13, <2>1, Quotient, QuotientIsNearly
<1>15. whole = i1 /\ part = Plus(f1, f2)
  <2>1. Times(f, g) = f2
    BY <1>13 DEF Times
  <2>2. v % WORD = v
    BY <1>6
  <2>3. calculate_quantity(near, native) =
          IF i1 >= Threshold THEN <<Threshold, 0>> ELSE <<i1, Plus(f1, f2)>>
    BY <1>1, <1>3, <1>5, <1>7, <1>9, <1>11, <2>1, <2>2, Zenon DEF calculate_quantity
  <2> QED
    BY <1>8, <2>3
<1>16. coef * near = native * (100 * i1 + r1) + coef * rem
  <2>1. coef * near = native * (i * coef) + coef * rem
    BY <1>2
  <2> QED
    BY <1>5, <1>8, <2>1
<1>17. CASE f1 + f2 <= PARTS
  <2>1. part = f1 + f2
    BY <1>10, <1>14, <1>15, <1>17 DEF Plus
  <2>2. PARTS * (coef * rem) < 100 * (native * (f2 + 2))
    BY <1>2, <1>4, <1>12, <1>14, FractionIsNearly
  <2>3. PARTS * (coef * near) = native * (100 * (PARTS * i1) + r1 * PARTS) + PARTS * (coef * rem)
    BY <1>2, <1>8, <1>16
  <2>4. native * (100 * (PARTS * i1) + r1 * PARTS) = (100 * native) * (PARTS * i1 + f1)
    BY <1>8, <1>10
  <2>5. (100 * native) * (PARTS * i1 + f1) + 100 * (native * (f2 + 2)) =
          (100 * native) * (PARTS * i1 + (f1 + f2) + 2)
    BY <1>8, <1>10, <1>14
  <2> QED
    BY <1>2, <1>8, <1>10, <1>14, <1>15, <2>1, <2>2, <2>3, <2>4, <2>5
<1>18. CASE f1 + f2 > PARTS
  <2>1. part = PARTS
    BY <1>15, <1>18 DEF Plus
  <2>2. native * (100 * i1 + r1) <= native * (100 * i1 + 99)
    BY <1>8, Grows
  <2>3. coef * rem <= 100 * rem
    <3>1. rem * coef <= rem * 100
      BY <1>2, Grows
    <3> QED
      BY <1>2, <3>1
  <2>4. coef * near < native * (100 * i1 + 99) + 100 * native
    BY <1>2, <1>8, <1>16, <2>2, <2>3
  <2>5. native * (100 * i1 + 99) + 100 * native <= (100 * native) * (i1 + 2)
    BY <1>8
  <2>6. coef * near < (100 * native) * (i1 + 2)
    BY <1>2, <1>8, <2>4, <2>5
  <2> QED
    BY <1>15, <2>1, <2>6
<1> QED
  BY <1>10, <1>14, <1>17, <1>18

\* In units, two parts and the last rounding are less than a token of two units
\* or more.
LEMMA FeeIsNearly ==
    ASSUME NEW near \in Nat, NEW native \in Nat \ {0}, coef \in 1..100, TOKEN >= 2,
           (near \div native) * coef < WORD,
           NEW x, x = calculate_fee(calculate_quantity(near, native)),
           x < Threshold * TOKEN
    PROVE  TOKEN * coef * near < (x + TOKEN) * (100 * native)
<1> USE FeeAssumption
<1>1. PICK whole, part : calculate_quantity(near, native) = <<whole, part>>
  BY DEF calculate_quantity
<1>2. whole \in 0..Threshold /\ part \in 0..PARTS
  BY <1>1, QuantityIsNoMore
<1>3. PICK y, d : y = TOKEN * part /\ d = y \div PARTS
  OBVIOUS
<1>4. d \in Nat /\ TOKEN * part < PARTS * d + PARTS
  <2>1. y \in Nat
    BY <1>2, <1>3
  <2> QED
    BY <1>3, <2>1, Quotient, QuotientIsNearly
<1>5. x = TOKEN * whole + d
  BY <1>1, <1>3 DEF calculate_fee
<1>6. whole < Threshold
  <2>1. ASSUME whole = Threshold
        PROVE  FALSE
    BY <1>4, <1>5, <2>1
  <2> QED
    BY <1>2, <2>1
<1>7. PICK exact : exact = coef * near
  OBVIOUS
<1>8. exact \in Nat
  BY <1>7
<1>9. \/ PARTS * exact < (100 * native) * (PARTS * whole + part + 2)
      \/ part = PARTS /\ exact < (100 * native) * (whole + 2)
  <2>1. whole \in Nat
    BY <1>2
  <2>2. \/ PARTS * (coef * near) < (100 * native) * (PARTS * whole + part + 2)
        \/ part = PARTS /\ coef * near < (100 * native) * (whole + 2)
    BY <1>1, <1>2, <1>6, <2>1, QuantityIsNearly, Zenon
  <2> QED
    BY <1>7, <2>2, Zenon
<1>10. PICK due : due = 100 * native /\ due \in Nat \ {0}
  OBVIOUS
<1>11. TOKEN * exact < due * (x + TOKEN)
  <2>1. CASE PARTS * exact < due * (PARTS * whole + part + 2)
    <3>1. TOKEN * (PARTS * exact) < TOKEN * (due * (PARTS * whole + part + 2))
      BY <1>2, <1>8, <1>10, <2>1, GrowsStrictly
    <3>2. TOKEN * (due * (PARTS * whole + part + 2)) =
            due * (PARTS * (TOKEN * whole) + TOKEN * part + 2 * TOKEN)
      BY <1>2, <1>10
    <3>3. PARTS + 2 * TOKEN <= PARTS * TOKEN
      <4>1. PICK k : k = PARTS \div 100
        OBVIOUS
      <4>2. PARTS = 100 * k /\ k \in Nat
        BY <4>1
      <4>3. 100 <= PARTS
        BY <4>2
      <4>4. (TOKEN - 1) * 100 <= (TOKEN - 1) * PARTS
        BY <4>3, Grows
      <4> QED
        BY <4>4
    <3>4. PARTS * (TOKEN * whole) + TOKEN * part + 2 * TOKEN <= PARTS * (x + TOKEN)
      BY <1>2, <1>4, <1>5, <3>3
    <3>5. due * (PARTS * (TOKEN * whole) + TOKEN * part + 2 * TOKEN)
            <= due * (PARTS * (x + TOKEN))
      BY <1>2, <1>4, <1>5, <1>10, <3>4, Grows
    <3>6. PARTS * (TOKEN * exact) < PARTS * (due * (x + TOKEN))
      BY <1>2, <1>4, <1>5, <1>8, <1>10, <3>1, <3>2, <3>5
    <3> QED
      BY <1>2, <1>4, <1>5, <1>8, <1>10, <3>6, CancelsStrictly
  <2>2. CASE part = PARTS /\ exact < due * (whole + 2)
    <3>1. TOKEN * exact < TOKEN * (due * (whole + 2))
      BY <1>2, <1>8, <1>10, <2>2, GrowsStrictly
    <3>2. PARTS * TOKEN < PARTS * (d + 1)
      BY <1>4, <2>2
    <3>3. TOKEN < d + 1
      BY <1>4, <3>2, CancelsStrictly
    <3>4. TOKEN * (whole + 2) <= x + TOKEN
      BY <1>2, <1>4, <1>5, <3>3
    <3>5. due * (TOKEN * (whole + 2)) <= due * (x + TOKEN)
      BY <1>2, <1>4, <1>5, <1>10, <3>4, Grows
    <3> QED
      BY <1>2, <1>4, <1>5, <1>8, <1>10, <3>1, <3>5
  <2> QED
    BY <1>9, <1>10, <2>1, <2>2
<1> QED
  BY <1>2, <1>4, <1>5, <1>7, <1>8, <1>10, <1>11

\* If the product fits the word and the threshold does not apply, the user pays
\* less than one token below what the formula asks for. A token has at least
\* two units: of a single one, rounding can take off all.
THEOREM FeeNeverMuchLess == ASSUME TOKEN >= 2 PROVE Spec => []FeeIsNoTokenLess
<1> USE FeeAssumption
<1>1. Init => FeeIsNoTokenLess
  BY DEF Init, FeeIsNoTokenLess, IsCalculated
<1>2. TypeOK /\ FeeIsNoTokenLess /\ [Next]_vars => FeeIsNoTokenLess'
  <2> SUFFICES ASSUME TypeOK, FeeIsNoTokenLess, [Next]_vars
               PROVE  FeeIsNoTokenLess'
    OBVIOUS
  <2>1. ASSUME UNCHANGED <<fee, price, coefUsed>>
        PROVE  FeeIsNoTokenLess'
    BY <2>1 DEF FeeIsNoTokenLess, IsCalculated, Over, Under
  <2>2. ASSUME NEW who \in Accounts, set_oracle_account(who)
        PROVE  FeeIsNoTokenLess'
    BY <2>1, <2>2 DEF set_oracle_account
  <2>3. ASSUME NEW who \in Accounts, NEW near \in Prices, NEW native \in Prices,
               set_token_price(who, near, native)
        PROVE  FeeIsNoTokenLess'
    <3>1. near \in Nat /\ native \in Nat \ {0} /\ coef \in 1..100
      BY <2>3 DEF set_token_price, TypeOK
    <3>2. /\ fee' = calculate_fee(calculate_quantity(near, native))
          /\ price'.near = near /\ price'.native = native /\ coefUsed' = coef
      BY <2>3 DEF set_token_price
    <3>3. (near \div native) * coef < WORD /\ fee' < Threshold * TOKEN =>
            TOKEN * coef * near < (fee' + TOKEN) * (100 * native)
      BY <3>1, <3>2, FeeIsNearly
    <3> QED
      BY <3>2, <3>3, Zenon DEF FeeIsNoTokenLess, IsCalculated, Over, Under
  <2>4. ASSUME NEW c \in Coefs, set_coef_for_calculate_fee(c)
        PROVE  FeeIsNoTokenLess'
    BY <2>1, <2>4 DEF set_coef_for_calculate_fee
  <2> QED
    BY <2>1, <2>2, <2>3, <2>4 DEF Next, vars
<1> QED
  BY <1>1, <1>2, TypeCorrect, PTL DEF Spec
=============================================================================
