------------------------ MODULE AmountsAndPagesProofs ------------------------
(* The proofs of two modules that rest on the same argument, the smallest      *)
(* natural number of a set (SmallestOf).                                      *)
(*                                                                            *)
(* BidAmount: the arithmetic of money is exact for strings of any length and   *)
(* any number of digits after the point. Everything rests on what appending   *)
(* zeros does to an integer: the recursive function Ten is defined everywhere *)
(* (as an induction by the smallest counterexample shows) and takes sums to   *)
(* products.                                                                 *)
(*                                                                            *)
(* ListingPages: pages of any size through lists of any length. Everything     *)
(* rests on the offset of a row, the number of rows with a smaller key: no two *)
(* rows of a list have the same one, and a change of one row shifts it by at   *)
(* most one.                                                                  *)
EXTENDS BidAmount, ListingPages, FiniteSetTheorems, WellFoundedInduction, TLAPS

------------------------------------------------------------------------------
(* Natural numbers *)

LEMMA SmallestOf ==
  ASSUME NEW T \in SUBSET Nat, T # {}
  PROVE  \E m \in T : \A n \in T : m <= n
<1> DEFINE Below == {pair \in Nat \X Nat : pair[1] < pair[2]}
<1>1. IsWellFoundedOn(Below, Nat)
  BY NatLessThanWellFounded, Zenon DEF OpToRel
<1>2. T \subseteq Nat /\ T # {}
  OBVIOUS
<1>3. PICK m \in T : \A n \in T : ~(<<n, m>> \in Below)
  <2> HIDE DEF Below
  <2> QED BY <1>1, <1>2, WFMin
<1>4. ASSUME NEW n \in T PROVE m <= n
  <2>1. m \in Nat /\ n \in Nat
    BY <1>2
  <2>2. ~(<<n, m>> \in Below)
    BY <1>3
  <2>3. ~(n < m)
    BY <2>1, <2>2
  <2> QED BY <2>1, <2>3
<1> QED BY <1>4

LEMMA Multiple ==
  ASSUME NEW q \in Nat, NEW m \in Nat, m > 0
  PROVE  (q * m) % m = 0
OBVIOUS

LEMMA Division ==
  ASSUME NEW v \in Nat, NEW m \in Nat, m > 0
  PROVE  /\ v \div m \in Nat
         /\ v % m = 0 => v = (v \div m) * m
         /\ v % m = 0 /\ (v \div m) % 10 = 0 => v % (m * 10) = 0
<1>1. v \div m \in Nat
  OBVIOUS
<1>2. v % m = 0 => v = (v \div m) * m
  OBVIOUS
<1>3. ASSUME v % m = 0, (v \div m) % 10 = 0 PROVE v % (m * 10) = 0
  <2>1. PICK q \in Nat : v \div m = q * 10
    <3>1. v \div m = ((v \div m) \div 10) * 10 /\ (v \div m) \div 10 \in Nat
      BY <1>1, <1>3
    <3> QED BY <3>1
  <2>2. v = q * (m * 10)
    BY <1>2, <1>3, <2>1
  <2>3. m * 10 \in Nat /\ m * 10 > 0
    OBVIOUS
  <2>4. (q * (m * 10)) % (m * 10) = 0
    BY <2>3, Multiple
  <2> QED BY <2>2, <2>4
<1> QED BY <1>1, <1>2, <1>3

------------------------------------------------------------------------------
(* Powers of ten *)

(* f is right up to k. *)
Powers(f, k) == f[0] = 1 /\ \A i \in 1 .. k : f[i] = 10 * f[i - 1]

LEMMA PowersExist ==
  ASSUME NEW k \in Nat
  PROVE  \E f \in [Nat -> Nat] : Powers(f, k)
<1> DEFINE Bad == {n \in Nat : ~ \E f \in [Nat -> Nat] : Powers(f, n)}
<1>1. CASE Bad = {}
  BY <1>1
<1>2. CASE Bad # {}
  <2>1. PICK n \in Bad : \A m \in Bad : n <= m
    <3>1. Bad \in SUBSET Nat
      OBVIOUS
    <3> HIDE DEF Bad
    <3> QED BY <1>2, <3>1, SmallestOf
  <2>2. CASE n = 0
    <3>1. [i \in Nat |-> 1] \in [Nat -> Nat] /\ Powers([i \in Nat |-> 1], 0)
      BY DEF Powers
    <3> QED BY <2>2, <3>1
  <2>3. CASE n # 0
    <3>1. n - 1 \in Nat /\ n - 1 \notin Bad
      BY <2>1, <2>3
    <3>2. PICK f \in [Nat -> Nat] : Powers(f, n - 1)
      BY <3>1
    <3> DEFINE g == [f EXCEPT ![n] = 10 * f[n - 1]]
    <3>3. g \in [Nat -> Nat]
      BY <3>1
    <3>4. g[0] = 1
      BY <2>3, <3>2 DEF Powers
    <3>5. ASSUME NEW i \in 1 .. n PROVE g[i] = 10 * g[i - 1]
      <4>1. i - 1 \in Nat /\ i - 1 # n /\ g[i - 1] = f[i - 1]
        OBVIOUS
      <4>2. CASE i = n
        BY <4>1, <4>2
      <4>3. CASE i # n
        <5>1. i \in 1 .. (n - 1) /\ g[i] = f[i]
          BY <4>3
        <5> QED BY <3>2, <4>1, <5>1 DEF Powers
      <4> QED BY <4>2, <4>3
    <3>6. Powers(g, n)
      BY <3>4, <3>5 DEF Powers
    <3> QED BY <3>3, <3>6
  <2> QED BY <2>2, <2>3
<1> QED BY <1>1, <1>2

LEMMA PowersAgree ==
  ASSUME NEW k \in Nat, NEW f \in [Nat -> Nat], NEW g \in [Nat -> Nat],
         Powers(f, k), Powers(g, k)
  PROVE  f[k] = g[k]
<1> DEFINE Bad == {n \in 0 .. k : f[n] # g[n]}
<1>1. CASE Bad = {}
  BY <1>1
<1>2. CASE Bad # {}
  <2>1. PICK n \in Bad : \A m \in Bad : n <= m
    <3>1. Bad \in SUBSET Nat
      OBVIOUS
    <3> HIDE DEF Bad
    <3> QED BY <1>2, <3>1, SmallestOf
  <2>2. n # 0
    BY DEF Powers
  <2>3. n \in 1 .. k /\ n - 1 \in 0 .. k /\ ~(n <= n - 1)
    BY <2>2
  <2>4. f[n - 1] = g[n - 1]
    BY <2>1, <2>3
  <2>5. f[n] = g[n]
    BY <2>3, <2>4 DEF Powers
  <2> QED BY <2>5
<1> QED BY <1>1, <1>2

(* The recursive definition defines a function. *)
LEMMA TenStep ==
  /\ Ten[0] = 1
  /\ \A n \in Nat : Ten[n] \in Nat /\ Ten[n + 1] = 10 * Ten[n]
<1> DEFINE F(k) == CHOOSE f \in [Nat -> Nat] : Powers(f, k)
           W == [k \in Nat |-> F(k)[k]]
<1>1. \A k \in Nat : F(k) \in [Nat -> Nat] /\ Powers(F(k), k)
  BY PowersExist
<1> HIDE DEF F
<1>2. W[0] = 1
  BY <1>1 DEF Powers
<1>3. ASSUME NEW n \in Nat PROVE W[n] \in Nat /\ W[n + 1] = 10 * W[n]
  <2>1. /\ F(n) \in [Nat -> Nat] /\ Powers(F(n), n)
        /\ F(n + 1) \in [Nat -> Nat] /\ Powers(F(n + 1), n + 1)
    BY <1>1
  <2>2. Powers(F(n + 1), n)
    <3>1. \A i \in 1 .. n : i \in 1 .. (n + 1)
      OBVIOUS
    <3> QED BY <2>1, <3>1 DEF Powers
  <2>3. F(n + 1)[n] = F(n)[n]
    BY <2>1, <2>2, PowersAgree
  <2>4. n + 1 \in 1 .. (n + 1) /\ (n + 1) - 1 = n
    OBVIOUS
  <2>5. F(n + 1)[n + 1] = 10 * F(n + 1)[n]
    BY <2>1, <2>4 DEF Powers
  <2> QED BY <2>1, <2>3, <2>5
<1>4. W = [n \in Nat |-> IF n = 0 THEN 1 ELSE 10 * W[n - 1]]
  <2>1. ASSUME NEW n \in Nat PROVE W[n] = IF n = 0 THEN 1 ELSE 10 * W[n - 1]
    <3>1. CASE n = 0
      BY <1>2, <3>1
    <3>2. CASE n # 0
      <4>1. n - 1 \in Nat /\ (n - 1) + 1 = n
        BY <3>2
      <4> HIDE DEF W
      <4>2. W[(n - 1) + 1] = 10 * W[n - 1]
        BY <1>3, <4>1
      <4> QED BY <3>2, <4>1, <4>2
    <3> QED BY <3>1, <3>2
  <2>2. W = [n \in Nat |-> W[n]]
    OBVIOUS
  <2> HIDE DEF W
  <2> QED BY <2>1, <2>2
<1> HIDE DEF W
<1>5. Ten = [n \in Nat |-> IF n = 0 THEN 1 ELSE 10 * Ten[n - 1]]
  BY <1>4 DEF Ten
<1>6. Ten[0] = 1
  BY <1>5
<1>7. \A n \in Nat : n # 0 => Ten[n] = 10 * Ten[n - 1]
  BY <1>5
<1>8. \A n \in Nat : Ten[n + 1] = 10 * Ten[n]
  <2> SUFFICES ASSUME NEW n \in Nat PROVE Ten[n + 1] = 10 * Ten[n]
    OBVIOUS
  <2>1. n + 1 \in Nat /\ n + 1 # 0 /\ (n + 1) - 1 = n
    OBVIOUS
  <2> QED BY <1>7, <2>1
<1>9. \A n \in Nat : Ten[n] \in Nat
  <2> DEFINE Bad == {n \in Nat : Ten[n] \notin Nat}
  <2>1. CASE Bad # {}
    <3>1. PICK n \in Bad : \A m \in Bad : n <= m
      <4>1. Bad \in SUBSET Nat
        OBVIOUS
      <4> HIDE DEF Bad
      <4> QED BY <2>1, <4>1, SmallestOf
    <3>2. n # 0
      BY <1>6
    <3>3. n - 1 \in Nat /\ n - 1 \notin Bad
      BY <3>1, <3>2
    <3> QED BY <1>7, <3>2, <3>3
  <2> QED BY <2>1
<1> QED BY <1>6, <1>8, <1>9

LEMMA TenPositive == \A n \in Nat : Ten[n] \in Nat /\ Ten[n] > 0
<1> DEFINE Bad == {n \in Nat : ~(Ten[n] > 0)}
<1>1. CASE Bad # {}
  <2>1. PICK n \in Bad : \A m \in Bad : n <= m
    <3>1. Bad \in SUBSET Nat
      OBVIOUS
    <3> HIDE DEF Bad
    <3> QED BY <1>1, <3>1, SmallestOf
  <2>2. n # 0
    BY TenStep
  <2>3. n - 1 \in Nat /\ n - 1 \notin Bad /\ (n - 1) + 1 = n
    BY <2>1, <2>2
  <2>4. Ten[n] = 10 * Ten[n - 1] /\ Ten[n - 1] \in Nat
    BY <2>3, TenStep
  <2> QED BY <2>3, <2>4
<1> QED BY <1>1, TenStep

LEMMA TenSum ==
  ASSUME NEW m \in Nat, NEW n \in Nat
  PROVE  Ten[m + n] = Ten[m] * Ten[n]
<1> DEFINE Bad == {k \in Nat : Ten[m + k] # Ten[m] * Ten[k]}
<1>1. CASE Bad # {}
  <2>1. PICK k \in Bad : \A i \in Bad : k <= i
    <3>1. Bad \in SUBSET Nat
      OBVIOUS
    <3> HIDE DEF Bad
    <3> QED BY <1>1, <3>1, SmallestOf
  <2>2. k # 0
    BY TenStep
  <2>3. k - 1 \in Nat /\ k - 1 \notin Bad /\ (k - 1) + 1 = k
    BY <2>1, <2>2
  <2>4. Ten[m + (k - 1)] = Ten[m] * Ten[k - 1]
    BY <2>3
  <2>5. m + (k - 1) \in Nat /\ (m + (k - 1)) + 1 = m + k
    BY <2>3
  <2>6. Ten[m + k] = 10 * Ten[m + (k - 1)]
    BY <2>5, TenStep
  <2>7. Ten[k] = 10 * Ten[k - 1]
    BY <2>3, TenStep
  <2>8. PICK a \in Nat, b \in Nat : a = Ten[m] /\ b = Ten[k - 1]
    BY <2>3, TenStep
  <2>9. 10 * (a * b) = a * (10 * b)
    OBVIOUS
  <2> QED BY <2>4, <2>6, <2>7, <2>8, <2>9
<1> QED BY <1>1

------------------------------------------------------------------------------
(* bid-amount.service.ts *)

(* The integer of a string at any scale that it has is the same money. *)
LEMMA ScaledWorth ==
  ASSUME NEW digits \in Nat, NEW s \in Nat, NEW scale \in s .. Finest
  PROVE  /\ digits * Ten[scale - s] \in Nat
         /\ (digits * Ten[scale - s]) * Ten[Finest - scale] = digits * Ten[Finest - s]
<1>1. scale - s \in Nat /\ Finest - scale \in Nat
      /\ (scale - s) + (Finest - scale) = Finest - s
  BY AmountsAssumption
<1>2. Ten[Finest - s] = Ten[scale - s] * Ten[Finest - scale]
  BY <1>1, TenSum
<1>3. PICK a \in Nat, b \in Nat : a = Ten[scale - s] /\ b = Ten[Finest - scale]
  BY <1>1, TenPositive
<1>4. digits * a \in Nat /\ (digits * a) * b = digits * (a * b)
  OBVIOUS
<1> QED BY <1>2, <1>3, <1>4

(* Dropping zeros of the fraction keeps the value, and leaves none.           *)
LEMMA ShortestForm ==
  ASSUME NEW value \in Nat, NEW scale \in 0 .. Finest
  PROVE  LET d == FromScaledInteger(value, scale) IN
         /\ d \in Decimal /\ Shortest(d)
         /\ Worth(d) = value * Ten[Finest - scale]
<1> DEFINE Zeros == {k \in 0 .. scale : value % Ten[scale - k] = 0}
           kept  == Min(Zeros)
<1>1. scale \in Zeros
  <2>1. scale - scale = 0 /\ scale \in 0 .. scale /\ value % 1 = 0
    BY AmountsAssumption
  <2> QED BY <2>1, TenStep
<1>2. kept \in Zeros /\ \A k \in Zeros : kept <= k
  <2>1. Zeros \in SUBSET Nat
    BY AmountsAssumption
  <2> HIDE DEF Zeros
  <2>2. \E m \in Zeros : \A k \in Zeros : m <= k
    BY <1>1, <2>1, SmallestOf
  <2> QED BY <2>2 DEF Min
<1> HIDE DEF kept
<1>3. /\ kept \in 0 .. scale /\ value % Ten[scale - kept] = 0
      /\ scale - kept \in Nat /\ Finest - kept \in Nat /\ Finest - scale \in Nat
      /\ kept \in 0 .. Finest
      /\ (scale - kept) + (Finest - scale) = Finest - kept
  BY <1>2, AmountsAssumption
<1>4. PICK m \in Nat : m = Ten[scale - kept] /\ m > 0
  BY <1>3, TenPositive
<1>5. PICK d \in Nat : d = value \div m /\ value = d * m
  BY <1>3, <1>4, Division
<1>6. FromScaledInteger(value, scale) = [digits |-> d, scale |-> kept]
  BY <1>4, <1>5 DEF FromScaledInteger, kept
<1>7. kept > 0 => d % 10 # 0
  <2> SUFFICES ASSUME kept > 0, d % 10 = 0 PROVE FALSE
    OBVIOUS
  <2>1. value % (m * 10) = 0
    BY <1>3, <1>4, <1>5, Division
  <2>2. Ten[scale - (kept - 1)] = m * 10
    <3>1. scale - (kept - 1) = (scale - kept) + 1
      BY <1>3
    <3>2. Ten[(scale - kept) + 1] = 10 * Ten[scale - kept]
      BY <1>3, TenStep
    <3> QED BY <1>4, <3>1, <3>2
  <2>3. kept - 1 \in 0 .. scale
    BY <1>3
  <2>4. kept - 1 \in Zeros
    BY <2>1, <2>2, <2>3
  <2>5. ~(kept <= kept - 1)
    BY <1>3
  <2> QED BY <1>2, <2>4, <2>5
<1>8. d * Ten[Finest - kept] = value * Ten[Finest - scale]
  <2>1. PICK n \in Nat : n = Ten[Finest - scale]
    BY <1>3, TenPositive
  <2>2. Ten[Finest - kept] = m * n
    BY <1>3, <1>4, <2>1, TenSum
  <2>3. d * (m * n) = (d * m) * n
    OBVIOUS
  <2> QED BY <1>5, <2>1, <2>2, <2>3
<1> QED BY <1>3, <1>6, <1>7, <1>8 DEF Decimal, Shortest, Worth

LEMMA StoredKeepsWorth ==
  ASSUME NEW d \in Decimal
  PROVE  /\ Stored(d) \in Decimal /\ Shortest(Stored(d))
         /\ Worth(Stored(d)) = Worth(d)
<1>1. d.digits \in Nat /\ d.scale \in 0 .. Finest
  BY DEF Decimal
<1> QED BY <1>1, ShortestForm DEF Stored, Worth

(* calculateMinimumBid adds at the longer scale of the two. *)
LEMMA MinimumKeepsWorth ==
  ASSUME NEW price \in Decimal, NEW increment \in Decimal
  PROVE  LET minimum == CalculateMinimumBid(price, increment) IN
         /\ minimum \in Decimal /\ Shortest(minimum)
         /\ Worth(minimum) = Worth(price) + Worth(increment)
<1> DEFINE scale == Longer(price.scale, increment.scale)
<1>1. /\ price.digits \in Nat /\ price.scale \in Nat
      /\ increment.digits \in Nat /\ increment.scale \in Nat
      /\ scale \in price.scale .. Finest /\ scale \in increment.scale .. Finest
      /\ scale \in 0 .. Finest /\ Finest - scale \in Nat
  BY AmountsAssumption DEF Decimal, Longer
<1> HIDE DEF scale
<1>2. PICK a \in Nat, b \in Nat, t \in Nat :
        /\ a = price.digits * Ten[scale - price.scale]
        /\ b = increment.digits * Ten[scale - increment.scale]
        /\ t = Ten[Finest - scale]
  BY <1>1, ScaledWorth, TenPositive
<1>3. a * t = Worth(price) /\ b * t = Worth(increment)
  <2>1. (price.digits * Ten[scale - price.scale]) * Ten[Finest - scale]
          = price.digits * Ten[Finest - price.scale]
    BY <1>1, ScaledWorth
  <2>2. (increment.digits * Ten[scale - increment.scale]) * Ten[Finest - scale]
          = increment.digits * Ten[Finest - increment.scale]
    BY <1>1, ScaledWorth
  <2> QED BY <1>2, <2>1, <2>2 DEF Worth
<1>4. a + b \in Nat /\ (a + b) * t = a * t + b * t
  OBVIOUS
<1>5. CalculateMinimumBid(price, increment) = FromScaledInteger(a + b, scale)
  BY <1>2 DEF CalculateMinimumBid, ToScaledInteger, DecimalScale, scale
<1> QED BY <1>1, <1>2, <1>3, <1>4, <1>5, ShortestForm

(* meetsMinimumBid compares at the longer scale of the two. *)
LEMMA ComparisonIsExact ==
  ASSUME NEW amount \in Decimal, NEW minimum \in Decimal
  PROVE  MeetsMinimumBid(amount, minimum) <=> Worth(amount) >= Worth(minimum)
<1> DEFINE scale == Longer(amount.scale, minimum.scale)
<1>1. /\ amount.digits \in Nat /\ amount.scale \in Nat
      /\ minimum.digits \in Nat /\ minimum.scale \in Nat
      /\ scale \in amount.scale .. Finest /\ scale \in minimum.scale .. Finest
      /\ Finest - scale \in Nat
  BY AmountsAssumption DEF Decimal, Longer
<1> HIDE DEF scale
<1>2. PICK a \in Nat, b \in Nat, t \in Nat :
        /\ a = amount.digits * Ten[scale - amount.scale]
        /\ b = minimum.digits * Ten[scale - minimum.scale]
        /\ t = Ten[Finest - scale] /\ t > 0
  BY <1>1, ScaledWorth, TenPositive
<1>3. a * t = Worth(amount) /\ b * t = Worth(minimum)
  <2>1. (amount.digits * Ten[scale - amount.scale]) * Ten[Finest - scale]
          = amount.digits * Ten[Finest - amount.scale]
    BY <1>1, ScaledWorth
  <2>2. (minimum.digits * Ten[scale - minimum.scale]) * Ten[Finest - scale]
          = minimum.digits * Ten[Finest - minimum.scale]
    BY <1>1, ScaledWorth
  <2> QED BY <1>2, <2>1, <2>2 DEF Worth
<1>4. a * t >= b * t <=> a >= b
  BY <1>2
<1> QED BY <1>2, <1>3, <1>4 DEF MeetsMinimumBid, ToScaledInteger, DecimalScale, scale

------------------------------------------------------------------------------
(* placeBid *)

LEMMA TypeIsKept == (Init => TypeOK) /\ (TypeOK /\ [Next]_vars => TypeOK')
<1>1. \A d \in Prices \cup Increments \cup Amounts : d \in Decimal
  BY AmountsAssumption
<1>2. Init => TypeOK
  BY <1>1, StoredKeepsWorth DEF Init, TypeOK
<1>3. ASSUME TypeOK, [Next]_vars PROVE TypeOK'
  <2>1. ASSUME NEW amount \in Amounts, PlaceBid(amount) PROVE TypeOK'
    <3>1. Stored(amount) \in Decimal /\ Shortest(Stored(amount))
      BY <1>1, StoredKeepsWorth
    <3>2. /\ currentPrice' = Stored(amount) /\ answer' = "placed" /\ bidIncrement' = bidIncrement
      BY <2>1 DEF PlaceBid
    <3> QED BY <1>3, <3>1, <3>2 DEF TypeOK
  <2>2. ASSUME NEW amount \in Amounts, RejectBid(amount) PROVE TypeOK'
    BY <1>3, <2>2 DEF RejectBid, TypeOK
  <2>3. CASE BidThrows
    BY <1>3, <2>3 DEF BidThrows, TypeOK
  <2>4. CASE UNCHANGED vars
    BY <1>3, <2>4 DEF vars, TypeOK
  <2> QED BY <1>3, <2>1, <2>2, <2>3, <2>4 DEF Next
<1> QED BY <1>2, <1>3

LEMMA LeastRaiseIsMinimum ==
  ASSUME TypeOK
  PROVE  /\ MinimumBid \in Decimal /\ Shortest(MinimumBid)
         /\ Worth(MinimumBid) = LeastRaise
BY MinimumKeepsWorth DEF TypeOK, MinimumBid, LeastRaise

(* Prisma.Decimal, bidSchema: what is stored is a decimal in its shortest     *)
(* form, whatever amounts are bid.                                           *)
THEOREM AmountsTypeCorrect == Spec => []TypeOK
BY TypeIsKept, PTL DEF Spec

(* calculateMinimumBid, meetsMinimumBid: for strings of any length the        *)
(* minimum is worth exactly price and increment together, it is written in    *)
(* its shortest form, and a bid is refused exactly when it is worth less.     *)
THEOREM MinimumAlwaysExact == Spec => []MinimumIsExact
<1>1. TypeOK => MinimumIsExact
  <2> SUFFICES ASSUME TypeOK PROVE MinimumIsExact
    OBVIOUS
  <2>1. ASSUME NEW amount \in Amounts
        PROVE  MeetsMinimumBid(amount, MinimumBid) <=> Worth(amount) >= LeastRaise
    <3>1. amount \in Decimal
      BY AmountsAssumption
    <3> QED BY <3>1, LeastRaiseIsMinimum, ComparisonIsExact
  <2> QED BY <2>1, LeastRaiseIsMinimum DEF MinimumIsExact
<1> QED BY <1>1, TypeIsKept, PTL DEF Spec

(* placeBid: through all conversions, a new price is worth at least the old   *)
(* one and the increment.                                                    *)
THEOREM RaisesAlwaysExact == Spec => RaisesAreExact
<1> DEFINE Raised == currentPrice' # currentPrice => Worth(currentPrice') >= LeastRaise
<1>1. TypeOK /\ [Next]_vars => [Raised]_vars
  <2> SUFFICES ASSUME TypeOK, Next, currentPrice' # currentPrice
               PROVE  Worth(currentPrice') >= LeastRaise
    OBVIOUS
  <2>1. PICK amount \in Amounts : PlaceBid(amount)
    BY DEF Next, BidThrows, RejectBid
  <2>2. amount \in Decimal
    BY AmountsAssumption
  <2>3. /\ currentPrice' = Stored(amount)
        /\ MeetsMinimumBid(amount, MinimumBid)
    BY <2>1 DEF PlaceBid
  <2>4. Worth(amount) >= LeastRaise
    BY <2>2, <2>3, LeastRaiseIsMinimum, ComparisonIsExact
  <2> QED BY <2>2, <2>3, <2>4, StoredKeepsWorth
<1> HIDE DEF Raised
<1>2. Spec => [][Raised]_vars
  BY <1>1, TypeIsKept, PTL DEF Spec
<1> QED BY <1>2, PTL DEF RaisesAreExact, Raised
------------------------------------------------------------------------------
(* Offsets and slices: rows of a finite set in the order of their keys        *)

Keyed(k) == k \in [Rows -> Nat] /\ \A r, s \in Rows : k[r] = k[s] => r = s
Low(k, row, S) == {other \in S : k[other] < k[row]}

LEMMA KeysAreKeyed == ASSUME PagesTypeOK PROVE Keyed(key)
<1>1. key \in [Rows -> Keys] /\ \A r, s \in Rows : key[r] = key[s] => r = s
  BY DEF PagesTypeOK, Injection, IsInjective
<1> QED BY <1>1, PageAssumption DEF Keyed

LEMMA FiniteRows ==
  ASSUME NEW S \in SUBSET Rows
  PROVE  IsFiniteSet(S) /\ Cardinality(S) \in Nat
  BY PageAssumption, FS_Subset, FS_CardinalityType

LEMMA LowIsFinite ==
  ASSUME NEW k, NEW row, NEW S \in SUBSET Rows
  PROVE  Low(k, row, S) \in SUBSET Rows /\ Cardinality(Low(k, row, S)) \in Nat
<1>1. Low(k, row, S) \in SUBSET Rows
  BY DEF Low
<1> QED BY <1>1, FiniteRows

LEMMA LowerRowsFirst ==
  ASSUME NEW k, Keyed(k), NEW S \in SUBSET Rows, NEW a \in Rows, NEW b \in Rows
  PROVE  /\ k[a] <= k[b] => Cardinality(Low(k, a, S)) <= Cardinality(Low(k, b, S))
         /\ a \in S /\ k[a] < k[b] => Cardinality(Low(k, a, S)) < Cardinality(Low(k, b, S))
<1>1. /\ Low(k, b, S) \in SUBSET Rows /\ IsFiniteSet(Low(k, b, S))
      /\ Cardinality(Low(k, a, S)) \in Nat /\ Cardinality(Low(k, b, S)) \in Nat
  BY LowIsFinite, FiniteRows
<1>2. ASSUME k[a] <= k[b] PROVE Low(k, a, S) \in SUBSET Low(k, b, S)
  <2>1. \A x \in S : k[x] \in Nat /\ k[a] \in Nat /\ k[b] \in Nat
    BY DEF Keyed
  <2> QED BY <1>2, <2>1 DEF Low
<1>3. ASSUME k[a] <= k[b] PROVE Cardinality(Low(k, a, S)) <= Cardinality(Low(k, b, S))
  BY <1>1, <1>2, <1>3, FS_Subset
<1>4. ASSUME a \in S, k[a] < k[b] PROVE Cardinality(Low(k, a, S)) < Cardinality(Low(k, b, S))
  <2>1. k[a] \in Nat /\ k[b] \in Nat
    BY DEF Keyed
  <2>2. a \in Low(k, b, S) /\ a \notin Low(k, a, S)
    BY <1>4, <2>1 DEF Low
  <2>3. Low(k, a, S) \in SUBSET Low(k, b, S) /\ Low(k, a, S) # Low(k, b, S)
    BY <1>2, <1>4, <2>1, <2>2
  <2>4. /\ Cardinality(Low(k, a, S)) <= Cardinality(Low(k, b, S))
        /\ Cardinality(Low(k, a, S)) # Cardinality(Low(k, b, S))
    BY <1>1, <2>3, FS_Subset
  <2> QED BY <1>1, <2>4
<1> QED BY <1>3, <1>4

LEMMA OffsetsDiffer ==
  ASSUME NEW k, Keyed(k), NEW S \in SUBSET Rows, NEW a \in S, NEW b \in S,
         Cardinality(Low(k, a, S)) = Cardinality(Low(k, b, S))
  PROVE  a = b
<1>1. k[a] \in Nat /\ k[b] \in Nat /\ (k[a] = k[b] => a = b)
  BY DEF Keyed
<1>2. Cardinality(Low(k, a, S)) \in Nat
  BY LowIsFinite
<1>3. ~(k[a] < k[b]) /\ ~(k[b] < k[a])
  BY <1>2, LowerRowsFirst
<1> QED BY <1>1, <1>3

LEMMA LeastRow ==
  ASSUME NEW k, Keyed(k), NEW S \in SUBSET Rows, S # {}
  PROVE  \E m \in S : \A x \in S : k[m] <= k[x]
<1> DEFINE T == {k[x] : x \in S}
<1>1. T \in SUBSET Nat /\ T # {}
  BY DEF Keyed
<1>2. PICK n \in T : \A t \in T : n <= t
  BY <1>1, SmallestOf
<1>3. PICK m \in S : k[m] = n
  BY <1>2
<1> QED BY <1>2, <1>3

(* The row with the fewest above it has none. *)
LEMMA GreatestRow ==
  ASSUME NEW k, Keyed(k), NEW S \in SUBSET Rows, S # {}
  PROVE  \E m \in S : \A x \in S : k[x] <= k[m]
<1> DEFINE Above(y) == {x \in S : k[y] < k[x]}
           T == {Cardinality(Above(y)) : y \in S}
<1>1. \A y \in S : Above(y) \in SUBSET Rows /\ IsFiniteSet(Above(y)) /\ Cardinality(Above(y)) \in Nat
  <2> SUFFICES ASSUME NEW y \in S
               PROVE  Above(y) \in SUBSET Rows /\ IsFiniteSet(Above(y)) /\ Cardinality(Above(y)) \in Nat
    OBVIOUS
  <2>1. Above(y) \in SUBSET Rows
    OBVIOUS
  <2> HIDE DEF Above
  <2> QED BY <2>1, FiniteRows
<1>2. T \in SUBSET Nat /\ T # {}
  <2> HIDE DEF Above
  <2> QED BY <1>1
<1>3. PICK n \in T : \A t \in T : n <= t
  BY <1>2, SmallestOf
<1>4. PICK m \in S : Cardinality(Above(m)) = n
  <2> HIDE DEF Above
  <2> QED BY <1>3
<1>5. ASSUME NEW x \in S, k[m] < k[x] PROVE FALSE
  <2>1. \A y \in S : k[y] \in Nat
    BY DEF Keyed
  <2>2. Above(x) \in SUBSET Above(m)
    BY <1>5, <2>1
  <2>3. x \in Above(m) /\ x \notin Above(x)
    BY <1>5, <2>1
  <2>4. Cardinality(Above(x)) \in T
    OBVIOUS
  <2> HIDE DEF Above
  <2>5. Cardinality(Above(m)) <= Cardinality(Above(x))
    BY <1>3, <1>4, <2>4
  <2>6. Cardinality(Above(x)) <= Cardinality(Above(m)) /\ Cardinality(Above(x)) # Cardinality(Above(m))
    BY <1>1, <2>2, <2>3, FS_Subset
  <2> QED BY <1>1, <2>5, <2>6
<1> QED BY <1>5 DEF Keyed

LEMMA OffsetIsLow ==
  /\ \A row, S : Offset(row, S) = Cardinality(Low(key, row, S))
  /\ \A S, skip, take : \A row \in S :
       row \in Slice(S, skip, take) <=> Offset(row, S) \in skip .. skip + take - 1
  BY DEF Offset, Low, Slice

LEMMA OffsetFacts ==
  ASSUME Keyed(key), NEW S \in SUBSET Rows, NEW a \in Rows, NEW b \in Rows
  PROVE  /\ Offset(a, S) \in Nat
         /\ key[a] <= key[b] => Offset(a, S) <= Offset(b, S)
         /\ a \in S /\ key[a] < key[b] => Offset(a, S) < Offset(b, S)
         /\ a \in S /\ b \in S /\ Offset(a, S) = Offset(b, S) => a = b
  BY OffsetIsLow, LowIsFinite, LowerRowsFirst, OffsetsDiffer

LEMMA SliceFacts ==
  ASSUME Keyed(key), NEW S \in SUBSET Rows, NEW skip \in Nat, NEW take \in Nat
  PROVE  /\ Slice(S, skip, take) \in SUBSET S
         /\ \A x \in S : x \in Slice(S, skip, take)
              <=> skip <= Offset(x, S) /\ Offset(x, S) < skip + take
<1>1. Slice(S, skip, take) \in SUBSET S
  BY DEF Slice
<1>2. ASSUME NEW x \in S
      PROVE  x \in Slice(S, skip, take) <=> skip <= Offset(x, S) /\ Offset(x, S) < skip + take
  <2>1. Offset(x, S) \in Nat
    BY OffsetFacts
  <2>2. x \in Slice(S, skip, take) <=> Offset(x, S) \in skip .. skip + take - 1
    BY OffsetIsLow
  <2> QED BY <2>1, <2>2
<1> QED BY <1>1, <1>2

(* LIMIT: no more rows than were asked for. *)
LEMMA SliceIsShort ==
  ASSUME Keyed(key), NEW S \in SUBSET Rows, NEW n \in Nat
  PROVE  Cardinality(Slice(S, 0, n)) <= n
<1> DEFINE page == Slice(S, 0, n)
<1>1. page \in SUBSET S /\ \A x \in page : Offset(x, S) < n
  <2>1. /\ page \in SUBSET S
        /\ \A x \in S : x \in page <=> 0 <= Offset(x, S) /\ Offset(x, S) < 0 + n
    BY SliceFacts, 0 \in Nat
  <2>2. \A x \in S : Offset(x, S) \in Nat
    BY OffsetFacts
  <2> HIDE DEF page
  <2> QED BY <2>1, <2>2
<1> HIDE DEF page
<1>2. CASE page = {}
  BY <1>2, FS_EmptySet DEF page
<1>3. CASE page # {}
  <2>1. PICK c \in page : \A x \in page : key[x] <= key[c]
    BY <1>1, <1>3, GreatestRow
  <2>2. page \in SUBSET (Low(key, c, S) \cup {c})
    <3> SUFFICES ASSUME NEW x \in page, x # c PROVE key[x] < key[c]
      BY <1>1 DEF Low
    <3>1. key[x] \in Nat /\ key[c] \in Nat /\ key[x] # key[c]
      BY <1>1 DEF Keyed
    <3> QED BY <2>1, <3>1
  <2>3. /\ IsFiniteSet(Low(key, c, S)) /\ Cardinality(Low(key, c, S)) < n
        /\ Cardinality(Low(key, c, S)) \in Nat
    BY <1>1, <2>1, LowIsFinite, FiniteRows, OffsetIsLow
  <2>4. c \notin Low(key, c, S)
    BY <1>1 DEF Low, Keyed
  <2>5. /\ IsFiniteSet(Low(key, c, S) \cup {c})
        /\ Cardinality(Low(key, c, S) \cup {c}) = Cardinality(Low(key, c, S)) + 1
    BY <2>3, <2>4, FS_AddElement
  <2>6. Cardinality(page) <= Cardinality(Low(key, c, S) \cup {c})
    BY <2>2, <2>5, FS_Subset
  <2>7. Cardinality(page) \in Nat
    BY <1>1, FiniteRows
  <2> QED BY <2>3, <2>5, <2>6, <2>7 DEF page
<1> QED BY <1>2, <1>3

(* ... and no fewer when there are more. *)
LEMMA SliceIsFull ==
  ASSUME Keyed(key), NEW S \in SUBSET Rows, NEW skip \in Nat, NEW n \in Nat,
         NEW x \in S, Offset(x, S) >= skip + n
  PROVE  Cardinality(Slice(S, skip, n)) >= n
<1> DEFINE T == {y \in S : Offset(y, S) >= skip + n}
           before == Slice(S, 0, skip)
           page == Slice(S, skip, n)
<1>1. PICK c \in T : \A y \in T : key[c] <= key[y]
  <2>1. T \in SUBSET Rows /\ T # {}
    OBVIOUS
  <2> HIDE DEF T
  <2> QED BY <2>1, LeastRow
<1>2. Low(key, c, S) \in SUBSET (before \cup page)
  <2> SUFFICES ASSUME NEW y \in S, key[y] < key[c] PROVE y \in before \cup page
    BY DEF Low
  <2>1. y \notin T
    BY <1>1 DEF Keyed
  <2>2. Offset(y, S) \in Nat /\ ~(Offset(y, S) >= skip + n)
    BY <2>1, OffsetFacts
  <2>3. /\ y \in before <=> 0 <= Offset(y, S) /\ Offset(y, S) < 0 + skip
        /\ y \in page <=> skip <= Offset(y, S) /\ Offset(y, S) < skip + n
    BY SliceFacts, 0 \in Nat
  <2> HIDE DEF before, page
  <2> QED BY <2>2, <2>3
<1>3. before \in SUBSET Rows /\ page \in SUBSET Rows
  BY SliceFacts
<1>4. Cardinality(Low(key, c, S)) >= skip + n
  BY <1>1, OffsetIsLow
<1> HIDE DEF T
<1>5. Cardinality(before) <= skip /\ before \in SUBSET Rows /\ page \in SUBSET Rows
  BY <1>3, SliceIsShort
<1> HIDE DEF before
<1>6. SUFFICES Cardinality(page) >= n
  OBVIOUS
<1> HIDE DEF page
<1>7. /\ IsFiniteSet(before) /\ IsFiniteSet(page)
      /\ Cardinality(before) \in Nat /\ Cardinality(page) \in Nat
      /\ Cardinality(before \cap page) \in Nat
  BY <1>5, FiniteRows
<1>8. /\ IsFiniteSet(before \cup page)
      /\ Cardinality(before \cup page) = Cardinality(before) + Cardinality(page) - Cardinality(before \cap page)
  BY <1>7, FS_Union
<1>9. Cardinality(Low(key, c, S)) <= Cardinality(before \cup page)
  BY <1>2, <1>8, FS_Subset
<1>10. Cardinality(Low(key, c, S)) \in Nat
  <2>1. Low(key, c, S) \in SUBSET Rows
    BY DEF Low
  <2> QED BY <2>1, FiniteRows
<1> QED BY <1>4, <1>5, <1>7, <1>8, <1>9, <1>10
------------------------------------------------------------------------------
(* The invariant of a walk                                                    *)

WalkInv ==
  /\ walk.stage = "start" =>
       walk.cursor = NoRow /\ walk.page = 1 /\ \A row \in Rows : walk.shown[row] = 0
  /\ walk.stage # "start" => history.steady \subseteq Listed
  /\ walk.stage = "count" => Numbered

(* With a cursor: what it has left behind without showing it.                *)
Passed == {row \in history.steady : walk.shown[row] = 0 /\ key[row] < key[walk.cursor]}
CursorAhead ==
  /\ walk.cursor \in Rows /\ walk.shown[walk.cursor] = 1
  /\ \A row \in Rows : walk.shown[row] = 1 => key[row] <= key[walk.cursor]
CursorInv ==
  ~Numbered =>
    /\ \A row \in Rows : walk.shown[row] <= 1
    /\ walk.stage = "next" => CursorAhead /\ Cardinality(Passed) <= history.lost
    /\ walk.stage = "done" => Cardinality(Missed) <= history.lost
    /\ KeepsRows => history.lost = 0
    /\ KeepsRows /\ walk.stage = "next" =>
         In(walk.cursor, status) /\ \E row \in Listed : key[walk.cursor] < key[row]

(* With page numbers: how many rows of the list the client takes for shown,   *)
(* which rows it will be shown again and which it will never be shown.       *)
Reached == (IF walk.stage \in {"count", "done"} THEN walk.page ELSE walk.page - 1) * query.limit
Again  == {row \in history.steady : walk.shown[row] > 0 /\ Offset(row, Listed) >= Reached}
Behind == {row \in history.steady : walk.shown[row] = 0 /\ Offset(row, Listed) < Reached}
NumberedInv ==
  Numbered =>
    /\ Cardinality(Again \cup Repeated) <= history.joined
    /\ Cardinality(Behind) <= history.left
    /\ walk.stage = "done" => Cardinality(Missed) <= history.left

PagesInv == PagesTypeOK /\ WalkInv /\ CursorInv /\ NumberedInv

LEMMA PageTypes ==
  ASSUME PagesTypeOK
  PROVE  /\ Keyed(key) /\ Listed \in SUBSET Rows
         /\ query.limit \in Nat /\ query.limit > 0
         /\ ~Numbered => ~query.resorted
         /\ walk.stage \in {"start", "next", "count", "done"}
         /\ walk.cursor \in Rows \cup {NoRow}
         /\ walk.page \in Nat /\ 1 <= walk.page /\ walk.page <= Cardinality(Rows)
         /\ walk.shown \in [Rows -> Nat]
         /\ history.steady \in SUBSET Rows
         /\ history.changes \in Nat /\ history.changes <= MaxChanges
         /\ history.joined \in Nat /\ history.left \in Nat /\ history.lost \in Nat
<1>1. Keyed(key) /\ Listed \in SUBSET Rows
  BY KeysAreKeyed DEF Listed
<1>2. query.limit \in Limits /\ (query.list # "public" => ~query.resorted)
  BY DEF PagesTypeOK, Query
<1>3. Cardinality(Rows) \in Nat
  BY FiniteRows
<1>4. /\ walk.stage \in {"start", "next", "count", "done"}
      /\ walk.cursor \in Rows \cup {NoRow}
      /\ walk.page \in 1 .. Cardinality(Rows) /\ walk.shown \in [Rows -> Nat]
  BY DEF PagesTypeOK, Walk
<1>5. /\ history.steady \in SUBSET Rows
      /\ history.changes \in 0 .. MaxChanges
      /\ history.joined \in Nat /\ history.left \in Nat /\ history.lost \in Nat
  BY DEF PagesTypeOK, History
<1>6. query.limit \in Nat /\ query.limit > 0 /\ MaxChanges \in Nat
  <2>1. query.limit \in Nat /\ query.limit # 0
    BY <1>2, PageAssumption, Zenon
  <2> QED BY <2>1, PageAssumption
<1>7. walk.page \in Nat /\ 1 <= walk.page /\ walk.page <= Cardinality(Rows)
  BY <1>3, <1>4
<1>8. history.changes \in Nat /\ history.changes <= MaxChanges
  BY <1>5, <1>6
<1>9. ~Numbered => ~query.resorted
  BY <1>2 DEF Numbered
<1> QED BY <1>1, <1>4, <1>5, <1>6, <1>7, <1>8, <1>9

(* One page of the rows S, of which skip are left out: complete when no row    *)
(* more was found, and else complete up to its last row, with more behind it. *)
Continues(S, skip, n, rows, page) ==
  /\ page \in SUBSET S /\ \A x \in page : Offset(x, S) >= skip
  /\ ~(Cardinality(rows) > n) => \A x \in S : Offset(x, S) >= skip => x \in page
  /\ Cardinality(rows) > n =>
       /\ LastOf(page) \in page /\ \A x \in page : key[x] <= key[LastOf(page)]
       /\ \A x \in S : Offset(x, S) >= skip /\ key[x] <= key[LastOf(page)] => x \in page
       /\ \E x \in S : key[LastOf(page)] < key[x]

LEMMA PageFacts ==
  ASSUME Keyed(key), NEW S \in SUBSET Rows, NEW skip \in Nat, NEW n \in Nat, n > 0,
         NEW rows, rows = Slice(S, skip, n + 1),
         NEW page, page = IF Cardinality(rows) > n THEN Slice(rows, 0, n) ELSE rows
  PROVE  Continues(S, skip, n, rows, page)
<1>1. /\ rows \in SUBSET S
      /\ \A x \in S : x \in rows <=> skip <= Offset(x, S) /\ Offset(x, S) < skip + (n + 1)
  BY SliceFacts, n + 1 \in Nat
<1>2. \A x \in S : Offset(x, S) \in Nat
  BY OffsetFacts
<1>3. Cardinality(rows) \in Nat /\ IsFiniteSet(rows)
  BY <1>1, FiniteRows
<1>4. CASE ~(Cardinality(rows) > n)
  <2>1. \A x \in S : ~(Offset(x, S) >= skip + (n + 1))
    <3> SUFFICES ASSUME NEW x \in S, Offset(x, S) >= skip + (n + 1) PROVE FALSE
      OBVIOUS
    <3>1. Cardinality(rows) >= n + 1
      BY SliceIsFull, n + 1 \in Nat
    <3> QED BY <1>3, <1>4, <3>1
  <2>2. \A x \in S : Offset(x, S) >= skip => x \in rows
    BY <1>1, <1>2, <2>1
  <2>3. \A x \in rows : Offset(x, S) >= skip
    BY <1>1, <1>2
  <2>4. page = rows
    BY <1>4, Zenon
  <2> QED BY <1>1, <1>4, <2>2, <2>3, <2>4 DEF Continues
<1>5. CASE Cardinality(rows) > n
  <2>1. page = Slice(rows, 0, n)
    BY <1>5
  <2>2. rows \in SUBSET Rows
    BY <1>1
  <2>3. \A x \in rows : Offset(x, rows) \in Nat
    BY <2>2, OffsetFacts
  <2>4. page \in SUBSET rows /\ \A x \in rows : x \in page <=> Offset(x, rows) < n
    <3>1. /\ Slice(rows, 0, n) \in SUBSET rows
          /\ \A x \in rows : x \in Slice(rows, 0, n) <=> 0 <= Offset(x, rows) /\ Offset(x, rows) < 0 + n
      BY <2>2, SliceFacts, 0 \in Nat
    <3> QED BY <2>1, <2>3, <3>1
  <2>5. Cardinality(page) <= n /\ Cardinality(page) \in Nat
    BY <2>1, <2>2, <2>4, SliceIsShort, FiniteRows
  <2>6. page # {}
    <3>1. rows # {}
      BY <1>3, <1>5, FS_EmptySet
    <3>2. PICK m \in rows : \A x \in rows : key[m] <= key[x]
      BY <2>2, <3>1, LeastRow
    <3>3. Low(key, m, rows) = {}
      BY <2>2, <3>2 DEF Low, Keyed
    <3>4. Offset(m, rows) = 0
      BY <3>3, OffsetIsLow, FS_EmptySet
    <3> QED BY <2>4, <3>4
  <2>7. LastOf(page) \in page /\ \A x \in page : key[x] <= key[LastOf(page)]
    <3>1. \E c \in page : \A x \in page : key[x] <= key[c]
      BY <2>2, <2>4, <2>6, GreatestRow
    <3> QED BY <3>1 DEF LastOf
  <2> DEFINE c == LastOf(page)
  <2>8. c \in rows /\ c \in Rows /\ Offset(c, rows) < n /\ Offset(c, rows) \in Nat
    BY <2>2, <2>3, <2>4, <2>7
  <2>9. ASSUME NEW x \in S, Offset(x, S) >= skip, key[x] <= key[c] PROVE x \in page
    <3>1. Offset(x, S) <= Offset(c, S)
      BY <2>8, <2>9, OffsetFacts
    <3>2. Offset(c, S) < skip + (n + 1)
      BY <1>1, <2>8
    <3>3. x \in rows
      BY <1>1, <1>2, <2>8, <2>9, <3>1, <3>2
    <3>4. Offset(x, rows) <= Offset(c, rows)
      BY <2>2, <2>8, <2>9, <3>3, OffsetFacts
    <3> QED BY <2>3, <2>4, <2>8, <3>3, <3>4
  <2>10. \E x \in S : key[c] < key[x]
    <3>1. page # rows
      BY <1>3, <1>5, <2>5
    <3>2. PICK x \in rows : x \notin page
      BY <2>4, <3>1
    <3>3. ~(Offset(x, rows) < n) /\ Offset(x, rows) \in Nat
      BY <2>3, <2>4, <3>2
    <3>4. ~(key[x] <= key[c])
      BY <2>2, <2>8, <3>3, OffsetFacts
    <3>5. key[x] \in Nat /\ key[c] \in Nat
      BY <2>2, <2>8 DEF Keyed
    <3> QED BY <1>1, <3>4, <3>5
  <2>11. page \in SUBSET S /\ \A x \in page : Offset(x, S) >= skip
    BY <1>1, <1>2, <2>4
  <2> QED BY <1>5, <2>7, <2>9, <2>10, <2>11 DEF Continues
<1> QED BY <1>4, <1>5

LEMMA ShownMore ==
  ASSUME PagesTypeOK, NEW page \in SUBSET Rows
  PROVE  /\ Show(page) \in [Rows -> Nat]
         /\ \A row \in Rows :
              Show(page)[row] = IF row \in page THEN walk.shown[row] + 1 ELSE walk.shown[row]
  BY PageTypes DEF Show, Count

------------------------------------------------------------------------------
(* Cursor pages                                                               *)

Rest == IF walk.cursor = NoRow THEN Listed ELSE From(walk.cursor)
Skip == IF walk.cursor = NoRow THEN 0 ELSE 1

(* What a page with a cursor shows, and what it leaves to the next one.       *)
LEMMA NextPage ==
  ASSUME PagesInv, ~Numbered, walk.stage \in {"start", "next"},
         NEW rows, rows = FindAfter(walk.cursor),
         NEW page, page = IF Cardinality(rows) > query.limit THEN Slice(rows, 0, query.limit) ELSE rows
  PROVE  /\ Rest \in SUBSET Listed /\ Skip \in Nat
         /\ Continues(Rest, Skip, query.limit, rows, page)
<1>1. Keyed(key) /\ Listed \in SUBSET Rows /\ query.limit \in Nat /\ query.limit > 0
  BY PageTypes DEF PagesInv
<1>2. Rest \in SUBSET Listed /\ Rest \in SUBSET Rows /\ Skip \in Nat
  BY <1>1 DEF Rest, Skip, From
<1>3. rows = Slice(Rest, Skip, query.limit + 1)
  BY DEF FindAfter, Rest, Skip
<1> QED BY <1>1, <1>2, <1>3, PageFacts

LEMMA CursorIsFirst ==
  ASSUME PagesTypeOK, walk.cursor \in Rows
  PROVE  \A x \in From(walk.cursor) :
           /\ key[x] \in Nat /\ key[walk.cursor] \in Nat /\ key[walk.cursor] <= key[x]
           /\ x = walk.cursor => Offset(x, From(walk.cursor)) = 0
<1>1. Keyed(key)
  BY PageTypes
<1> SUFFICES ASSUME NEW x \in From(walk.cursor)
             PROVE  /\ key[x] \in Nat /\ key[walk.cursor] \in Nat /\ key[walk.cursor] <= key[x]
                    /\ x = walk.cursor => Offset(x, From(walk.cursor)) = 0
  OBVIOUS
<1>2. key[x] \in Nat /\ key[walk.cursor] \in Nat /\ key[walk.cursor] <= key[x]
  BY <1>1 DEF From, Listed, Keyed
<1>3. Low(key, walk.cursor, From(walk.cursor)) = {}
  BY <1>1 DEF Low, From, Listed, Keyed
<1> QED BY <1>2, <1>3, OffsetIsLow, FS_EmptySet

(* No row of the page has been shown before.                                  *)
LEMMA PageIsNew ==
  ASSUME PagesInv, ~Numbered, walk.stage \in {"start", "next"},
         NEW x \in Rest, Offset(x, Rest) >= Skip
  PROVE  walk.shown[x] = 0
<1>1. PagesTypeOK /\ WalkInv /\ CursorInv
  BY DEF PagesInv
<1>2. x \in Rows /\ walk.shown[x] \in Nat /\ walk.shown[x] <= 1
  BY <1>1, PageTypes DEF Rest, From, Listed, CursorInv
<1>3. CASE walk.stage = "start"
  BY <1>1, <1>2, <1>3 DEF WalkInv
<1>4. CASE walk.stage = "next"
  <2>1. CursorAhead
    BY <1>1, <1>4 DEF CursorInv
  <2>2. walk.cursor \in Rows /\ walk.cursor # NoRow
    BY <2>1, PageAssumption DEF CursorAhead
  <2>3. x \in From(walk.cursor) /\ Offset(x, From(walk.cursor)) >= 1
    BY <2>2 DEF Rest, Skip
  <2>4. /\ key[x] \in Nat /\ key[walk.cursor] \in Nat /\ key[walk.cursor] <= key[x]
        /\ x # walk.cursor
    BY <1>1, <2>2, <2>3, CursorIsFirst
  <2>5. key[x] # key[walk.cursor]
    BY <1>1, <1>2, <2>2, <2>4, PageTypes DEF Keyed
  <2>6. ~(key[x] <= key[walk.cursor])
    BY <2>4, <2>5
  <2>7. walk.shown[x] # 1
    BY <1>2, <2>1, <2>6 DEF CursorAhead
  <2> QED BY <1>2, <2>7
<1> QED BY <1>3, <1>4

(* The one row that a page may skip without having shown it.                  *)
LEMMA SkippedRow ==
  ASSUME PagesInv, ~Numbered, walk.stage = "next",
         NEW T \in SUBSET history.steady, \A x \in T : walk.shown[x] = 0,
         \A x \in T : x \in Passed \/ (Offset(x, From(walk.cursor)) = 0 /\ x \in From(walk.cursor))
  PROVE  Cardinality(T) <= history.lost + Count(~In(walk.cursor, status))
<1> DEFINE S == From(walk.cursor)
           first == Slice(S, 0, 1)
<1>1. PagesTypeOK /\ CursorAhead /\ Cardinality(Passed) <= history.lost
  BY DEF PagesInv, CursorInv
<1>2. /\ Keyed(key) /\ S \in SUBSET Rows /\ history.steady \in SUBSET Rows
      /\ history.lost \in Nat /\ walk.cursor \in Rows
  BY <1>1, PageTypes DEF From, CursorAhead
<1>3. Passed \in SUBSET Rows /\ T \in SUBSET Rows
  BY <1>2 DEF Passed
<1>4. /\ IsFiniteSet(Passed) /\ Cardinality(Passed) \in Nat
      /\ IsFiniteSet(T) /\ Cardinality(T) \in Nat
  BY <1>3, FiniteRows
<1>5. CASE In(walk.cursor, status)
  <2>1. walk.cursor \in S /\ Offset(walk.cursor, S) = 0
    <3>1. walk.cursor \in S
      BY <1>2, <1>5 DEF From, Listed, Keyed
    <3> QED BY <1>1, <1>2, <3>1, CursorIsFirst
  <2>2. \A x \in T : x \in Passed
    <3> SUFFICES ASSUME NEW x \in T, x \notin Passed PROVE FALSE
      OBVIOUS
    <3>1. x \in S /\ Offset(x, S) = 0
      OBVIOUS
    <3>2. x = walk.cursor
      BY <1>2, <1>3, <2>1, <3>1, OffsetFacts
    <3> QED BY <1>1, <3>2 DEF CursorAhead
  <2>3. T \in SUBSET Passed
    BY <2>2
  <2>4. Cardinality(T) <= Cardinality(Passed)
    BY <1>4, <2>3, FS_Subset
  <2> QED BY <1>1, <1>2, <1>4, <1>5, <2>4 DEF Count
<1>6. CASE ~In(walk.cursor, status)
  <2> HIDE DEF S
  <2>1. /\ first \in SUBSET Rows /\ Cardinality(first) <= 1
        /\ \A x \in S : x \in first <=> 0 <= Offset(x, S) /\ Offset(x, S) < 0 + 1
    BY <1>2, SliceFacts, SliceIsShort, 0 \in Nat, 1 \in Nat
  <2>2. \A x \in S : Offset(x, S) = 0 => x \in first
    BY <2>1
  <2>3. T \in SUBSET (Passed \cup first)
    BY <2>2 DEF S
  <2> HIDE DEF first
  <2>4. IsFiniteSet(first) /\ Cardinality(first) \in Nat /\ Cardinality(Passed \cap first) \in Nat
    BY <1>3, <2>1, FiniteRows
  <2>5. /\ IsFiniteSet(Passed \cup first)
        /\ Cardinality(Passed \cup first)
             = Cardinality(Passed) + Cardinality(first) - Cardinality(Passed \cap first)
    BY <1>4, <2>4, FS_Union
  <2>6. Cardinality(T) <= Cardinality(Passed \cup first)
    BY <2>3, <2>5, FS_Subset
  <2> QED BY <1>1, <1>2, <1>4, <1>6, <2>1, <2>4, <2>5, <2>6 DEF Count
<1> QED BY <1>5, <1>6

LEMMA CursorPageKept == ASSUME PagesInv, CursorPage PROVE PagesInv'
<1> DEFINE rows == FindAfter(walk.cursor)
           hasMore == Cardinality(rows) > query.limit
           page == IF hasMore THEN Slice(rows, 0, query.limit) ELSE rows
           last == LastOf(page)
           steady == IF walk.stage = "start" THEN Listed ELSE history.steady
           lost == history.lost + Count(walk.cursor # NoRow /\ ~In(walk.cursor, status))
<1>1. /\ PagesTypeOK /\ WalkInv /\ CursorInv
      /\ ~Numbered /\ walk.stage \in {"start", "next"}
      /\ UNCHANGED <<key, status, query>>
  BY DEF PagesInv, CursorPage
<1>2. /\ walk' = [walk EXCEPT !.stage = IF hasMore THEN "next" ELSE "done",
                              !.cursor = IF hasMore THEN last ELSE NoRow,
                              !.shown = Show(page)]
      /\ history' = [history EXCEPT !.steady = steady, !.lost = lost]
  BY Zenon DEF CursorPage
<1>3. /\ Rest \in SUBSET Listed /\ Skip \in Nat
      /\ Continues(Rest, Skip, query.limit, rows, page)
  BY <1>1, NextPage
<1>4. /\ Keyed(key) /\ Listed \in SUBSET Rows /\ query.limit \in Nat /\ ~query.resorted
      /\ history.steady \in SUBSET Rows /\ history.lost \in Nat
      /\ walk.shown \in [Rows -> Nat]
  BY <1>1, PageTypes
<1> HIDE DEF rows
<1>5. /\ page \in SUBSET Rest /\ \A x \in page : Offset(x, Rest) >= Skip
      /\ ~hasMore => \A x \in Rest : Offset(x, Rest) >= Skip => x \in page
      /\ hasMore =>
           /\ last \in page /\ \A x \in page : key[x] <= key[last]
           /\ \A x \in Rest : Offset(x, Rest) >= Skip /\ key[x] <= key[last] => x \in page
           /\ \E x \in Rest : key[last] < key[x]
  BY <1>3 DEF Continues
<1> HIDE DEF page, last
<1>6. page \in SUBSET Rows /\ (hasMore => last \in Rows)
  BY <1>3, <1>4, <1>5
<1> HIDE DEF hasMore
<1>7. /\ Show(page) \in [Rows -> Nat]
      /\ \A row \in Rows :
           Show(page)[row] = IF row \in page THEN walk.shown[row] + 1 ELSE walk.shown[row]
  BY <1>1, <1>6, ShownMore
<1>8. \A x \in page : walk.shown[x] = 0
  BY <1>1, <1>5, PageIsNew
<1>9. steady \in SUBSET Rows /\ steady \in SUBSET Listed /\ lost \in Nat
  <2>1. steady \in SUBSET Listed
    BY <1>1 DEF WalkInv
  <2>2. lost \in Nat
    BY <1>4 DEF Count
  <2> QED BY <1>4, <2>1, <2>2
<1>10. walk \in Walk /\ history \in History
  BY <1>1 DEF PagesTypeOK
<1>11. /\ walk'.stage = (IF hasMore THEN "next" ELSE "done")
       /\ walk'.cursor = (IF hasMore THEN last ELSE NoRow)
       /\ walk'.shown = Show(page) /\ walk'.page = walk.page
       /\ walk' \in Walk
  <2>1. (IF hasMore THEN last ELSE NoRow) \in Rows \cup {NoRow}
    BY <1>6
  <2> QED BY <1>2, <1>7, <1>10, <2>1 DEF Walk
<1>12. /\ history'.steady = steady /\ history'.lost = lost
       /\ history' \in History
  BY <1>2, <1>9, <1>10 DEF History
<1>13. PagesTypeOK'
  BY <1>1, <1>11, <1>12 DEF PagesTypeOK, Query
<1>14. Listed' = Listed /\ (Numbered' <=> Numbered) /\ (KeepsRows' <=> KeepsRows)
       /\ \A row \in Rows : In(row, status)' <=> In(row, status)
  BY <1>1 DEF Listed, In, Numbered, KeepsRows
<1>15. WalkInv'
  BY <1>1, <1>9, <1>11, <1>12, <1>14 DEF WalkInv
<1>16. \A row \in Rows : Show(page)[row] <= 1
  BY <1>1, <1>4, <1>7, <1>8 DEF CursorInv
<1> DEFINE missed == {row \in steady : Show(page)[row] = 0 /\ (hasMore => key[row] < key[last])}
<1>17. Cardinality(missed) <= lost
  <2>1. ASSUME NEW x \in missed, x \in Rest PROVE ~(Offset(x, Rest) >= Skip)
    <3>1. x \in Rows /\ Show(page)[x] = 0 /\ (hasMore => key[x] < key[last])
      BY <1>9
    <3>2. x \notin page
      BY <1>4, <1>7, <3>1
    <3>3. hasMore => key[x] <= key[last]
      BY <1>4, <1>6, <3>1 DEF Keyed
    <3> QED BY <1>5, <2>1, <3>2, <3>3
  <2>2. CASE walk.stage = "start"
    <3>1. walk.cursor = NoRow
      BY <1>1, <2>2 DEF WalkInv
    <3>2. Rest = Listed /\ Skip = 0
      BY <3>1 DEF Rest, Skip
    <3>3. \A x \in Rest : Offset(x, Rest) \in Nat
      BY <1>4, <3>2, OffsetFacts
    <3>4. missed = {}
      <4> SUFFICES ASSUME NEW x \in missed PROVE FALSE
        OBVIOUS
      <4>1. x \in Rest
        BY <1>9, <3>2
      <4> QED BY <2>1, <3>2, <3>3, <4>1
    <3> QED BY <1>9, <3>4, FS_EmptySet
  <2>3. CASE walk.stage = "next"
    <3>1. CursorAhead
      BY <1>1, <2>3 DEF CursorInv
    <3>2. walk.cursor \in Rows /\ walk.cursor # NoRow
      BY <3>1, PageAssumption DEF CursorAhead
    <3>3. Rest = From(walk.cursor) /\ Skip = 1 /\ steady = history.steady
      BY <2>3, <3>2 DEF Rest, Skip
    <3>4. lost = history.lost + Count(~In(walk.cursor, status))
      BY <3>2
    <3>5. \A x \in missed : walk.shown[x] = 0
      BY <1>4, <1>7, <1>9
    <3>6. \A x \in missed :
            x \in Passed \/ (Offset(x, From(walk.cursor)) = 0 /\ x \in From(walk.cursor))
      <4> SUFFICES ASSUME NEW x \in missed, x \notin Passed
                   PROVE  Offset(x, From(walk.cursor)) = 0 /\ x \in From(walk.cursor)
        OBVIOUS
      <4>1. x \in history.steady /\ walk.shown[x] = 0 /\ x \in Rows /\ x \in Listed
        BY <1>9, <3>3, <3>5
      <4>2. ~(key[x] < key[walk.cursor])
        BY <4>1 DEF Passed
      <4>3. x \in From(walk.cursor)
        BY <1>4, <3>2, <4>1, <4>2 DEF From, Keyed
      <4>4. Offset(x, Rest) \in Nat
        BY <1>3, <1>4, <4>1, OffsetFacts
      <4> QED BY <2>1, <3>3, <4>3, <4>4
    <3>7. missed \in SUBSET history.steady
      BY <3>3
    <3> HIDE DEF missed
    <3>8. Cardinality(missed) <= history.lost + Count(~In(walk.cursor, status))
      BY <1>1, <2>3, <3>5, <3>6, <3>7, SkippedRow
    <3> QED BY <3>4, <3>8
  <2> QED BY <1>1, <2>2, <2>3
<1>18. ASSUME KeepsRows PROVE lost = 0
  <2>1. history.lost = 0
    BY <1>1, <1>18 DEF CursorInv
  <2>2. walk.stage = "next" => In(walk.cursor, status)
    BY <1>1, <1>18 DEF CursorInv
  <2>3. walk.stage = "start" => walk.cursor = NoRow
    BY <1>1 DEF WalkInv
  <2> QED BY <1>1, <2>1, <2>2, <2>3 DEF Count
<1>19. CASE hasMore
  <2>1. last \in Rows /\ last \in Listed /\ Show(page)[last] = 1
    BY <1>3, <1>4, <1>5, <1>6, <1>7, <1>8, <1>19
  <2>2. ASSUME NEW row \in Rows, Show(page)[row] = 1 PROVE key[row] <= key[last]
    <3>1. CASE row \in page
      BY <1>5, <1>19, <3>1
    <3>2. CASE row \notin page
      <4>1. walk.shown[row] = 1
        BY <1>7, <2>2, <3>2
      <4>2. walk.stage = "next"
        BY <1>1, <4>1 DEF WalkInv
      <4>3. CursorAhead
        BY <1>1, <4>2 DEF CursorInv
      <4>4. key[row] <= key[walk.cursor] /\ walk.cursor \in Rows /\ walk.cursor # NoRow
        BY <4>1, <4>3, PageAssumption DEF CursorAhead
      <4>5. last \in From(walk.cursor)
        BY <1>5, <1>19, <4>4 DEF Rest
      <4>6. key[walk.cursor] <= key[last]
        BY <1>1, <4>4, <4>5, CursorIsFirst
      <4>7. key[row] \in Nat /\ key[walk.cursor] \in Nat /\ key[last] \in Nat
        BY <1>4, <2>1, <4>4 DEF Keyed
      <4> QED BY <4>4, <4>6, <4>7
    <3> QED BY <3>1, <3>2
  <2>3. walk'.stage = "next" /\ walk'.cursor = last
    BY <1>11, <1>19
  <2>4. CursorAhead'
    BY <1>1, <1>11, <2>1, <2>2, <2>3 DEF CursorAhead
  <2>5. Passed' = missed
    BY <1>1, <1>11, <1>12, <1>19, <2>3 DEF Passed
  <2>6. In(walk.cursor, status)' /\ \E row \in Listed' : key'[walk'.cursor] < key'[row]
    <3>1. In(last, status)
      BY <2>1 DEF Listed
    <3>2. In(walk.cursor, status)'
      BY <1>1, <2>3, <3>1 DEF In
    <3>3. PICK row \in Rest : key[last] < key[row]
      BY <1>5, <1>19
    <3>4. row \in Listed' /\ key'[walk'.cursor] < key'[row]
      BY <1>1, <1>3, <1>14, <2>3, <3>3
    <3> QED BY <3>2, <3>4
  <2>7. CursorInv'
    BY <1>11, <1>12, <1>14, <1>16, <1>17, <1>18, <2>3, <2>4, <2>5, <2>6 DEF CursorInv
  <2> QED BY <1>1, <1>13, <1>14, <1>15, <2>7 DEF PagesInv, NumberedInv
<1>20. CASE ~hasMore
  <2>1. walk'.stage = "done"
    BY <1>11, <1>20
  <2>2. Missed' = missed
    BY <1>11, <1>12, <1>20 DEF Missed
  <2>3. CursorInv'
    BY <1>11, <1>12, <1>14, <1>16, <1>17, <1>18, <2>1, <2>2 DEF CursorInv
  <2> QED BY <1>1, <1>13, <1>14, <1>15, <2>3 DEF PagesInv, NumberedInv
<1> QED BY <1>19, <1>20

------------------------------------------------------------------------------
(* Numbered pages                                                             *)

LEMMA RowsReached ==
  ASSUME PagesTypeOK
  PROVE  /\ Reached \in Nat /\ Skipped \in Nat
         /\ walk.stage \in {"start", "next"} => Reached = Skipped
         /\ walk.page * query.limit = Skipped + query.limit
<1> DEFINE page == walk.page
           n == query.limit
<1>1. page \in Nat /\ 1 <= page /\ n \in Nat
  BY PageTypes
<1>2. page * n \in Nat /\ (page - 1) * n \in Nat /\ page * n = (page - 1) * n + n
  <2> HIDE DEF page, n
  <2>1. PICK before \in Nat : page = before + 1
    BY <1>1, page - 1 \in Nat, page = (page - 1) + 1
  <2>2. page * n = before * n + n /\ (page - 1) * n = before * n /\ before * n \in Nat
    BY <1>1, <2>1
  <2> QED BY <1>1, <2>2
<1> QED BY <1>2 DEF Reached, Skipped

LEMMA NumberedPageKept == ASSUME PagesInv, FindAuctions PROVE PagesInv'
<1> DEFINE page == Slice(Listed, Skipped, query.limit)
           steady == IF walk.stage = "start" THEN Listed ELSE history.steady
<1>1. /\ PagesTypeOK /\ WalkInv /\ NumberedInv
      /\ Numbered /\ walk.stage \in {"start", "next"}
      /\ UNCHANGED <<key, status, query>>
  BY DEF PagesInv, FindAuctions
<1>2. /\ walk' = [walk EXCEPT !.stage = "count", !.shown = Show(page)]
      /\ history' = [history EXCEPT !.steady = steady]
  BY Zenon DEF FindAuctions
<1>3. /\ Keyed(key) /\ Listed \in SUBSET Rows /\ query.limit \in Nat
      /\ history.steady \in SUBSET Rows /\ walk.shown \in [Rows -> Nat]
      /\ history.joined \in Nat /\ history.left \in Nat
  BY <1>1, PageTypes
<1>4. /\ Reached \in Nat /\ Skipped \in Nat /\ Reached = Skipped
  BY <1>1, RowsReached
<1>5. /\ page \in SUBSET Rows
      /\ \A x \in Listed : x \in page
           <=> Reached <= Offset(x, Listed) /\ Offset(x, Listed) < Reached + query.limit
  <2>1. /\ page \in SUBSET Listed
        /\ \A x \in Listed : x \in page
             <=> Skipped <= Offset(x, Listed) /\ Offset(x, Listed) < Skipped + query.limit
    BY <1>3, <1>4, SliceFacts
  <2> HIDE DEF page
  <2> QED BY <1>3, <1>4, <2>1
<1> HIDE DEF page
<1>6. /\ Show(page) \in [Rows -> Nat]
      /\ \A row \in Rows :
           Show(page)[row] = IF row \in page THEN walk.shown[row] + 1 ELSE walk.shown[row]
  BY <1>1, <1>5, ShownMore
<1>7. steady \in SUBSET Rows /\ steady \in SUBSET Listed
  BY <1>1, <1>3 DEF WalkInv
<1>8. walk \in Walk /\ history \in History
  BY <1>1 DEF PagesTypeOK
<1>9. /\ walk'.stage = "count" /\ walk'.cursor = walk.cursor
      /\ walk'.shown = Show(page) /\ walk'.page = walk.page
      /\ walk' \in Walk
  BY <1>2, <1>6, <1>8 DEF Walk
<1>10. /\ history'.steady = steady /\ history'.joined = history.joined
       /\ history'.left = history.left /\ history' \in History
  BY <1>2, <1>7, <1>8 DEF History
<1>11. PagesTypeOK'
  BY <1>1, <1>9, <1>10 DEF PagesTypeOK, Query
<1>12. /\ Listed' = Listed /\ Numbered'
       /\ \A x : Offset(x, Listed)' = Offset(x, Listed)
  BY <1>1 DEF Listed, In, Numbered, Offset
<1>13. WalkInv'
  BY <1>7, <1>9, <1>10, <1>12 DEF WalkInv
<1>14. Reached' = Reached + query.limit
  <2>1. walk.page * query.limit = Reached + query.limit
    BY <1>1, <1>4, RowsReached
  <2> QED BY <1>1, <1>9, <2>1 DEF Reached
<1> HIDE DEF steady
<1>15. \A x \in steady :
         /\ x \in Rows /\ Offset(x, Listed) \in Nat /\ walk.shown[x] \in Nat
         /\ walk.stage = "start" => walk.shown[x] = 0
         /\ walk.stage = "next" => x \in history.steady
  BY <1>1, <1>3, <1>7, OffsetFacts DEF steady, WalkInv
<1>16. ASSUME NEW x \in Again' PROVE x \in Again
  <2>1. x \in steady /\ Show(page)[x] > 0 /\ Offset(x, Listed) >= Reached + query.limit
    BY <1>9, <1>10, <1>12, <1>14 DEF Again
  <2>2. x \notin page /\ Offset(x, Listed) >= Reached
    BY <1>3, <1>4, <1>5, <1>7, <1>15, <2>1
  <2> QED BY <1>1, <1>6, <1>15, <2>1, <2>2 DEF Again
<1>17. ASSUME NEW x \in Repeated' PROVE x \in Again \cup Repeated
  <2>1. x \in steady /\ Show(page)[x] > 1
    BY <1>9, <1>10 DEF Repeated
  <2>2. walk.shown[x] > 0 /\ walk.stage = "next" /\ x \in history.steady
    BY <1>1, <1>6, <1>15, <2>1
  <2>3. CASE x \in page
    <3>1. Offset(x, Listed) >= Reached
      BY <1>4, <1>5, <1>7, <1>15, <2>1, <2>3
    <3> QED BY <2>2, <3>1 DEF Again
  <2>4. CASE x \notin page
    BY <1>6, <1>15, <2>1, <2>2, <2>4 DEF Repeated
  <2> QED BY <2>3, <2>4
<1>18. ASSUME NEW x \in Behind' PROVE x \in Behind
  <2>1. x \in steady /\ Show(page)[x] = 0 /\ Offset(x, Listed) < Reached + query.limit
    BY <1>9, <1>10, <1>12, <1>14 DEF Behind
  <2>2. x \notin page /\ walk.shown[x] = 0
    BY <1>6, <1>15, <2>1
  <2>3. Offset(x, Listed) < Reached
    BY <1>3, <1>4, <1>5, <1>7, <1>15, <2>1, <2>2
  <2>4. walk.stage = "next"
    <3>1. walk.stage = "start" => Reached = 0
      BY <1>1, <1>3, <1>4 DEF WalkInv, Skipped
    <3> QED BY <1>1, <1>15, <2>1, <2>3, <3>1
  <2> QED BY <1>15, <2>1, <2>2, <2>3, <2>4 DEF Behind
<1>19. /\ (Again \cup Repeated) \in SUBSET Rows /\ Behind \in SUBSET Rows
       /\ (Again \cup Repeated)' \in SUBSET (Again \cup Repeated) /\ Behind' \in SUBSET Behind
  BY <1>3, <1>16, <1>17, <1>18 DEF Again, Repeated, Behind
<1>20. /\ Cardinality((Again \cup Repeated)') <= Cardinality(Again \cup Repeated)
       /\ Cardinality(Behind') <= Cardinality(Behind)
       /\ Cardinality((Again \cup Repeated)') \in Nat /\ Cardinality(Behind') \in Nat
       /\ Cardinality(Again \cup Repeated) \in Nat /\ Cardinality(Behind) \in Nat
  BY <1>19, FiniteRows, FS_Subset
<1>21. NumberedInv'
  BY <1>1, <1>3, <1>9, <1>10, <1>20 DEF NumberedInv
<1> QED BY <1>11, <1>12, <1>13, <1>21 DEF PagesInv, CursorInv

LEMMA CountKept == ASSUME PagesInv, CountAuctions PROVE PagesInv'
<1> DEFINE more == HasNextPage(Cardinality(Listed))
           n == query.limit
           total == Cardinality(Listed)
<1>1. /\ PagesTypeOK /\ WalkInv /\ NumberedInv /\ Numbered /\ walk.stage = "count"
      /\ UNCHANGED <<key, status, query, history>>
  BY DEF PagesInv, CountAuctions, WalkInv
<1>2. walk' = IF more THEN [walk EXCEPT !.stage = "next", !.page = @ + 1]
              ELSE [walk EXCEPT !.stage = "done"]
  BY Zenon DEF CountAuctions
<1>3. /\ Keyed(key) /\ Listed \in SUBSET Rows /\ n \in Nat /\ n > 0
      /\ history.steady \in SUBSET Rows /\ walk.shown \in [Rows -> Nat]
      /\ walk.page \in Nat /\ 1 <= walk.page
  BY <1>1, PageTypes
<1>4. /\ total \in Nat /\ total <= Cardinality(Rows) /\ Cardinality(Rows) \in Nat
  <2>1. IsFiniteSet(Rows) /\ Cardinality(Rows) \in Nat /\ total \in Nat
    BY <1>3, FiniteRows
  <2> QED BY <1>3, <2>1, FS_Subset
<1>5. Reached \in Nat /\ Reached = walk.page * n
  BY <1>1, RowsReached DEF Reached
<1>6. more <=> Reached < total
  BY <1>5 DEF HasNextPage
<1>7. walk \in Walk
  BY <1>1 DEF PagesTypeOK
<1> HIDE DEF more
<1>8. more => walk.page + 1 \in 1 .. Cardinality(Rows)
  <2> SUFFICES ASSUME more PROVE walk.page + 1 \in 1 .. Cardinality(Rows)
    OBVIOUS
  <2>1. walk.page <= walk.page * n
    <3>1. PICK m \in Nat : n = m + 1
      BY <1>3, n - 1 \in Nat, n = (n - 1) + 1
    <3> HIDE DEF n
    <3>2. walk.page * n = walk.page * m + walk.page /\ walk.page * m \in Nat
      BY <1>3, <3>1
    <3> QED BY <1>3, <3>2
  <2> QED BY <1>3, <1>4, <1>5, <1>6, <2>1
<1>9. /\ walk' \in Walk
      /\ walk'.stage = (IF more THEN "next" ELSE "done")
      /\ walk'.page = (IF more THEN walk.page + 1 ELSE walk.page)
      /\ walk'.cursor = walk.cursor /\ walk'.shown = walk.shown
  BY <1>2, <1>7, <1>8 DEF Walk
<1>10. PagesTypeOK'
  BY <1>1, <1>9 DEF PagesTypeOK, Query, History
<1>11. /\ Listed' = Listed /\ Numbered'
       /\ \A x : Offset(x, Listed)' = Offset(x, Listed)
  BY <1>1 DEF Listed, In, Numbered, Offset
<1>12. WalkInv'
  BY <1>1, <1>9, <1>11 DEF WalkInv
<1>13. Reached' = Reached
  BY <1>1, <1>3, <1>5, <1>9 DEF Reached
<1>14. Again' = Again /\ Repeated' = Repeated /\ Behind' = Behind /\ Missed' = Missed
  BY <1>1, <1>9, <1>11, <1>13 DEF Again, Repeated, Behind, Missed
<1>15. ASSUME ~more PROVE Cardinality(Missed) <= Cardinality(Behind)
  <2>1. ASSUME NEW x \in Missed PROVE x \in Behind
    <3>1. x \in Listed /\ x \in history.steady /\ walk.shown[x] = 0
      BY <1>1 DEF Missed, WalkInv
    <3>2. Offset(x, Listed) \in Nat /\ Offset(x, Listed) < total
      <4>1. /\ Low(key, x, Listed) \in SUBSET Listed /\ x \notin Low(key, x, Listed)
        BY <1>3, <3>1 DEF Low, Keyed
      <4>2. IsFiniteSet(Listed) /\ Cardinality(Low(key, x, Listed)) \in Nat
        BY <1>3, <4>1, FiniteRows
      <4>3. /\ Cardinality(Low(key, x, Listed)) <= Cardinality(Listed)
            /\ Cardinality(Low(key, x, Listed)) # Cardinality(Listed)
        BY <3>1, <4>1, <4>2, FS_Subset
      <4> QED BY <1>4, <4>2, <4>3, OffsetIsLow
    <3>3. Offset(x, Listed) < Reached
      BY <1>4, <1>5, <1>6, <1>15, <3>2
    <3> QED BY <3>1, <3>3 DEF Behind
  <2>2. Missed \in SUBSET Behind /\ Behind \in SUBSET Rows
    BY <1>3, <2>1 DEF Behind
  <2> QED BY <2>2, FiniteRows, FS_Subset
<1>16. /\ Cardinality(Behind) \in Nat /\ Cardinality(Missed) \in Nat /\ history.left \in Nat
  <2>1. Behind \in SUBSET Rows /\ Missed \in SUBSET Rows
    BY <1>3 DEF Behind, Missed
  <2> QED BY <1>1, <2>1, FiniteRows, PageTypes
<1>17. NumberedInv'
  <2>1. Cardinality((Again \cup Repeated)') = Cardinality(Again \cup Repeated)
    BY <1>14
  <2> QED BY <1>1, <1>9, <1>14, <1>15, <1>16, <2>1 DEF NumberedInv
<1> QED BY <1>10, <1>11, <1>12, <1>17 DEF PagesInv, CursorInv

------------------------------------------------------------------------------
(* Changes of the list                                                        *)

LEMMA OneMore ==
  ASSUME NEW A \in SUBSET Rows, NEW U \in SUBSET Rows, \A x, y \in U : x = y,
         NEW B \in SUBSET (A \cup U)
  PROVE  Cardinality(B) <= Cardinality(A) + 1
<1>1. IsFiniteSet(A) /\ Cardinality(A) \in Nat
  BY FiniteRows
<1>2. CASE U = {}
  <2>1. B \in SUBSET A
    BY <1>2
  <2> QED BY <1>1, <2>1, FiniteRows, FS_Subset
<1>3. CASE U # {}
  <2>1. PICK u \in U : TRUE
    BY <1>3
  <2>2. B \in SUBSET (A \cup {u})
    BY <2>1
  <2>3. IsFiniteSet(A \cup {u}) /\ Cardinality(A \cup {u}) <= Cardinality(A) + 1
    BY <1>1, FS_AddElement
  <2>4. Cardinality(B) <= Cardinality(A \cup {u}) /\ Cardinality(B) \in Nat /\ Cardinality(A \cup {u}) \in Nat
    BY <2>2, <2>3, FiniteRows, FS_Subset, FS_CardinalityType
  <2> QED BY <1>1, <2>3, <2>4
<1> QED BY <1>2, <1>3

(* One row changes, and only a list with numbered pages can be sorted anew.   *)
OneRowChanges(row, table, moved) ==
  /\ Changed(row, table, moved)
  /\ table \in [Rows -> Statuses \cup {"ABSENT"}] /\ key' \in Injection(Rows, Keys)
  /\ \A x \in Rows \ {row} : table[x] = status[x] /\ key'[x] = key[x]
  /\ moved => Numbered
  /\ ~moved => key' = key
  /\ KeepsRows /\ ~Numbered /\ In(row, status) => In(row, table)

Joins(row, table, moved)  == In(row, table) /\ (moved \/ ~In(row, status))
Leaves(row, table, moved) == In(row, status) /\ (moved \/ ~In(row, table))

LEMMA ChangeFacts ==
  ASSUME PagesInv, NEW row \in Rows, NEW table, NEW moved \in BOOLEAN,
         OneRowChanges(row, table, moved)
  PROVE  /\ Walking /\ status' = table /\ query' = query /\ walk' = walk /\ Keyed(key')
         /\ PagesTypeOK' /\ WalkInv'
         /\ history'.steady = (IF moved \/ ~In(row, table) THEN history.steady \ {row}
                               ELSE history.steady)
         /\ history'.joined = history.joined + Count(Joins(row, table, moved))
         /\ history'.left = history.left + Count(Leaves(row, table, moved))
         /\ history'.lost = history.lost
         /\ \A x \in Rows : (x \in Listed') <=> In(x, table)
         /\ \A x \in Rows \ {row} : (x \in Listed') <=> (x \in Listed)
<1> DEFINE steady == IF moved \/ ~In(row, table) THEN history.steady \ {row} ELSE history.steady
<1>1. PagesTypeOK /\ WalkInv
  BY DEF PagesInv
<1>2. /\ Walking /\ history.changes < MaxChanges
      /\ status' = table /\ query' = query /\ walk' = walk
      /\ history' = [history EXCEPT
           !.changes = history.changes + 1,
           !.steady = steady,
           !.joined = history.joined + Count(Joins(row, table, moved)),
           !.left   = history.left + Count(Leaves(row, table, moved))]
  BY Zenon DEF OneRowChanges, Changed, Joins, Leaves
<1>3. /\ history.steady \in SUBSET Rows /\ history.changes \in Nat /\ MaxChanges \in Nat
      /\ history.joined \in Nat /\ history.left \in Nat /\ Keyed(key) /\ Listed \in SUBSET Rows
  BY <1>1, PageTypes, PageAssumption
<1>4. steady \in SUBSET Rows /\ steady \in SUBSET history.steady
  BY <1>3
<1>5. /\ history.joined + Count(Joins(row, table, moved)) \in Nat
      /\ history.left + Count(Leaves(row, table, moved)) \in Nat
      /\ history.changes + 1 \in 0 .. MaxChanges
  BY <1>2, <1>3 DEF Count
<1>6. history \in History
  BY <1>1 DEF PagesTypeOK
<1> HIDE DEF steady
<1>7. /\ history' \in History
      /\ history'.steady = steady /\ history'.lost = history.lost
      /\ history'.joined = history.joined + Count(Joins(row, table, moved))
      /\ history'.left = history.left + Count(Leaves(row, table, moved))
  BY <1>2, <1>4, <1>5, <1>6 DEF History
<1>8. PagesTypeOK'
  BY <1>1, <1>2, <1>7 DEF PagesTypeOK, Query, Walk, OneRowChanges
<1>9. Keyed(key')
  <2>1. key' \in [Rows -> Keys] /\ \A r, s \in Rows : key'[r] = key'[s] => r = s
    BY DEF OneRowChanges, Injection, IsInjective
  <2> QED BY <2>1, PageAssumption DEF Keyed
<1>10. \A x \in Rows : (x \in Listed') <=> In(x, table)
  BY <1>2 DEF Listed, In
<1>11. \A x \in Rows \ {row} : (x \in Listed') <=> (x \in Listed)
  BY <1>2, <1>10 DEF Listed, In, OneRowChanges
<1>12. steady \in SUBSET Listed'
  <2>1. history.steady \in SUBSET Listed
    BY <1>1, <1>2 DEF WalkInv, Walking
  <2> QED BY <1>3, <1>4, <1>10, <1>11, <2>1 DEF steady
<1>13. WalkInv'
  BY <1>1, <1>2, <1>7, <1>12 DEF WalkInv, Numbered
<1> QED BY <1>2, <1>7, <1>8, <1>9, <1>10, <1>11, <1>13 DEF steady

(* How far a steady row can be pushed.                                        *)
LEMMA OffsetsShift ==
  ASSUME PagesInv, NEW row \in Rows, NEW table, NEW moved \in BOOLEAN,
         OneRowChanges(row, table, moved), NEW x \in history'.steady
  PROVE  /\ x \in Rows /\ x \in history.steady /\ x \in Listed
         /\ Offset(x, Listed) \in Nat /\ Offset(x, Listed)' \in Nat
         /\ Offset(x, Listed)' <= Offset(x, Listed) + Count(Joins(row, table, moved))
         /\ Offset(x, Listed) <= Offset(x, Listed)' + Count(Leaves(row, table, moved))
<1> DEFINE low == Low(key, x, Listed)
           high == Low(key', x, Listed')
<1>1. PagesTypeOK /\ WalkInv
  BY DEF PagesInv
<1>2. /\ Walking /\ Keyed(key')
      /\ history'.steady = (IF moved \/ ~In(row, table) THEN history.steady \ {row}
                            ELSE history.steady)
      /\ \A y \in Rows : (y \in Listed') <=> In(y, table)
      /\ \A y \in Rows \ {row} : (y \in Listed') <=> (y \in Listed)
  BY ChangeFacts
<1>3. x \in history.steady /\ x \in Listed /\ x \in Rows
  <2>1. history.steady \in SUBSET Listed /\ Listed \in SUBSET Rows
    BY <1>1, <1>2, PageTypes DEF WalkInv, Walking
  <2> QED BY <1>2, <2>1
<1>4. /\ \A y \in Rows \ {row} : key'[y] = key[y]
      /\ ~moved => key' = key
  BY DEF OneRowChanges
<1>5. key'[x] = key[x]
  BY <1>2, <1>3, <1>4
<1>6. row \in Listed <=> In(row, status)
  BY DEF Listed
<1>7. Listed \in SUBSET Rows /\ Listed' \in SUBSET Rows
  BY DEF Listed
<1>8. low \in SUBSET Rows /\ high \in SUBSET Rows
  BY <1>7 DEF Low
<1>9. /\ \A y \in high : y \in low \/ (y = row /\ Joins(row, table, moved))
      /\ \A y \in low : y \in high \/ (y = row /\ Leaves(row, table, moved))
  <2>1. ASSUME NEW y \in Rows, y # row PROVE y \in high <=> y \in low
    BY <1>2, <1>4, <1>5, <2>1 DEF Low
  <2>2. row \in high => row \in low \/ Joins(row, table, moved)
    BY <1>2, <1>4, <1>5, <1>6 DEF Low, Joins
  <2>3. row \in low => row \in high \/ Leaves(row, table, moved)
    BY <1>2, <1>4, <1>5, <1>6 DEF Low, Leaves
  <2> QED BY <1>8, <2>1, <2>2, <2>3
<1>10. Offset(x, Listed) = Cardinality(low) /\ Offset(x, Listed)' = Cardinality(high)
  BY DEF Offset, Low
<1> HIDE DEF low, high
<1>11. Cardinality(low) \in Nat /\ Cardinality(high) \in Nat /\ IsFiniteSet(low) /\ IsFiniteSet(high)
  BY <1>8, FiniteRows
<1>12. {row} \in SUBSET Rows /\ \A y, z \in {row} : y = z
  OBVIOUS
<1>13. Cardinality(high) <= Cardinality(low) + Count(Joins(row, table, moved))
  <2>1. CASE Joins(row, table, moved)
    <3>1. high \in SUBSET (low \cup {row})
      BY <1>9
    <3>2. Cardinality(high) <= Cardinality(low) + 1
      BY <1>8, <1>12, <3>1, OneMore
    <3> QED BY <2>1, <3>2 DEF Count
  <2>2. CASE ~Joins(row, table, moved)
    <3>1. high \in SUBSET low
      BY <1>9, <2>2
    <3>2. Cardinality(high) <= Cardinality(low)
      BY <1>11, <3>1, FS_Subset
    <3> QED BY <1>11, <2>2, <3>2 DEF Count
  <2> QED BY <2>1, <2>2
<1>14. Cardinality(low) <= Cardinality(high) + Count(Leaves(row, table, moved))
  <2>1. CASE Leaves(row, table, moved)
    <3>1. low \in SUBSET (high \cup {row})
      BY <1>9
    <3>2. Cardinality(low) <= Cardinality(high) + 1
      BY <1>8, <1>12, <3>1, OneMore
    <3> QED BY <2>1, <3>2 DEF Count
  <2>2. CASE ~Leaves(row, table, moved)
    <3>1. low \in SUBSET high
      BY <1>9, <2>2
    <3>2. Cardinality(low) <= Cardinality(high)
      BY <1>11, <3>1, FS_Subset
    <3> QED BY <1>11, <2>2, <3>2 DEF Count
  <2> QED BY <2>1, <2>2
<1> QED BY <1>3, <1>10, <1>11, <1>13, <1>14

(* A row that enters in front of the client's place pushes one shown row      *)
(* beyond it, a row that goes pulls one row back, which is then not shown.    *)
LEMMA NumberedChangeKept ==
  ASSUME PagesInv, NEW row \in Rows, NEW table, NEW moved \in BOOLEAN,
         OneRowChanges(row, table, moved)
  PROVE  NumberedInv'
<1>1. PagesTypeOK /\ WalkInv /\ NumberedInv
  BY DEF PagesInv
<1>2. /\ Walking /\ query' = query /\ walk' = walk /\ Keyed(key')
      /\ history'.joined = history.joined + Count(Joins(row, table, moved))
      /\ history'.left = history.left + Count(Leaves(row, table, moved))
  BY ChangeFacts
<1>3. /\ Keyed(key) /\ Listed \in SUBSET Rows /\ history.steady \in SUBSET Rows
      /\ walk.shown \in [Rows -> Nat] /\ history.joined \in Nat /\ history.left \in Nat
  BY <1>1, PageTypes
<1>4. Reached' = Reached /\ Reached \in Nat
  <2>1. Reached' = Reached
    BY <1>2 DEF Reached
  <2> QED BY <1>1, <2>1, RowsReached
<1>5. ASSUME NEW x \in history'.steady
      PROVE  /\ x \in Rows /\ x \in history.steady /\ x \in Listed
             /\ Offset(x, Listed) \in Nat /\ Offset(x, Listed)' \in Nat
             /\ Offset(x, Listed)' <= Offset(x, Listed) + Count(Joins(row, table, moved))
             /\ Offset(x, Listed) <= Offset(x, Listed)' + Count(Leaves(row, table, moved))
  BY OffsetsShift
<1> DEFINE pushed == {x \in Listed : Offset(x, Listed) + 1 = Reached}
           pulled == {x \in Listed : Offset(x, Listed) = Reached}
<1>6. /\ pushed \in SUBSET Rows /\ pulled \in SUBSET Rows
      /\ \A x, y \in pushed : x = y
      /\ \A x, y \in pulled : x = y
  <2>1. pushed \in SUBSET Rows /\ pulled \in SUBSET Rows
    BY <1>3
  <2>2. \A x \in Listed : Offset(x, Listed) \in Nat
    BY <1>3, OffsetFacts
  <2>3. ASSUME NEW x \in Listed, NEW y \in Listed, Offset(x, Listed) = Offset(y, Listed)
        PROVE  x = y
    BY <1>3, <2>3, OffsetFacts
  <2>4. \A x, y \in pushed : x = y
    BY <1>4, <2>2, <2>3
  <2>5. \A x, y \in pulled : x = y
    BY <2>3
  <2> QED BY <2>1, <2>4, <2>5
<1>7. ASSUME NEW x \in Again'
      PROVE  x \in Again \/ (x \in pushed /\ Joins(row, table, moved))
  <2>1. x \in history'.steady /\ walk.shown[x] > 0 /\ Offset(x, Listed)' >= Reached
    BY <1>2, <1>4 DEF Again
  <2>2. /\ x \in history.steady /\ x \in Listed
        /\ Offset(x, Listed) \in Nat /\ Offset(x, Listed)' \in Nat
        /\ Offset(x, Listed)' <= Offset(x, Listed) + Count(Joins(row, table, moved))
    BY <1>5, <2>1
  <2>3. CASE Offset(x, Listed) >= Reached
    BY <2>1, <2>2, <2>3 DEF Again
  <2>4. CASE ~(Offset(x, Listed) >= Reached)
    BY <1>4, <2>1, <2>2, <2>4 DEF Count
  <2> QED BY <2>3, <2>4
<1>8. ASSUME NEW x \in Behind'
      PROVE  x \in Behind \/ (x \in pulled /\ Leaves(row, table, moved))
  <2>1. x \in history'.steady /\ walk.shown[x] = 0 /\ Offset(x, Listed)' < Reached
    BY <1>2, <1>4 DEF Behind
  <2>2. /\ x \in history.steady /\ x \in Listed
        /\ Offset(x, Listed) \in Nat /\ Offset(x, Listed)' \in Nat
        /\ Offset(x, Listed) <= Offset(x, Listed)' + Count(Leaves(row, table, moved))
    BY <1>5, <2>1
  <2>3. CASE Offset(x, Listed) < Reached
    BY <2>1, <2>2, <2>3 DEF Behind
  <2>4. CASE ~(Offset(x, Listed) < Reached)
    BY <1>4, <2>1, <2>2, <2>4 DEF Count
  <2> QED BY <2>3, <2>4
<1>9. Repeated' \in SUBSET Repeated
  BY <1>2, <1>5 DEF Repeated
<1> DEFINE shown == Again \cup Repeated
<1>10. /\ shown \in SUBSET Rows /\ shown' \in SUBSET Rows
       /\ Behind \in SUBSET Rows /\ Behind' \in SUBSET Rows
  BY <1>3, <1>5 DEF Again, Repeated, Behind
<1>11. \A x \in shown' : x \in shown \/ (x \in pushed /\ Joins(row, table, moved))
  BY <1>7, <1>9
<1>12. /\ Cardinality(shown) \in Nat /\ Cardinality(shown') \in Nat /\ IsFiniteSet(shown)
       /\ Cardinality(Behind) \in Nat /\ Cardinality(Behind') \in Nat /\ IsFiniteSet(Behind)
  BY <1>10, FiniteRows
<1> HIDE DEF shown, pushed, pulled
<1>13. Cardinality(shown') <= Cardinality(shown) + Count(Joins(row, table, moved))
  <2>1. CASE Joins(row, table, moved)
    <3>1. shown' \in SUBSET (shown \cup pushed)
      BY <1>11
    <3>2. Cardinality(shown') <= Cardinality(shown) + 1
      BY <1>6, <1>10, <3>1, OneMore
    <3> QED BY <2>1, <3>2 DEF Count
  <2>2. CASE ~Joins(row, table, moved)
    <3>1. shown' \in SUBSET shown
      BY <1>11, <2>2
    <3>2. Cardinality(shown') <= Cardinality(shown)
      BY <1>12, <3>1, FS_Subset
    <3> QED BY <1>12, <2>2, <3>2 DEF Count
  <2> QED BY <2>1, <2>2
<1>14. Cardinality(Behind') <= Cardinality(Behind) + Count(Leaves(row, table, moved))
  <2>1. CASE Leaves(row, table, moved)
    <3>1. Behind' \in SUBSET (Behind \cup pulled)
      BY <1>8
    <3>2. Cardinality(Behind') <= Cardinality(Behind) + 1
      BY <1>6, <1>10, <3>1, OneMore
    <3> QED BY <2>1, <3>2 DEF Count
  <2>2. CASE ~Leaves(row, table, moved)
    <3>1. Behind' \in SUBSET Behind
      BY <1>8, <2>2
    <3>2. Cardinality(Behind') <= Cardinality(Behind)
      BY <1>12, <3>1, FS_Subset
    <3> QED BY <1>12, <2>2, <3>2 DEF Count
  <2> QED BY <2>1, <2>2
<1>15. (Numbered' <=> Numbered) /\ walk'.stage # "done"
  BY <1>2 DEF Numbered, Walking
<1>16. ASSUME Numbered
       PROVE  Cardinality(shown') <= history'.joined /\ Cardinality(Behind') <= history'.left
  <2>1. Cardinality(shown) <= history.joined /\ Cardinality(Behind) <= history.left
    BY <1>1, <1>16 DEF NumberedInv, shown
  <2>2. Count(Joins(row, table, moved)) \in Nat /\ Count(Leaves(row, table, moved)) \in Nat
    BY DEF Count
  <2> QED BY <1>2, <1>3, <1>12, <1>13, <1>14, <2>1, <2>2
<1>17. shown' = (Again \cup Repeated)'
  BY DEF shown
<1> QED BY <1>15, <1>16, <1>17 DEF NumberedInv

(* A list with a cursor keeps its keys, and rows only leave the steady ones.  *)
LEMMA CursorChangeKept ==
  ASSUME PagesInv, NEW row \in Rows, NEW table, NEW moved \in BOOLEAN,
         OneRowChanges(row, table, moved)
  PROVE  CursorInv'
<1>1. /\ Walking /\ query' = query /\ walk' = walk /\ history'.lost = history.lost
      /\ \A x \in Rows : (x \in Listed') <=> In(x, table)
      /\ \A x \in Rows \ {row} : (x \in Listed') <=> (x \in Listed)
  BY ChangeFacts
<1>2. (Numbered' <=> Numbered) /\ (KeepsRows' <=> KeepsRows)
  BY <1>1 DEF Numbered, KeepsRows
<1> SUFFICES ASSUME ~Numbered PROVE CursorInv'
  BY <1>2 DEF CursorInv
<1>3. /\ PagesTypeOK /\ WalkInv /\ CursorInv /\ walk.stage = "next"
      /\ (\A x \in Rows : walk.shown[x] <= 1)
      /\ CursorAhead /\ Cardinality(Passed) <= history.lost
  BY <1>1 DEF PagesInv, CursorInv, WalkInv, Walking
<1>4. key' = key
  BY DEF OneRowChanges
<1>5. CursorAhead'
  BY <1>1, <1>3, <1>4 DEF CursorAhead
<1>6. history'.steady \in SUBSET history.steady
  BY OffsetsShift
<1>7. Cardinality(Passed') <= history.lost
  <2>1. Passed' \in SUBSET Passed /\ Passed \in SUBSET Rows
    <3>1. history.steady \in SUBSET Rows
      BY <1>3, PageTypes
    <3> QED BY <1>1, <1>4, <1>6, <3>1 DEF Passed
  <2>2. Cardinality(Passed') <= Cardinality(Passed)
    BY <2>1, FiniteRows, FS_Subset
  <2>3. Cardinality(Passed) \in Nat /\ Cardinality(Passed') \in Nat /\ history.lost \in Nat
    BY <1>3, <2>1, FiniteRows, PageTypes
  <2> QED BY <1>3, <2>2, <2>3
<1>8. ASSUME KeepsRows
      PROVE  /\ history.lost = 0 /\ In(walk.cursor, status)'
             /\ \E x \in Listed' : key'[walk'.cursor] < key'[x]
  <2>1. /\ history.lost = 0 /\ walk.cursor \in Rows /\ In(walk.cursor, status)
        /\ \E x \in Listed : key[walk.cursor] < key[x]
    BY <1>3, <1>8 DEF CursorInv, CursorAhead
  <2>2. In(row, status) => In(row, table)
    BY <1>8 DEF OneRowChanges
  <2>3. Listed \in SUBSET Listed'
    BY <1>1, <2>2 DEF Listed
  <2>4. walk.cursor \in Listed'
    BY <2>1, <2>3 DEF Listed
  <2>5. In(walk.cursor, status)'
    BY <1>1, <2>4 DEF Listed, In
  <2> QED BY <1>1, <1>4, <2>1, <2>3, <2>5
<1>9. walk'.stage = "next" /\ walk'.shown = walk.shown
  BY <1>1, <1>3
<1> QED BY <1>1, <1>2, <1>3, <1>5, <1>7, <1>8, <1>9 DEF CursorInv

LEMMA ChangeKept ==
  ASSUME PagesInv, NEW row \in Rows, NEW table, NEW moved \in BOOLEAN,
         OneRowChanges(row, table, moved)
  PROVE  PagesInv'
<1>1. PagesTypeOK' /\ WalkInv'
  BY ChangeFacts
<1> QED BY <1>1, CursorChangeKept, NumberedChangeKept DEF PagesInv

LEMMA StatusChangeKept ==
  ASSUME PagesInv, NEW row \in Rows, NEW s \in Statuses, UNCHANGED key,
         Changed(row, [status EXCEPT ![row] = s], FALSE),
         KeepsRows /\ In(row, status) => query.filter = "ANY"
  PROVE  PagesInv'
<1>1. PICK table : table = [status EXCEPT ![row] = s]
  OBVIOUS
<1>2. Changed(row, table, FALSE)
  BY <1>1
<1>3. key \in Injection(Rows, Keys) /\ status \in [Rows -> Statuses \cup {"ABSENT"}]
  BY DEF PagesInv, PagesTypeOK
<1>4. /\ table \in [Rows -> Statuses \cup {"ABSENT"}]
      /\ \A x \in Rows \ {row} : table[x] = status[x]
      /\ table[row] = s /\ s # "ABSENT"
  BY <1>1, <1>3 DEF Statuses
<1>5. KeepsRows /\ ~Numbered /\ In(row, status) => In(row, table)
  BY <1>4 DEF In
<1>6. OneRowChanges(row, table, FALSE)
  BY <1>2, <1>3, <1>4, <1>5 DEF OneRowChanges
<1> QED BY <1>6, ChangeKept

LEMMA InsertKept == ASSUME PagesInv, NEW row \in Rows, Insert(row) PROVE PagesInv'
<1>1. PICK s \in {"SCHEDULED", "LIVE"} :
        /\ status[row] = "ABSENT" /\ Changed(row, [status EXCEPT ![row] = s], FALSE)
        /\ UNCHANGED key
  BY DEF Insert
<1>2. s \in Statuses /\ ~In(row, status)
  BY <1>1 DEF Statuses, In
<1> QED BY <1>1, <1>2, StatusChangeKept

(* An auction does not leave ENDED or CANCELLED.                              *)
LEMMA ChangeStatusKept == ASSUME PagesInv, NEW row \in Rows, ChangeStatus(row) PROVE PagesInv'
<1>1. PICK s \in Statuses :
        /\ query.filter # "ANY" /\ <<status[row], s>> \in Edges
        /\ Changed(row, [status EXCEPT ![row] = s], FALSE) /\ UNCHANGED key
  BY DEF ChangeStatus
<1>2. ~(KeepsRows /\ In(row, status))
  BY <1>1 DEF KeepsRows, In, Edges
<1> QED BY <1>1, <1>2, StatusChangeKept

LEMMA MoveKept == ASSUME PagesInv, NEW row \in Rows, Move(row) PROVE PagesInv'
<1>1. PICK k \in Keys \ Range(key) :
        /\ query.resorted /\ key' = [key EXCEPT ![row] = k] /\ Changed(row, status, TRUE)
  BY DEF Move
<1>2. PICK table : table = status
  OBVIOUS
<1>3. Changed(row, table, TRUE)
  BY <1>1, <1>2
<1>4. key \in Injection(Rows, Keys) /\ table \in [Rows -> Statuses \cup {"ABSENT"}] /\ Numbered
  BY <1>1, <1>2, PageTypes DEF PagesInv, PagesTypeOK
<1>5. key \in [Rows -> Keys] /\ \A r, x \in Rows : key[r] = key[x] => r = x
  BY <1>4 DEF Injection, IsInjective
<1>6. \A x \in Rows : key[x] # k
  BY <1>1, <1>5 DEF Range
<1>7. /\ key' \in [Rows -> Keys]
      /\ \A x \in Rows : key'[x] = IF x = row THEN k ELSE key[x]
  BY <1>1, <1>5
<1>8. key' \in Injection(Rows, Keys)
  <2>1. \A r, x \in Rows : key'[r] = key'[x] => r = x
    BY <1>5, <1>6, <1>7
  <2> QED BY <1>7, <2>1 DEF Injection, IsInjective
<1>9. OneRowChanges(row, table, TRUE)
  BY <1>2, <1>3, <1>4, <1>7, <1>8 DEF OneRowChanges
<1> QED BY <1>9, ChangeKept

LEMMA PagesInitial == PagesInit => PagesInv
<1> SUFFICES ASSUME PagesInit PROVE PagesInv
  OBVIOUS
<1>1. IsFiniteSet(Rows) /\ Cardinality(Rows) \in Nat /\ Cardinality(Rows) # 0
  BY PageAssumption, FiniteRows, FS_EmptySet
<1>2. /\ walk = [stage |-> "start", cursor |-> NoRow, page |-> 1, shown |-> [row \in Rows |-> 0]]
      /\ history = [steady |-> Rows, changes |-> 0, joined |-> 0, left |-> 0, lost |-> 0]
  BY DEF PagesInit
<1>3. 1 \in 1 .. Cardinality(Rows) /\ 0 \in 0 .. MaxChanges
  BY <1>1, PageAssumption
<1>4. walk \in Walk /\ history \in History
  BY <1>2, <1>3 DEF Walk, History
<1>5. PagesTypeOK
  BY <1>4 DEF PagesInit, PagesTypeOK
<1>6. WalkInv /\ CursorInv
  BY <1>2 DEF WalkInv, CursorInv
<1>7. Again = {} /\ Repeated = {}
  BY <1>2 DEF Again, Repeated
<1>8. Behind = {}
  <2>1. Reached = 0
    <3>1. Skipped = 0
      <4>1. walk.page = 1 /\ query.limit \in Nat
        BY <1>2, <1>5, PageTypes
      <4> QED BY <4>1 DEF Skipped
    <3> QED BY <1>2, <1>5, <3>1, RowsReached
  <2>2. \A x \in Rows : Offset(x, Listed) \in Nat
    BY <1>5, PageTypes, OffsetFacts
  <2> QED BY <1>2, <2>1, <2>2 DEF Behind
<1>9. NumberedInv
  <2>1. Again \cup Repeated = {}
    BY <1>7
  <2>2. Cardinality({}) = 0
    BY FS_EmptySet
  <2>3. Cardinality(Again \cup Repeated) = 0 /\ Cardinality(Behind) = 0
    BY <1>8, <2>1, <2>2, Zenon
  <2> QED BY <1>2, <2>3 DEF NumberedInv
<1> QED BY <1>5, <1>6, <1>9 DEF PagesInv

LEMMA PagesUnchanged == ASSUME PagesInv, UNCHANGED pageVars PROVE PagesInv'
<1>1. /\ key' = key /\ status' = status /\ query' = query /\ walk' = walk /\ history' = history
      /\ Listed' = Listed
  BY DEF pageVars, Listed, In
<1>2. \A x : Offset(x, Listed)' = Offset(x, Listed)
  BY <1>1 DEF Offset
<1>3. PagesTypeOK' /\ WalkInv' /\ CursorInv'
  BY <1>1 DEF PagesInv, PagesTypeOK, Query, Walk, History, WalkInv, CursorInv, CursorAhead, Passed,
              Missed, KeepsRows, Numbered, In
<1>4. Again' = Again /\ Repeated' = Repeated /\ Behind' = Behind /\ Missed' = Missed
  BY <1>1, <1>2 DEF Again, Repeated, Behind, Missed, Reached
<1>5. NumberedInv'
  BY <1>1, <1>4 DEF PagesInv, NumberedInv, Numbered
<1> QED BY <1>3, <1>5 DEF PagesInv

LEMMA PagesInvariant == PagesSpec => []PagesInv
<1>1. ASSUME PagesInv, [PagesNext]_pageVars PROVE PagesInv'
  <2>1. CASE CursorPage
    BY <1>1, <2>1, CursorPageKept
  <2>2. CASE FindAuctions
    BY <1>1, <2>2, NumberedPageKept
  <2>3. CASE CountAuctions
    BY <1>1, <2>3, CountKept
  <2>4. ASSUME NEW row \in Rows, Insert(row) PROVE PagesInv'
    BY <1>1, <2>4, InsertKept
  <2>5. ASSUME NEW row \in Rows, ChangeStatus(row) PROVE PagesInv'
    BY <1>1, <2>5, ChangeStatusKept
  <2>6. ASSUME NEW row \in Rows, Move(row) PROVE PagesInv'
    BY <1>1, <2>6, MoveKept
  <2>7. CASE UNCHANGED pageVars
    BY <1>1, <2>7, PagesUnchanged
  <2> QED BY <1>1, <2>1, <2>2, <2>3, <2>4, <2>5, <2>6, <2>7 DEF PagesNext
<1> QED BY PagesInitial, <1>1, PTL DEF PagesSpec

(* Every state of a walk through a list has its type, and no two rows share a  *)
(* place (findMany's ORDER BY ends in the unique id).                          *)
THEOREM PagesTypeCorrect == PagesSpec => []PagesTypeOK
<1>1. PagesInv => PagesTypeOK
  BY DEF PagesInv
<1> QED BY <1>1, PagesInvariant, PTL

(* findSellerAuctions, findUserBids, findUserWonAuctions: for lists and pages  *)
(* of any size and any number of changes between two pages, no row is shown    *)
(* twice; a row that never left the list is missed only for a page that was    *)
(* asked for after a row that had; a list that no row leaves is shown          *)
(* completely, and there hasMore is kept.                                      *)
THEOREM CursorPagesAlwaysExact == PagesSpec => []CursorPagesAreExact
<1>1. ASSUME PagesInv PROVE CursorPagesAreExact
  <2> SUFFICES ASSUME ~Numbered PROVE CursorPagesAreExact
    BY DEF CursorPagesAreExact
  <2>1. PagesTypeOK /\ CursorInv
    BY <1>1 DEF PagesInv
  <2>2. /\ Keyed(key) /\ Listed \in SUBSET Rows /\ query.limit \in Nat /\ query.limit > 0
        /\ history.steady \in SUBSET Rows
    BY <2>1, PageTypes
  <2>3. /\ \A row \in Rows : walk.shown[row] <= 1
        /\ walk.stage = "done" => Cardinality(Missed) <= history.lost
    BY <2>1 DEF CursorInv
  <2>4. ASSUME KeepsRows, walk.stage = "done" PROVE Missed = {}
    <3>1. Cardinality(Missed) <= 0
      BY <2>1, <2>4 DEF CursorInv
    <3>2. Missed \in SUBSET Rows
      BY <2>2 DEF Missed
    <3> QED BY <3>1, <3>2, FiniteRows, FS_EmptySet
  <2>5. ASSUME KeepsRows, walk.stage = "next" PROVE FindAfter(walk.cursor) # {}
    <3> DEFINE S == From(walk.cursor)
    <3>1. walk.cursor \in Rows /\ walk.cursor # NoRow /\ In(walk.cursor, status)
      BY <2>1, <2>5, PageAssumption DEF CursorInv, CursorAhead
    <3>2. PICK row \in Listed : key[walk.cursor] < key[row]
      BY <2>1, <2>5 DEF CursorInv
    <3>3. S \in SUBSET Rows /\ walk.cursor \in S /\ row \in S
      BY <2>2, <3>1, <3>2 DEF From, Listed, Keyed
    <3>4. /\ Offset(walk.cursor, S) < Offset(row, S)
          /\ Offset(walk.cursor, S) \in Nat /\ Offset(row, S) \in Nat
      BY <2>2, <3>1, <3>2, <3>3, OffsetFacts
    <3> DEFINE rows == Slice(S, 1, query.limit + 1)
    <3>5. FindAfter(walk.cursor) = rows
      BY <3>1 DEF FindAfter
    <3> HIDE DEF S
    <3>6. \A x \in S : x \in rows <=> 1 <= Offset(x, S) /\ Offset(x, S) < 1 + (query.limit + 1)
      BY <2>2, <3>3, SliceFacts, 1 \in Nat, query.limit + 1 \in Nat
    <3>7. rows # {}
      <4>1. CASE Offset(row, S) < 1 + (query.limit + 1)
        BY <3>3, <3>4, <3>6, <4>1
      <4>2. CASE ~(Offset(row, S) < 1 + (query.limit + 1))
        <5>1. query.limit + 1 \in Nat /\ Offset(row, S) >= 1 + (query.limit + 1)
          BY <2>2, <3>4, <4>2
        <5>2. Cardinality(rows) >= query.limit + 1
          BY <2>2, <3>3, <5>1, SliceIsFull, 1 \in Nat
        <5> QED BY <2>2, <5>2, FS_EmptySet
      <4> QED BY <4>1, <4>2
    <3> QED BY <3>5, <3>7
  <2> QED BY <2>3, <2>4, <2>5 DEF CursorPagesAreExact
<1> QED BY <1>1, PagesInvariant, PTL

(* findAuctions, getAuctionsService: for lists and pages of any size, a walk   *)
(* by page numbers shows again at most one row for each row that came to a     *)
(* place in the list, and misses at most one for each row that left one.       *)
THEOREM NumberedPagesCostOneRowPerChange == PagesSpec => []PageNumbersCostOneRowPerChange
<1>1. ASSUME PagesInv PROVE PageNumbersCostOneRowPerChange
  <2> SUFFICES ASSUME Numbered PROVE PageNumbersCostOneRowPerChange
    BY DEF PageNumbersCostOneRowPerChange
  <2>1. /\ Cardinality(Again \cup Repeated) <= history.joined
        /\ walk.stage = "done" => Cardinality(Missed) <= history.left
    BY <1>1 DEF PagesInv, NumberedInv
  <2>2. /\ Again \cup Repeated \in SUBSET Rows /\ Repeated \in SUBSET (Again \cup Repeated)
        /\ history.joined \in Nat
    BY <1>1, PageTypes DEF PagesInv, Again, Repeated
  <2>3. /\ Cardinality(Repeated) <= Cardinality(Again \cup Repeated)
        /\ Cardinality(Repeated) \in Nat /\ Cardinality(Again \cup Repeated) \in Nat
    BY <2>2, FiniteRows, FS_Subset
  <2> QED BY <2>1, <2>2, <2>3 DEF PageNumbersCostOneRowPerChange
<1> QED BY <1>1, PagesInvariant, PTL
==============================================================================
