------------------------------ MODULE BidAmount ------------------------------
(* packages/auction/src/services/bid-amount.service.ts: amounts of money are  *)
(* decimal strings that are compared and added as integers of a common scale. *)
(* A string is its digits without the point and the number of them after the  *)
(* point. placeBid runs these functions on the stored price, which a          *)
(* Prisma.Decimal has turned into a string, under the row lock of             *)
(* AuctionStore: a bid is one step here.                                      *)
EXTENDS Integers, FiniteSetsExt

CONSTANTS
  Prices, Increments,  \* what createAuctionSchema lets a seller set
  Amounts,             \* what bidSchema lets a bidder send
  ToExpPos, ToExpNeg,  \* exponents at which a Prisma.Decimal is written in
                       \* scientific notation: 21 and 7
  Finest               \* the longest scale among the strings

Decimal == [digits: Nat, scale: 0 .. Finest]

ASSUME AmountsAssumption ==
  /\ Finest \in Nat /\ ToExpPos \in Nat \ {0} /\ ToExpNeg \in Nat \ {0}
  /\ \A d \in Prices \cup Increments \cup Amounts : d \in Decimal /\ d.digits > 0

VARIABLES currentPrice, bidIncrement,  \* columns of the auction
          answer                       \* how the last bid was answered
vars == <<currentPrice, bidIncrement, answer>>

------------------------------------------------------------------------------
(* bid-amount.service.ts *)

(* What appending n zeros multiplies an integer by. *)
Ten[n \in Nat] == IF n = 0 THEN 1 ELSE 10 * Ten[n - 1]

Longer(m, n) == IF m > n THEN m ELSE n
DecimalScale(value) == value.scale

FaultyToScaledInteger(value, scale) == value.digits       \* no padEnd
ToScaledInteger(value, scale) == value.digits * Ten[scale - value.scale]

(* The shortest way to write the integer: zeros at the end of the fraction    *)
(* are dropped, those of the whole part are not.                             *)
FaultyFromScaledInteger(value, scale) ==                  \* drops one zero only
  IF scale > 0 /\ value % 10 = 0 THEN [digits |-> value \div 10, scale |-> scale - 1]
  ELSE [digits |-> value, scale |-> scale]
FromScaledInteger(value, scale) ==
  LET kept == Min({k \in 0 .. scale : value % Ten[scale - k] = 0}) IN
  [digits |-> value \div Ten[scale - kept], scale |-> kept]

CalculateMinimumBid(price, increment) ==
  LET scale == Longer(DecimalScale(price), DecimalScale(increment)) IN
  FromScaledInteger(ToScaledInteger(price, scale) + ToScaledInteger(increment, scale), scale)

FaultyMeetsMinimumBid(amount, minimum) ==                 \* at the scale of the minimum
  LET scale == DecimalScale(minimum) IN
  IF DecimalScale(amount) > scale
  THEN amount.digits >= minimum.digits
  ELSE ToScaledInteger(amount, scale) >= minimum.digits
MeetsMinimumBid(amount, minimum) ==
  LET scale == Longer(DecimalScale(amount), DecimalScale(minimum)) IN
  ToScaledInteger(amount, scale) >= ToScaledInteger(minimum, scale)

------------------------------------------------------------------------------
(* Prisma.Decimal: a value is kept in its shortest form, and toString writes  *)
(* a very large or very small one as 1e+21 or 1e-7, which BigInt rejects.     *)
Stored(value) == FromScaledInteger(value.digits, value.scale)
Readable(d) ==
  /\ d.digits < Ten[ToExpPos + d.scale]
  /\ d.digits * Ten[ToExpNeg - 1] >= Ten[d.scale]

Init ==
  \E price \in Prices, increment \in Increments :
    /\ currentPrice = Stored(price)
    /\ bidIncrement = Stored(increment)
    /\ answer = "none"

(* placeBid, after the row was locked and its status checked. *)
CanRead == Readable(currentPrice) /\ Readable(bidIncrement)
MinimumBid == CalculateMinimumBid(currentPrice, bidIncrement)

PlaceBid(amount) ==
  /\ CanRead /\ MeetsMinimumBid(amount, MinimumBid)
  /\ currentPrice' = Stored(amount)
  /\ answer' = "placed"
  /\ UNCHANGED bidIncrement

RejectBid(amount) ==
  /\ CanRead /\ ~MeetsMinimumBid(amount, MinimumBid)
  /\ answer' = "too low"
  /\ UNCHANGED <<currentPrice, bidIncrement>>

BidThrows ==
  /\ ~CanRead
  /\ answer' = "error"
  /\ UNCHANGED <<currentPrice, bidIncrement>>

Next == BidThrows \/ \E amount \in Amounts : PlaceBid(amount) \/ RejectBid(amount)
Spec == Init /\ [][Next]_vars
------------------------------------------------------------------------------
(* What a string is worth, in units of the finest scale of all: no string is  *)
(* rounded, so this is exact.                                                *)
Worth(d) == d.digits * Ten[Finest - d.scale]
LeastRaise == Worth(currentPrice) + Worth(bidIncrement)

Shortest(d) == d.scale > 0 => d.digits % 10 # 0

(* Every variable has its type; what is stored is in its shortest form. *)
TypeOK ==
  /\ currentPrice \in Decimal /\ bidIncrement \in Decimal
  /\ Shortest(currentPrice) /\ Shortest(bidIncrement)
  /\ answer \in {"none", "placed", "too low", "error"}

(* calculateMinimumBid, meetsMinimumBid, fromScaledInteger: whatever the       *)
(* scales of price, increment and amount, the minimum that a refused bidder  *)
(* is told is worth exactly price and increment together and written in its  *)
(* shortest form, and a bid is refused exactly when it is worth less.        *)
MinimumIsExact ==
  CanRead =>
    /\ Worth(MinimumBid) = LeastRaise /\ Shortest(MinimumBid)
    /\ \A amount \in Amounts :
         MeetsMinimumBid(amount, MinimumBid) <=> Worth(amount) >= LeastRaise

(* placeBid: from one stored price to the next the raise is never less than   *)
(* the increment, through all conversions.                                   *)
RaisesAreExact ==
  [][currentPrice' # currentPrice => Worth(currentPrice') >= LeastRaise]_vars
==============================================================================
