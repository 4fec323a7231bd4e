---------------------------- MODULE OrderSizing -----------------------------
(***************************************************************************)
(* How the money manager sizes an order: the expected value it asks for,   *)
(* the share of the balance it allocates, the shares that buys, and the    *)
(* amounts it signs.                                                       *)
(*                                                                         *)
(* Source: moneymanager/pkg/risk and moneymanager/internal/signer/amounts. *)
(* Decimals are integers here: prices and probabilities in units of        *)
(* 1/PriceUnit, sizes in hundredths of a share, money in micro-USDC.       *)
(* shopspring's division is exact to 16 digits, beyond the digits of these *)
(* quotients, so that its truncation is the integer division below.        *)
(***************************************************************************)
EXTENDS Integers

CONSTANTS
  Micro,      \* units of a USDC and of a share (10^6)
  PriceUnit,  \* ticks in a price of 1
  PctNum,     \* MaxPctBalance is PctNum / PctDen
  PctDen,
  MaxOrder,   \* MaxOrderUSDC in micro-USDC, 0 for no cap
  MinSize     \* MinShareSize in hundredths of a share

ASSUME SizingAssumption ==
  /\ Micro \in Nat \ {0}
  /\ PriceUnit \in Nat \ {0}
  /\ PctNum \in Nat
  /\ PctDen \in Nat \ {0}
  /\ PctNum <= PctDen
  /\ MaxOrder \in Nat
  /\ MinSize \in Nat \ {0}

\* The smallest order is worth at least a unit at the smallest tick.
ASSUME ResolutionAssumption == PriceUnit * 100 <= MinSize * Micro

ValidWinProbability(prob) == 0 < prob /\ prob <= PriceUnit

\* winProb / price - 1 > 0; only BUY is supported.
PositiveEV(side, price, prob) ==
  /\ ValidWinProbability(prob)
  /\ side = "BUY"
  /\ price > 0
  /\ prob > price

\* Fault: the cap of MONEYMANAGER_MAX_ORDER_USDC replaces the share.
AllocatedCapInstead(b) == IF MaxOrder > 0 THEN MaxOrder * PctDen ELSE b * PctNum

\* The allocated micro-USDC, times PctDen.
Allocated(b) ==
  LET share == b * PctNum
      capped == IF MaxOrder > 0 /\ share > MaxOrder * PctDen
                THEN MaxOrder * PctDen ELSE share
  IN IF capped > b * PctDen THEN b * PctDen ELSE capped

\* allocated.Div(price).Truncate(2)
Size(b, price) ==
  (Allocated(b) * PriceUnit * 100) \div (PctDen * Micro * price)

Allocates(b, price) ==
  /\ price > 0
  /\ b > 0
  /\ Allocated(b) > 0
  /\ Size(b, price) >= MinSize

\* StringFixed(0) rounds to the nearest unit, halves up.
Rounded(n, d) == (2 * n + d) \div (2 * d)

MakerAmount(price, size) == Rounded(price * size * Micro, PriceUnit * 100)
TakerAmount(size) == Rounded(size * Micro, 100)
=============================================================================
