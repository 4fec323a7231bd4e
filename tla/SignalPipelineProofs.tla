------------------------ MODULE SignalPipelineProofs ------------------------
(***************************************************************************)
(* The sizing of the money manager, for every balance, price and limit;    *)
(* then the orders of SignalPipeline and the way of its signals, for any   *)
(* number of traders and signals.                                          *)
(***************************************************************************)
EXTENDS SignalPipeline, TLAPS

-----------------------------------------------------------------------------
(* The sizing of an order.                                                  *)

\* Facts of arithmetic.

LEMMA MulNat == ASSUME NEW a \in Nat, NEW b \in Nat PROVE a * b \in Nat
  OBVIOUS

LEMMA MulPos == ASSUME NEW a \in Nat \ {0}, NEW b \in Nat \ {0}
                PROVE  a * b \in Nat \ {0}
  OBVIOUS

LEMMA MulMono ==
  ASSUME NEW a \in Int, NEW b \in Int, NEW c \in Nat, a <= b
  PROVE  a * c <= b * c
  OBVIOUS

LEMMA MulCancel ==
  ASSUME NEW a \in Int, NEW b \in Int, NEW c \in Nat \ {0}, a * c <= b * c
  PROVE  a <= b
  OBVIOUS

LEMMA MulCancelStrict ==
  ASSUME NEW a \in Int, NEW b \in Int, NEW c \in Nat \ {0}, a * c < b * c
  PROVE  a < b
  OBVIOUS

LEMMA DivFloor ==
  ASSUME NEW n \in Nat, NEW d \in Nat \ {0}
  PROVE  /\ n \div d \in Nat
         /\ (n \div d) * d <= n
         /\ n < (n \div d) * d + d
  OBVIOUS

\* What rounding to the nearest unit does, without a fraction.
LEMMA RoundedIsNearest ==
  ASSUME NEW n \in Nat, NEW d \in Nat \ {0}
  PROVE  /\ Rounded(n, d) \in Nat
         /\ (2 * Rounded(n, d)) * d <= 2 * n + d
         /\ 2 * n < (2 * Rounded(n, d) + 1) * d
<1>1. 2 * n + d \in Nat /\ 2 * d \in Nat \ {0}
  OBVIOUS
<1> DEFINE r == (2 * n + d) \div (2 * d)
<1>2. r \in Nat /\ r * (2 * d) <= 2 * n + d /\ 2 * n + d < r * (2 * d) + 2 * d
  BY <1>1, DivFloor
<1> HIDE DEF r
<1>3. r * (2 * d) = (2 * r) * d /\ (2 * r + 1) * d = (2 * r) * d + d
  BY <1>2
<1> QED
  BY <1>2, <1>3 DEF Rounded, r

\* Allocate grants no more than the share, the balance and the cap.
LEMMA AllocatedBounds ==
  ASSUME NEW b \in Nat
  PROVE  /\ Allocated(b) \in Nat
         /\ Allocated(b) <= b * PctNum
         /\ Allocated(b) <= b * PctDen
         /\ MaxOrder > 0 => Allocated(b) <= MaxOrder * PctDen
<1>1. b * PctNum \in Nat /\ b * PctDen \in Nat /\ MaxOrder * PctDen \in Nat
  BY SizingAssumption, MulNat
<1> QED
  BY <1>1, SizingAssumption DEF Allocated

\* The size is the largest number of hundredths that the allocated money buys:
\* allocated.Div(price).Truncate(2) wastes less than a hundredth of a share.
THEOREM SizeIsLargest ==
  ASSUME NEW b \in Nat, NEW price \in Nat \ {0}
  PROVE  /\ Size(b, price) \in Nat
         /\ Size(b, price) * (PctDen * Micro * price) <= Allocated(b) * PriceUnit * 100
         /\ Allocated(b) * PriceUnit * 100 < (Size(b, price) + 1) * (PctDen * Micro * price)
<1> DEFINE n == Allocated(b) * PriceUnit * 100
           d == PctDen * Micro * price
<1>1. n \in Nat
  <2>1. Allocated(b) * PriceUnit \in Nat
    BY AllocatedBounds, SizingAssumption, MulNat
  <2> QED BY <2>1
<1>2. d \in Nat \ {0}
  <2>1. PctDen * Micro \in Nat \ {0}
    BY SizingAssumption, MulPos
  <2> QED BY <2>1, MulPos
<1> HIDE DEF n, d
<1>3. n \div d \in Nat /\ (n \div d) * d <= n /\ n < (n \div d) * d + d
  BY <1>1, <1>2, DivFloor
<1>4. (n \div d + 1) * d = (n \div d) * d + d
  BY <1>2, <1>3
<1> QED
  BY <1>3, <1>4 DEF Size, n, d

\* What the order pays stays within whatever bounds the allocation, up to the
\* rounding of half a unit.
LEMMA MakerWithin ==
  ASSUME NEW b \in Nat, NEW price \in Nat \ {0}, NEW most \in Nat,
         Allocated(b) <= most
  PROVE  /\ MakerAmount(price, Size(b, price)) \in Nat
         /\ 2 * MakerAmount(price, Size(b, price)) * PctDen <= 2 * most + PctDen
<1> DEFINE s == Size(b, price)
           D == PriceUnit * 100
           n == price * s * Micro
           m == MakerAmount(price, s)
<1>1. s \in Nat /\ D \in Nat \ {0} /\ Allocated(b) \in Nat /\ PctDen \in Nat \ {0}
      /\ Micro \in Nat \ {0}
  <2>1. s \in Nat
    BY SizeIsLargest
  <2> QED BY <2>1, AllocatedBounds, SizingAssumption
<1>2. s * (PctDen * Micro * price) <= Allocated(b) * PriceUnit * 100
  BY SizeIsLargest
<1> HIDE DEF s
<1>3. n \in Nat
  <2>1. price * s \in Nat
    BY <1>1, MulNat
  <2> QED BY <2>1, <1>1, MulNat
<1>4. m \in Nat /\ (2 * m) * D <= 2 * n + D
  BY <1>1, <1>3, RoundedIsNearest DEF MakerAmount
<1>5. n * PctDen <= Allocated(b) * D
  <2>1. s * (PctDen * Micro * price) = n * PctDen
    BY <1>1
  <2>2. Allocated(b) * PriceUnit * 100 = Allocated(b) * D
    BY <1>1, SizingAssumption
  <2> QED BY <1>2, <2>1, <2>2
<1>6. Allocated(b) * D <= most * D
  BY <1>1, MulMono
<1> HIDE DEF D, n, m
<1>7. ((2 * m) * D) * PctDen <= (2 * n + D) * PctDen
  BY <1>1, <1>3, <1>4, MulMono, MulNat
<1>8. (2 * n + D) * PctDen <= (2 * most + PctDen) * D
  <2>1. (2 * n + D) * PctDen = 2 * (n * PctDen) + D * PctDen
    BY <1>1, <1>3
  <2>2. (2 * most + PctDen) * D = 2 * (most * D) + D * PctDen
    BY <1>1
  <2>3. n * PctDen <= most * D
    BY <1>1, <1>3, <1>5, <1>6, MulNat
  <2> QED BY <2>1, <2>2, <2>3, <1>1, <1>3, MulNat
<1>9. ((2 * m) * D) * PctDen = (2 * m * PctDen) * D
  BY <1>1, <1>4
<1>10. (2 * m * PctDen) * D <= (2 * most + PctDen) * D
  <2>1. (2 * m * PctDen) * D \in Int /\ (2 * n + D) * PctDen \in Int
        /\ (2 * most + PctDen) * D \in Int
    BY <1>1, <1>3, <1>4
  <2> QED BY <1>7, <1>8, <1>9, <2>1
<1>11. 2 * m * PctDen <= 2 * most + PctDen
  BY <1>1, <1>4, <1>10, MulCancel
<1> QED
  BY <1>4, <1>11 DEF m, s

\* An allocation of a whole amount of units bounds the order by that amount.
LEMMA MakerWithinUnits ==
  ASSUME NEW b \in Nat, NEW price \in Nat \ {0}, NEW units \in Nat,
         Allocated(b) <= units * PctDen
  PROVE  MakerAmount(price, Size(b, price)) <= units
<1> DEFINE m == MakerAmount(price, Size(b, price))
<1>1. PctDen \in Nat \ {0} /\ units * PctDen \in Nat
  BY SizingAssumption, MulNat
<1>2. m \in Nat /\ 2 * m * PctDen <= 2 * (units * PctDen) + PctDen
  BY <1>1, MakerWithin
<1> HIDE DEF m
<1>3. (2 * m) * PctDen <= (2 * units + 1) * PctDen
  BY <1>1, <1>2
<1>4. 2 * m <= 2 * units + 1
  BY <1>1, <1>2, <1>3, MulCancel
<1> QED
  BY <1>2, <1>4 DEF m

\* An order of at least the minimum at a price below 1 pays something, and
\* less than the units it buys.
LEMMA BuysMoreThanItPays ==
  ASSUME NEW size \in Nat, NEW price \in Nat \ {0},
         size >= MinSize, price < PriceUnit
  PROVE  /\ MakerAmount(price, size) \in Nat \ {0}
         /\ TakerAmount(size) \in Nat
         /\ MakerAmount(price, size) < TakerAmount(size)
<1> DEFINE D == PriceUnit * 100
           w == size * Micro
           n == price * size * Micro
           m == MakerAmount(price, size)
           t == TakerAmount(size)
<1>1. D \in Nat \ {0} /\ Micro \in Nat \ {0} /\ PriceUnit \in Nat \ {0}
  BY SizingAssumption
<1>2. w \in Nat /\ D <= w
  <2>1. MinSize * Micro <= size * Micro
    BY SizingAssumption, MulMono
  <2>2. size * Micro \in Nat /\ MinSize * Micro \in Nat
    BY SizingAssumption, MulNat
  <2> QED BY <2>1, <2>2, <1>1, ResolutionAssumption
<1>3. n = price * w /\ n \in Nat
  <2>1. n = price * w
    BY <1>1
  <2> QED BY <2>1, <1>2, MulNat
<1>4. m \in Nat /\ (2 * m) * D <= 2 * n + D /\ 2 * n < (2 * m + 1) * D
  BY <1>1, <1>3, RoundedIsNearest DEF MakerAmount
<1>5. t \in Nat /\ 2 * w < (2 * t + 1) * 100
  <2>1. 100 \in Nat \ {0} /\ t = Rounded(w, 100)
    BY DEF TakerAmount
  <2> HIDE DEF t, w
  <2> QED BY <1>2, <2>1, RoundedIsNearest
<1> HIDE DEF D, w, n, m, t
<1>6. w <= n
  <2>1. 1 * w <= price * w
    BY <1>2, MulMono
  <2> QED BY <2>1, <1>2, <1>3
<1>7. m # 0
  <2>1. SUFFICES ASSUME m = 0 PROVE FALSE
    OBVIOUS
  <2>2. 2 * n < 1 * D
    BY <1>1, <1>4, <2>1
  <2> QED BY <1>1, <1>2, <1>3, <1>6, <2>2
<1>8. (2 * w) * PriceUnit < (2 * t + 1) * D
  <2>1. (2 * w) * PriceUnit < ((2 * t + 1) * 100) * PriceUnit
    BY <1>1, <1>2, <1>5
  <2>2. ((2 * t + 1) * 100) * PriceUnit = (2 * t + 1) * D
    BY <1>1, <1>5 DEF D
  <2> QED BY <2>1, <2>2
<1>9. n + w <= w * PriceUnit
  <2>1. (price + 1) * w <= PriceUnit * w
    BY <1>1, <1>2, MulMono
  <2>2. (price + 1) * w = price * w + w /\ PriceUnit * w = w * PriceUnit
    BY <1>1, <1>2
  <2> QED BY <2>1, <2>2, <1>3
<1>10. (2 * m + 1) * D < (2 * t + 1) * D
  <2>1. (2 * m + 1) * D = (2 * m) * D + D
    BY <1>1, <1>4
  <2>2. (2 * w) * PriceUnit = 2 * (w * PriceUnit)
    BY <1>1, <1>2
  <2>3. w * PriceUnit \in Nat /\ (2 * t + 1) * D \in Nat /\ (2 * m) * D \in Nat
    BY <1>1, <1>2, <1>4, <1>5, MulNat
  <2> QED
    BY <2>1, <2>2, <2>3, <1>1, <1>2, <1>3, <1>4, <1>8, <1>9
<1>11. 2 * m + 1 < 2 * t + 1
  BY <1>1, <1>4, <1>5, <1>10, MulCancelStrict
<1> QED
  BY <1>4, <1>5, <1>7, <1>11 DEF m, t

-----------------------------------------------------------------------------
(* The executor and its orders.                                             *)

Bounded(q) ==
  /\ 0 < q.maker /\ q.maker <= q.balance
  /\ MaxOrder > 0 => q.maker <= MaxOrder
  /\ 2 * q.maker * PctDen <= 2 * q.balance * PctNum + PctDen
  /\ q.maker < q.taker

Busy == {"asking", "signed", "placing", "answering"}

\* What the executor holds, and that an order placed late ends its work.
PipelineInv ==
  /\ TypeOK
  /\ exec \in Busy => current \in Signals
  /\ exec \in {"idle", "gone"} => current = NoSignal
  /\ exec \in {"signed", "placing", "answering"} => Bounded(quote)
  /\ \A i \in 1 .. Len(placed) : Bounded(placed[i].quote)
  /\ \A i \in 1 .. Len(placed) : placed[i].late =>
       /\ i = Len(placed)
       /\ cancelled
       /\ exec \notin {"asking", "signed", "placing"}

LEMMA InitInv == Init => PipelineInv
<1> SUFFICES ASSUME Init PROVE PipelineInv
  OBVIOUS
<1>1. NoQuote \in Quotes
  BY DEF NoQuote, Quotes
<1>2. /\ << >> \in Seq(Signals)
      /\ << >> \in Seq([signal : Signals, quote : Quotes, late : BOOLEAN])
      /\ Len(<< >>) = 0
  OBVIOUS
<1>3. /\ signals \in [Traders -> Seq(Signals)]
      /\ \A t \in Traders : Len(signals[t]) <= TraderBuffer
      /\ Len(signalCh) <= RegistryBuffer
  <2>1. TraderBuffer \in Nat /\ RegistryBuffer \in Nat
    BY PipelineAssumption
  <2>2. signals = [t \in Traders |-> << >>] /\ signalCh = << >>
    BY DEF Init
  <2>3. signals \in [Traders -> Seq(Signals)]
    BY <1>2, <2>2
  <2>4. \A t \in Traders : signals[t] = << >>
    BY <2>2
  <2>5. Len(<< >>) <= TraderBuffer /\ Len(<< >>) <= RegistryBuffer
    BY <1>2, <2>1
  <2> QED BY <2>2, <2>3, <2>4, <2>5
<1>4. /\ stop \in [Traders -> {"open", "stopping", "closed"}]
      /\ hand \in [Traders -> Signals \cup {NoSignal}]
      /\ offered \in 0 .. MaxSignals
      /\ forward \in SUBSET Traders
  BY PipelineAssumption DEF Init
<1>5. /\ signalCh \in Seq(Signals)
      /\ placed \in Seq([signal : Signals, quote : Quotes, late : BOOLEAN])
      /\ quote \in Quotes
  BY <1>1, <1>2 DEF Init
<1>6. exec = "idle" /\ current = NoSignal /\ cancelled = FALSE /\ decided = {}
  BY DEF Init
<1>7. TypeOK
  BY <1>3, <1>4, <1>5, <1>6 DEF TypeOK
<1> QED
  BY <1>2, <1>6, <1>7 DEF Init, PipelineInv, Busy

\* A quote of ProcessSignal is bounded, whatever the balance it has read.
LEMMA QuoteBounded ==
  ASSUME NEW b \in Nat, NEW price \in Nat, NEW prob \in Nat, NEW side,
         PositiveEV(side, price, prob), Allocates(b, price)
  PROVE  SignedOrder(b, price) \in Quotes /\ Bounded(SignedOrder(b, price))
<1> DEFINE s == Size(b, price)
           m == MakerAmount(price, s)
           t == TakerAmount(s)
<1>1. price \in Nat \ {0} /\ price < PriceUnit
  BY SizingAssumption DEF PositiveEV, ValidWinProbability
<1>2. s \in Nat /\ s >= MinSize
  <2>1. s \in Nat
    BY <1>1, SizeIsLargest
  <2> QED BY <2>1 DEF Allocates
<1>3. m \in Nat \ {0} /\ t \in Nat /\ m < t
  <2> HIDE DEF s
  <2> QED BY <1>1, <1>2, BuysMoreThanItPays
<1>4. b * PctNum \in Nat /\ PctDen \in Nat \ {0} /\ PctNum \in Nat
      /\ MaxOrder \in Nat
  BY SizingAssumption, MulNat
<1>5. m <= b
  BY <1>1, AllocatedBounds, MakerWithinUnits
<1>6. MaxOrder > 0 => m <= MaxOrder
  BY <1>1, <1>4, AllocatedBounds, MakerWithinUnits
<1>7. 2 * m * PctDen <= 2 * (b * PctNum) + PctDen
  BY <1>1, <1>4, AllocatedBounds, MakerWithin
<1> HIDE DEF s, m, t
<1>8. 2 * b * PctNum = 2 * (b * PctNum)
  BY <1>4
<1> DEFINE q == [balance |-> b, maker |-> m, taker |-> t]
<1>9. q \in Quotes
  BY <1>3 DEF Quotes
<1>10. Bounded(q)
  BY <1>3, <1>4, <1>5, <1>6, <1>7, <1>8 DEF Bounded
<1> QED
  BY <1>9, <1>10 DEF SignedOrder, s, m, t

\* The actions that leave the executor and its orders alone only have the types
\* of the queues to preserve.
LEMMA QueueSteps ==
  ASSUME PipelineInv, NEW t \in Traders,
         Emit(t) \/ StopTrader(t) \/ ReceiveSignal(t) \/ ForwardSignal(t)
           \/ LeaveForwarder(t)
  PROVE  PipelineInv'
<1> USE DEF PipelineInv
<1>1. TypeOK /\ PipelineAssumption
  BY PipelineAssumption
<1>2. UNCHANGED <<exec, current, quote, cancelled, placed, decided>>
  BY DEF Emit, StopTrader, ReceiveSignal, ForwardSignal, LeaveForwarder, execVars
<1>3. TypeOK'
  <2>1. CASE Emit(t)
    <3>1. PICK k \in Kinds :
            LET sig == [id |-> offered + 1, from |-> t, kind |-> k] IN
            \/ /\ Len(signals[t]) < TraderBuffer
               /\ signals' = [signals EXCEPT ![t] = Append(@, sig)]
            \/ UNCHANGED signals
      BY <2>1 DEF Emit
    <3> DEFINE sig == [id |-> offered + 1, from |-> t, kind |-> k]
    <3>2. sig \in Signals /\ offered' \in 0 .. MaxSignals
      BY <1>1, <2>1 DEF Emit, TypeOK, Signals, PipelineAssumption
    <3>3. /\ signals' \in [Traders -> Seq(Signals)]
          /\ \A u \in Traders : Len(signals'[u]) <= TraderBuffer
      <4>1. CASE UNCHANGED signals
        BY <1>1, <4>1 DEF TypeOK
      <4>2. CASE /\ Len(signals[t]) < TraderBuffer
                 /\ signals' = [signals EXCEPT ![t] = Append(@, sig)]
        <5> HIDE DEF sig
        <5>1. signals[t] \in Seq(Signals)
          BY <1>1 DEF TypeOK
        <5>2. /\ Append(signals[t], sig) \in Seq(Signals)
              /\ Len(Append(signals[t], sig)) = Len(signals[t]) + 1
          BY <3>2, <5>1
        <5>3. Len(signals[t]) + 1 <= TraderBuffer
          BY <1>1, <4>2, <5>1 DEF PipelineAssumption
        <5> QED BY <1>1, <4>2, <5>2, <5>3 DEF TypeOK
      <4> QED BY <3>1, <4>1, <4>2
    <3> QED BY <1>1, <1>2, <2>1, <3>2, <3>3 DEF Emit, TypeOK, moveVars
  <2>2. CASE StopTrader(t)
    BY <1>1, <1>2, <2>2 DEF StopTrader, TypeOK, moveVars
  <2>3. CASE ReceiveSignal(t)
    <3>1. signals[t] \in Seq(Signals) /\ signals[t] # << >>
      BY <1>1, <2>3 DEF TypeOK, ReceiveSignal
    <3>2. /\ Head(signals[t]) \in Signals
          /\ Tail(signals[t]) \in Seq(Signals)
          /\ Len(Tail(signals[t])) = Len(signals[t]) - 1
      BY <3>1
    <3>3. Len(Tail(signals[t])) <= TraderBuffer
      BY <1>1, <3>1, <3>2 DEF TypeOK, PipelineAssumption
    <3> QED BY <1>1, <1>2, <2>3, <3>2, <3>3 DEF ReceiveSignal, TypeOK
  <2>4. CASE ForwardSignal(t)
    <3>1. hand[t] \in Signals /\ signalCh \in Seq(Signals)
      BY <1>1, <2>4 DEF TypeOK, ForwardSignal
    <3>2. /\ Append(signalCh, hand[t]) \in Seq(Signals)
          /\ Len(Append(signalCh, hand[t])) = Len(signalCh) + 1
      BY <3>1
    <3>3. Len(signalCh) + 1 <= RegistryBuffer
      BY <1>1, <2>4, <3>1 DEF ForwardSignal, PipelineAssumption
    <3> QED BY <1>1, <1>2, <2>4, <3>2, <3>3 DEF ForwardSignal, TypeOK, traderVars
  <2>5. CASE LeaveForwarder(t)
    BY <1>1, <1>2, <2>5 DEF LeaveForwarder, TypeOK, traderVars
  <2> QED BY <2>1, <2>2, <2>3, <2>4, <2>5
<1> QED
  BY <1>2, <1>3 DEF Bounded

\* An order joins the sequence of the placed ones.
LEMMA AppendPlaced ==
  ASSUME PipelineInv, exec = "placing", placed' = Append(placed, ThisOrder),
         UNCHANGED <<current, quote, cancelled>>,
         exec' \notin {"asking", "signed", "placing"}
  PROVE  /\ placed' \in Seq([signal : Signals, quote : Quotes, late : BOOLEAN])
         /\ \A i \in 1 .. Len(placed') : Bounded(placed'[i].quote)
         /\ \A i \in 1 .. Len(placed') : placed'[i].late =>
              /\ i = Len(placed')
              /\ cancelled'
              /\ exec' \notin {"asking", "signed", "placing"}
<1> DEFINE Orders == [signal : Signals, quote : Quotes, late : BOOLEAN]
<1>1. ThisOrder \in Orders /\ placed \in Seq(Orders)
  BY DEF PipelineInv, TypeOK, ThisOrder, Busy
<1>2. ThisOrder.quote = quote /\ ThisOrder.late = cancelled
  BY DEF ThisOrder
<1>3. Bounded(quote)
  BY DEF PipelineInv
<1> HIDE DEF Orders
<1>4. /\ placed' \in Seq(Orders)
      /\ Len(placed') = Len(placed) + 1
      /\ Len(placed) \in Nat
      /\ \A i \in 1 .. Len(placed) : placed'[i] = placed[i]
      /\ placed'[Len(placed) + 1] = ThisOrder
  BY <1>1
<1>5. \A i \in 1 .. Len(placed) : Bounded(placed[i].quote) /\ ~placed[i].late
  BY DEF PipelineInv
<1>6. \A i \in 1 .. Len(placed') : i \in 1 .. Len(placed) \/ i = Len(placed')
  BY <1>4
<1>7. \A i \in 1 .. Len(placed') : Bounded(placed'[i].quote)
  BY <1>2, <1>3, <1>4, <1>5, <1>6
<1>8. \A i \in 1 .. Len(placed') : placed'[i].late => i = Len(placed') /\ cancelled'
  BY <1>2, <1>4, <1>5, <1>6
<1> QED
  BY <1>4, <1>7, <1>8 DEF Orders

\* Every step of the executor keeps the invariant.
LEMMA ExecutorSteps ==
  ASSUME PipelineInv, ExecSteps
  PROVE  PipelineInv'
<1> USE DEF PipelineInv
<1>1. TypeOK /\ PipelineAssumption
  BY PipelineAssumption
<1>2. NoQuote \in Quotes
  BY DEF NoQuote, Quotes
<1>3. CASE TakeSignal
  <2>1. signalCh \in Seq(Signals) /\ signalCh # << >>
    BY <1>1, <1>3 DEF TypeOK, TakeSignal
  <2>2. /\ Head(signalCh) \in Signals
        /\ Tail(signalCh) \in Seq(Signals)
        /\ Len(Tail(signalCh)) = Len(signalCh) - 1
    BY <2>1
  <2>3. Len(Tail(signalCh)) <= RegistryBuffer
    BY <1>1, <2>1, <2>2 DEF TypeOK, PipelineAssumption
  <2>4. Head(signalCh).id \in 1 .. MaxSignals
    BY <2>2 DEF Signals
  <2>5. \/ /\ ~cancelled /\ exec' = "asking" /\ current' = Head(signalCh)
           /\ UNCHANGED decided
        \/ /\ exec = "idle" /\ exec' = "idle" /\ UNCHANGED current
           /\ decided' = decided \cup {Head(signalCh).id}
    BY <1>3 DEF TakeSignal
  <2>6. UNCHANGED <<traderVars, moveVars, quote, cancelled, placed>>
        /\ signalCh' = Tail(signalCh)
    BY <1>3 DEF TakeSignal
  <2>7. TypeOK'
    BY <1>1, <2>2, <2>3, <2>4, <2>5, <2>6 DEF TypeOK, traderVars, moveVars
  <2> QED BY <2>2, <2>5, <2>6, <2>7 DEF Busy, Bounded
<1>4. CASE ProcessSignal
  <2>1. PICK b \in Balances :
          /\ Allocates(b, current.kind.price)
          /\ quote' = SignedOrder(b, current.kind.price)
    BY <1>4 DEF ProcessSignal
  <2>2. current \in Signals /\ exec = "asking"
    BY <1>4 DEF ProcessSignal, Busy
  <2>3. current.kind.price \in Nat /\ current.kind.prob \in Nat /\ b \in Nat
    BY <1>1, <2>2 DEF Signals, PipelineAssumption
  <2>4. PositiveEV(current.kind.side, current.kind.price, current.kind.prob)
    BY <1>4 DEF ProcessSignal
  <2>5. quote' \in Quotes /\ Bounded(quote')
    BY <2>1, <2>3, <2>4, QuoteBounded
  <2>6. UNCHANGED <<traderVars, moveVars, signalCh, current, cancelled, placed, decided>>
        /\ exec' = "signed"
    BY <1>4 DEF ProcessSignal
  <2>7. TypeOK'
    BY <1>1, <2>5, <2>6 DEF TypeOK, traderVars, moveVars
  <2> QED BY <2>2, <2>5, <2>6, <2>7 DEF Bounded, Busy
<1>5. CASE ProcessFails \/ PlaceReturns
  <2>1. current \in Signals
    BY <1>5 DEF ProcessFails, PlaceReturns, Busy
  <2>2. /\ exec' = "idle" /\ current' = NoSignal /\ quote' = NoQuote
        /\ decided' = decided \cup {current.id}
        /\ UNCHANGED <<traderVars, moveVars, signalCh, cancelled, placed>>
    BY <1>5 DEF ProcessFails, PlaceReturns, Forget
  <2>3. current.id \in 1 .. MaxSignals
    BY <2>1 DEF Signals
  <2>4. TypeOK'
    BY <1>1, <1>2, <2>2, <2>3 DEF TypeOK, traderVars, moveVars
  <2> QED BY <2>2, <2>4 DEF Busy, Bounded
<1>6. CASE Answer \/ LeaveExecutor
  <2>1. TypeOK'
    BY <1>1, <1>6 DEF TypeOK, Answer, LeaveExecutor, traderVars, moveVars
  <2>2. \/ exec = "signed" /\ exec' = "placing"
        \/ exec = "idle" /\ exec' = "gone"
    BY <1>6 DEF Answer, LeaveExecutor
  <2>3. UNCHANGED <<current, quote, cancelled, placed>>
    BY <1>6 DEF Answer, LeaveExecutor
  <2> QED BY <2>1, <2>2, <2>3 DEF Busy, Bounded
<1>7. CASE PlaceOrder
  <2>1. /\ exec = "placing" /\ exec' = "answering"
        /\ placed' = Append(placed, ThisOrder)
        /\ UNCHANGED <<traderVars, moveVars, signalCh, current, quote, cancelled,
                       decided>>
    BY <1>7 DEF PlaceOrder
  <2>2. /\ placed' \in Seq([signal : Signals, quote : Quotes, late : BOOLEAN])
        /\ \A i \in 1 .. Len(placed') : Bounded(placed'[i].quote)
        /\ \A i \in 1 .. Len(placed') : placed'[i].late =>
             /\ i = Len(placed')
             /\ cancelled'
             /\ exec' \notin {"asking", "signed", "placing"}
    BY <2>1, AppendPlaced
  <2>3. TypeOK'
    BY <1>1, <2>1, <2>2 DEF TypeOK, traderVars, moveVars
  <2>4. /\ current' \in Signals /\ Bounded(quote)'
        /\ exec' \notin {"idle", "gone"}
    BY <2>1 DEF Busy, Bounded
  <2>5. \A i \in 1 .. Len(placed') : Bounded(placed[i].quote)'
    BY <2>2 DEF Bounded
  <2> QED BY <2>2, <2>3, <2>4, <2>5
<1> QED
  BY <1>3, <1>4, <1>5, <1>6, <1>7 DEF ExecSteps

LEMMA ShutdownSteps ==
  ASSUME PipelineInv, Cancel \/ Exit
  PROVE  PipelineInv'
<1> USE DEF PipelineInv
<1>1. CASE Cancel
  <2>1. TypeOK'
    BY <1>1 DEF Cancel, TypeOK, traderVars, moveVars, execVars
  <2> QED BY <1>1, <2>1 DEF Cancel, execVars, Bounded
<1>2. CASE Exit
  <2>1. /\ exec' = "dead"
        /\ UNCHANGED <<traderVars, moveVars, signalCh, current, quote, cancelled,
                       decided>>
    BY <1>2 DEF Exit
  <2>2. \/ UNCHANGED placed
        \/ exec = "placing" /\ placed' = Append(placed, ThisOrder)
    BY <1>2 DEF Exit
  <2>3. /\ placed' \in Seq([signal : Signals, quote : Quotes, late : BOOLEAN])
        /\ \A i \in 1 .. Len(placed') : Bounded(placed'[i].quote)
        /\ \A i \in 1 .. Len(placed') : placed'[i].late =>
             /\ i = Len(placed')
             /\ cancelled'
             /\ exec' \notin {"asking", "signed", "placing"}
    <3>1. CASE UNCHANGED placed
      BY <2>1, <3>1 DEF TypeOK, Bounded
    <3>2. CASE exec = "placing" /\ placed' = Append(placed, ThisOrder)
      BY <2>1, <3>2, AppendPlaced
    <3> QED BY <2>2, <3>1, <3>2
  <2>4. TypeOK'
    BY <2>1, <2>3 DEF TypeOK, traderVars, moveVars
  <2> QED BY <2>1, <2>3, <2>4 DEF Busy, Bounded
<1> QED
  BY <1>1, <1>2

LEMMA StepInv == PipelineInv /\ [Next]_vars => PipelineInv'
<1> SUFFICES ASSUME PipelineInv, [Next]_vars PROVE PipelineInv'
  OBVIOUS
<1>1. CASE \E t \in Traders : Emit(t) \/ StopTrader(t) \/ ReceiveSignal(t)
                                \/ ForwardSignal(t) \/ LeaveForwarder(t)
  BY <1>1, QueueSteps
<1>2. CASE ExecSteps
  BY <1>2, ExecutorSteps
<1>3. CASE Cancel \/ Exit
  BY <1>3, ShutdownSteps
<1>4. CASE Ended \/ UNCHANGED vars
  BY <1>4 DEF Ended, vars, traderVars, moveVars, execVars, PipelineInv, TypeOK, Bounded
<1> QED
  BY <1>1, <1>2, <1>3, <1>4 DEF Next

\* The invariant of the executor and its orders.
THEOREM PipelineInvariant == Spec => []PipelineInv
  BY InitInv, StepInv, PTL DEF Spec

\* The variables keep their types, the channels their capacities.
THEOREM PipelineTypeCorrect == Spec => []TypeOK
<1>1. PipelineInv => TypeOK
  BY DEF PipelineInv
<1> QED
  BY <1>1, PipelineInvariant, PTL

\* No order at the exchange spends more than the limits of the money manager
\* allow, for any limits, and each buys more than it pays.
THEOREM SpendingIsBounded == Spec => []SpendIsBounded
<1>1. PipelineInv => SpendIsBounded
  BY DEF PipelineInv, SpendIsBounded, Bounded
<1> QED
  BY <1>1, PipelineInvariant, PTL

\* However many signals are queued, a cancelled program places one order more
\* at most.
THEOREM AtMostOneLateOrder == Spec => []OneLateOrder
<1>1. PipelineInv => OneLateOrder
  BY DEF PipelineInv, OneLateOrder
<1> QED
  BY <1>1, PipelineInvariant, PTL

-----------------------------------------------------------------------------
(* The way of a signal.                                                     *)

\* The ids of a sequence, and what the channel operations do to them.
LEMMA IdsOfAppend ==
  ASSUME NEW s \in Seq(Signals), NEW x \in Signals
  PROVE  Ids(Append(s, x)) = Ids(s) \cup {x.id}
<1>1. /\ Len(Append(s, x)) = Len(s) + 1
      /\ Len(s) \in Nat
      /\ \A i \in 1 .. Len(s) : Append(s, x)[i] = s[i]
      /\ Append(s, x)[Len(s) + 1] = x
  OBVIOUS
<1>2. 1 .. Len(s) + 1 = (1 .. Len(s)) \cup {Len(s) + 1}
  BY <1>1
<1> QED
  BY <1>1, <1>2 DEF Ids

LEMMA IdsOfTail ==
  ASSUME NEW s \in Seq(Signals), s # << >>
  PROVE  Ids(s) = Ids(Tail(s)) \cup {Head(s).id}
<1>1. /\ Len(s) \in Nat \ {0}
      /\ Head(s) = s[1]
      /\ Len(Tail(s)) = Len(s) - 1
      /\ \A i \in 1 .. Len(Tail(s)) : Tail(s)[i] = s[i + 1]
  OBVIOUS
<1>2. ASSUME NEW i \in 1 .. Len(s)
      PROVE  s[i].id = Head(s).id \/ \E j \in 1 .. Len(Tail(s)) : s[i].id = Tail(s)[j].id
  <2>1. CASE i = 1
    BY <1>1, <2>1
  <2>2. CASE i # 1
    <3>1. i - 1 \in 1 .. Len(Tail(s)) /\ (i - 1) + 1 = i
      BY <1>1, <2>2
    <3> QED BY <1>1, <3>1
  <2> QED BY <2>1, <2>2
<1>3. ASSUME NEW j \in 1 .. Len(Tail(s))
      PROVE  \E i \in 1 .. Len(s) : s[i].id = Tail(s)[j].id
  <2>1. j + 1 \in 1 .. Len(s)
    BY <1>1
  <2> QED BY <1>1, <2>1
<1>4. \E i \in 1 .. Len(s) : s[i].id = Head(s).id
  BY <1>1
<1>5. Ids(s) \subseteq Ids(Tail(s)) \cup {Head(s).id}
  BY <1>2 DEF Ids
<1>6. Ids(Tail(s)) \cup {Head(s).id} \subseteq Ids(s)
  BY <1>3, <1>4 DEF Ids
<1> QED
  BY <1>5, <1>6

\* A channel passes its signals on; the executor is done with one before it
\* takes the next.
LEMMA StepLosesNothing ==
  ASSUME PipelineInv, [Next]_vars, ~cancelled, NEW x \in Pending
  PROVE  x \in Pending' \cup decided'
<1> DEFINE At(t) == x \in Ids(signals[t]) \/ x \in InHand(t)
<1>1. TypeOK
  BY DEF PipelineInv
<1>2. /\ \A t \in Traders : signals[t] \in Seq(Signals)
      /\ signals \in [Traders -> Seq(Signals)]
      /\ hand \in [Traders -> Signals \cup {NoSignal}]
      /\ signalCh \in Seq(Signals)
      /\ NoSignal \notin Signals
  BY <1>1, NoSignalAssumption DEF TypeOK
<1>3. \/ \E t \in Traders : At(t)
      \/ x \in Ids(signalCh)
      \/ current # NoSignal /\ x = current.id
  BY DEF Pending
<1>4. SUFFICES \/ \E t \in Traders : At(t)'
               \/ x \in Ids(signalCh')
               \/ current' # NoSignal /\ x = current'.id
               \/ x \in decided'
  BY DEF Pending, Ids
<1>5. ASSUME NEW t \in Traders, Emit(t)
      PROVE  \/ \E u \in Traders : At(u)'
             \/ x \in Ids(signalCh')
             \/ current' # NoSignal /\ x = current'.id
  <2>1. UNCHANGED <<hand, signalCh, current>>
    BY <1>5 DEF Emit, moveVars, execVars
  <2>2. PICK k \in Kinds :
          \/ signals' = [signals EXCEPT ![t] =
               Append(@, [id |-> offered + 1, from |-> t, kind |-> k])]
          \/ UNCHANGED signals
    BY <1>5 DEF Emit
  <2>3. [id |-> offered + 1, from |-> t, kind |-> k] \in Signals
    BY <1>1, <1>5, PipelineAssumption DEF Emit, TypeOK, Signals
  <2>4. \A u \in Traders : Ids(signals[u]) \subseteq Ids(signals'[u])
    <3>1. CASE UNCHANGED signals
      BY <3>1
    <3>2. CASE signals' = [signals EXCEPT ![t] =
                 Append(@, [id |-> offered + 1, from |-> t, kind |-> k])]
      <4>1. Ids(signals'[t]) = Ids(signals[t]) \cup {offered + 1}
        BY <1>2, <2>3, <3>2, IdsOfAppend
      <4>2. \A u \in Traders \ {t} : signals'[u] = signals[u]
        BY <1>2, <3>2
      <4> QED BY <4>1, <4>2
    <3> QED BY <2>2, <3>1, <3>2
  <2> QED BY <1>3, <2>1, <2>4 DEF InHand
<1>6. ASSUME NEW t \in Traders, ReceiveSignal(t)
      PROVE  \/ \E u \in Traders : At(u)'
             \/ x \in Ids(signalCh')
             \/ current' # NoSignal /\ x = current'.id
  <2>1. /\ UNCHANGED <<signalCh, current>>
        /\ hand[t] = NoSignal /\ signals[t] # << >>
        /\ hand' = [hand EXCEPT ![t] = Head(signals[t])]
        /\ signals' = [signals EXCEPT ![t] = Tail(@)]
    BY <1>6 DEF ReceiveSignal, execVars
  <2>2. /\ Head(signals[t]) \in Signals
        /\ Ids(signals[t]) = Ids(Tail(signals[t])) \cup {Head(signals[t]).id}
    BY <1>2, <2>1, IdsOfTail
  <2>3. /\ Ids(signals'[t]) = Ids(Tail(signals[t]))
        /\ InHand(t)' = {Head(signals[t]).id}
    BY <1>2, <2>1, <2>2 DEF InHand
  <2>4. \A u \in Traders \ {t} : /\ Ids(signals'[u]) = Ids(signals[u])
                                /\ InHand(u)' = InHand(u)
    BY <1>2, <2>1 DEF InHand
  <2>5. InHand(t) = {}
    BY <2>1 DEF InHand
  <2> QED BY <1>3, <2>1, <2>2, <2>3, <2>4, <2>5
<1>7. ASSUME NEW t \in Traders, ForwardSignal(t)
      PROVE  \/ \E u \in Traders : At(u)'
             \/ x \in Ids(signalCh')
             \/ current' # NoSignal /\ x = current'.id
  <2>1. /\ UNCHANGED <<signals, current>>
        /\ hand[t] # NoSignal
        /\ signalCh' = Append(signalCh, hand[t])
        /\ hand' = [hand EXCEPT ![t] = NoSignal]
    BY <1>7 DEF ForwardSignal, execVars, traderVars
  <2>2. Ids(signalCh') = Ids(signalCh) \cup InHand(t)
    BY <1>2, <2>1, IdsOfAppend DEF InHand
  <2>3. \A u \in Traders \ {t} : InHand(u)' = InHand(u)
    BY <1>2, <2>1 DEF InHand
  <2> QED BY <1>3, <2>1, <2>2, <2>3
<1>8. ASSUME NEW t \in Traders, StopTrader(t) \/ LeaveForwarder(t)
      PROVE  \/ \E u \in Traders : At(u)'
             \/ x \in Ids(signalCh')
             \/ current' # NoSignal /\ x = current'.id
  <2>1. /\ UNCHANGED <<signals, signalCh, current>>
        /\ \/ UNCHANGED hand
           \/ hand[t] = NoSignal /\ hand' = [hand EXCEPT ![t] = NoSignal]
    BY <1>8 DEF StopTrader, LeaveForwarder, execVars, traderVars, moveVars
  <2>2. \A u \in Traders : InHand(u)' = InHand(u)
    BY <1>2, <2>1 DEF InHand
  <2> QED BY <1>3, <2>1, <2>2
<1>9. CASE TakeSignal
  <2>1. /\ UNCHANGED <<signals, hand>>
        /\ signalCh # << >> /\ signalCh' = Tail(signalCh)
        /\ current = NoSignal
        /\ \/ current' = Head(signalCh)
           \/ decided' = decided \cup {Head(signalCh).id}
    BY <1>9 DEF TakeSignal, PipelineInv, traderVars, moveVars
  <2>2. Ids(signalCh) = Ids(signalCh') \cup {Head(signalCh).id}
        /\ Head(signalCh) \in Signals
    BY <1>2, <2>1, IdsOfTail
  <2> QED BY <1>2, <1>3, <2>1, <2>2 DEF InHand
<1>10. CASE ProcessFails \/ PlaceReturns
  <2>1. /\ UNCHANGED <<signals, hand, signalCh>>
        /\ decided' = decided \cup {current.id}
    BY <1>10 DEF ProcessFails, PlaceReturns, Forget, traderVars, moveVars
  <2> QED BY <1>3, <2>1 DEF InHand
<1>11. CASE \/ ProcessSignal \/ Answer \/ PlaceOrder \/ LeaveExecutor \/ Cancel
            \/ Ended \/ UNCHANGED vars
  <2>1. UNCHANGED <<signals, hand, signalCh, current>>
    BY <1>11 DEF ProcessSignal, Answer, PlaceOrder, LeaveExecutor, Cancel, Ended,
                 vars, traderVars, moveVars, execVars
  <2> QED BY <1>3, <2>1 DEF InHand
<1>12. ~Exit
  BY DEF Exit
<1> QED
  BY <1>5, <1>6, <1>7, <1>8, <1>9, <1>10, <1>11, <1>12 DEF Next, ExecSteps

\* No signal an emission has put into a channel disappears on its way: neither
\* a forwarder nor the executor drops one before the interrupt.
THEOREM NoSignalIsLost == Spec => NothingIsLost
<1>1. PipelineInv /\ [Next]_vars => [~cancelled => Pending \subseteq Pending' \cup decided']_vars
  BY StepLosesNothing
<1> QED
  BY <1>1, PipelineInvariant, PTL DEF Spec, NothingIsLost
=============================================================================
