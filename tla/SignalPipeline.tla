--------------------------- MODULE SignalPipeline ---------------------------
(***************************************************************************)
(* The way of a trade signal: emitSignal puts it in its trader's channel,  *)
(* the trader's forwarder moves it to the registry's channel, the one      *)
(* executor asks the money manager for a sized and signed order and posts  *)
(* that to the CLOB.  On an interrupt the traders are stopped, the context *)
(* is cancelled, the forwarders are waited for, and main returns: nobody   *)
(* waits for the executor.                                                 *)
(*                                                                         *)
(* Source: polymarket/main.go, polymarket/core/atp_trader.go, and the      *)
(* money manager in internal/server, pkg/risk and internal/signer.  The    *)
(* wallet's balance and the exchange are outside the repository.           *)
(***************************************************************************)
EXTENDS OrderSizing, Sequences

CONSTANTS
  Traders,         \* the traders that emit signals
  Discovered,      \* those StopAll may not know: discovery registers them late
  Kinds,           \* the contents of signals: side, price, probability
  Balances,        \* what the wallet may hold, in micro-USDC
  MaxSignals,      \* bound on the signals of one run
  TraderBuffer,    \* capacity of ATPTrader.signals (100)
  RegistryBuffer,  \* capacity of traderRegistry.signalCh (100)
  NoSignal

ASSUME PipelineAssumption ==
  /\ Discovered \subseteq Traders
  /\ Kinds \subseteq [side : {"BUY", "SELL", "none"}, price : Nat, prob : Nat]
  /\ Balances \subseteq Nat
  /\ MaxSignals \in Nat
  /\ TraderBuffer \in Nat \ {0}
  /\ RegistryBuffer \in Nat \ {0}

\* A signal with the number of its emission.
Signals == [id : 1 .. MaxSignals, from : Traders, kind : Kinds]

ASSUME NoSignalAssumption == NoSignal \notin Signals

VARIABLES
  offered,   \* number of signals offered to emitSignal
  signals,   \* ATPTrader.signals of each trader
  stop,      \* of each trader: "open", "stopping", "closed"
  hand,      \* the signal a forwarder has received and not yet sent
  forward,   \* traders whose forwarder runs
  signalCh,  \* traderRegistry.signalCh
  exec,      \* where the executor stands
  current,   \* the signal it executes
  quote,     \* the order the money manager has signed for it
  cancelled, \* the context of main is done
  placed,    \* the orders the exchange has accepted, in its order
  decided    \* signals the executor is done with

traderVars == <<offered, signals, stop>>
moveVars == <<hand, forward>>
execVars == <<exec, current, quote>>
vars == <<traderVars, moveVars, signalCh, execVars, cancelled, placed,
          decided>>

\* What the money manager answers, with the balance it has read.
Quotes == [balance : Nat, maker : Nat, taker : Nat]
NoQuote == [balance |-> 0, maker |-> 0, taker |-> 0]

TypeOK ==
  /\ offered \in 0 .. MaxSignals
  /\ signals \in [Traders -> Seq(Signals)]
  /\ \A t \in Traders : Len(signals[t]) <= TraderBuffer
  /\ stop \in [Traders -> {"open", "stopping", "closed"}]
  /\ hand \in [Traders -> Signals \cup {NoSignal}]
  /\ forward \in SUBSET Traders
  /\ signalCh \in Seq(Signals)
  /\ Len(signalCh) <= RegistryBuffer
  /\ exec \in {"idle", "asking", "signed", "placing", "answering", "gone", "dead"}
  /\ current \in Signals \cup {NoSignal}
  /\ quote \in Quotes
  /\ cancelled \in BOOLEAN
  /\ placed \in Seq([signal : Signals, quote : Quotes, late : BOOLEAN])
  /\ decided \in SUBSET (1 .. MaxSignals)

Init ==
  /\ offered = 0
  /\ signals = [t \in Traders |-> << >>]
  /\ stop = [t \in Traders |-> "open"]
  /\ hand = [t \in Traders |-> NoSignal]
  /\ forward = Traders
  /\ signalCh = << >>
  /\ exec = "idle"
  /\ current = NoSignal
  /\ quote = NoQuote
  /\ cancelled = FALSE
  /\ placed = << >>
  /\ decided = {}

-----------------------------------------------------------------------------
(* The traders and their forwarders.                                        *)

\* emitSignal drops a signal when the channel is full, and may drop it when
\* stop is closed.  Listeners run until Stop has waited for them.
Emit(t) ==
  /\ exec # "dead"
  /\ stop[t] # "closed"
  /\ offered < MaxSignals
  /\ offered' = offered + 1
  /\ \E k \in Kinds :
       LET sig == [id |-> offered + 1, from |-> t, kind |-> k] IN
       \/ /\ Len(signals[t]) < TraderBuffer
          /\ signals' = [signals EXCEPT ![t] = Append(@, sig)]
       \/ /\ Len(signals[t]) = TraderBuffer \/ stop[t] = "stopping"
          /\ UNCHANGED signals
  /\ UNCHANGED <<stop, moveVars, signalCh, execVars, cancelled, placed,
                 decided>>

StopTrader(t) ==
  /\ exec # "dead"
  /\ \/ stop[t] = "open" /\ stop' = [stop EXCEPT ![t] = "stopping"]
     \/ stop[t] = "stopping" /\ stop' = [stop EXCEPT ![t] = "closed"]
  /\ UNCHANGED <<offered, signals, moveVars, signalCh, execVars, cancelled,
                 placed, decided>>

ReceiveSignal(t) ==
  /\ exec # "dead"
  /\ t \in forward
  /\ hand[t] = NoSignal
  /\ signals[t] # << >>
  /\ hand' = [hand EXCEPT ![t] = Head(signals[t])]
  /\ signals' = [signals EXCEPT ![t] = Tail(@)]
  /\ UNCHANGED <<offered, stop, forward, signalCh, execVars, cancelled, placed, decided>>

\* Fault: the forwarder does not wait for room in the registry's channel.
ForwardOrDrop(t) ==
  /\ exec # "dead"
  /\ t \in forward
  /\ hand[t] # NoSignal
  /\ signalCh' = IF Len(signalCh) < RegistryBuffer
                 THEN Append(signalCh, hand[t]) ELSE signalCh
  /\ hand' = [hand EXCEPT ![t] = NoSignal]
  /\ UNCHANGED <<traderVars, forward, execVars, cancelled, placed,
                 decided>>

ForwardSignal(t) ==
  /\ exec # "dead"
  /\ t \in forward
  /\ hand[t] # NoSignal
  /\ Len(signalCh) < RegistryBuffer
  /\ signalCh' = Append(signalCh, hand[t])
  /\ hand' = [hand EXCEPT ![t] = NoSignal]
  /\ UNCHANGED <<traderVars, forward, execVars, cancelled, placed,
                 decided>>

\* The context is done, or the trader's channel is closed and drained.
LeaveForwarder(t) ==
  /\ exec # "dead"
  /\ t \in forward
  /\ \/ cancelled
     \/ stop[t] = "closed" /\ signals[t] = << >> /\ hand[t] = NoSignal
  /\ forward' = forward \ {t}
  /\ hand' = [hand EXCEPT ![t] = NoSignal]
  /\ UNCHANGED <<traderVars, signalCh, execVars, cancelled, placed,
                 decided>>

-----------------------------------------------------------------------------
(* The executor.                                                            *)

\* What executeTradeSignal checks before it calls anybody.
WellFormed(k) ==
  /\ k.side \in {"BUY", "SELL"}
  /\ ValidWinProbability(k.prob)

Forget(at) ==
  /\ decided' = decided \cup {current.id}
  /\ exec' = at
  /\ current' = NoSignal
  /\ quote' = NoQuote

\* Fault: the executor's loop ends with the first malformed signal.
TakeOrQuit ==
  /\ exec = "idle"
  /\ signalCh # << >>
  /\ signalCh' = Tail(signalCh)
  /\ LET sig == Head(signalCh) IN
     IF WellFormed(sig.kind) /\ ~cancelled
     THEN exec' = "asking" /\ current' = sig /\ UNCHANGED decided
     ELSE exec' = "gone" /\ decided' = decided \cup {sig.id} /\ UNCHANGED current
  /\ UNCHANGED <<traderVars, moveVars, quote, cancelled, placed>>

\* Fault: the call to the money manager is not given the context.
TakeWithoutContext ==
  /\ exec = "idle"
  /\ signalCh # << >>
  /\ signalCh' = Tail(signalCh)
  /\ LET sig == Head(signalCh) IN
     IF WellFormed(sig.kind)
     THEN /\ exec' = "asking"
          /\ current' = sig
          /\ UNCHANGED decided
     ELSE /\ decided' = decided \cup {sig.id}
          /\ UNCHANGED <<exec, current>>
  /\ UNCHANGED <<traderVars, moveVars, quote, cancelled, placed>>

\* A call with a cancelled context fails at once, so the signal is done with.
TakeSignal ==
  /\ exec = "idle"
  /\ signalCh # << >>
  /\ signalCh' = Tail(signalCh)
  /\ LET sig == Head(signalCh) IN
     IF WellFormed(sig.kind) /\ ~cancelled
     THEN /\ exec' = "asking"
          /\ current' = sig
          /\ UNCHANGED decided
     ELSE /\ decided' = decided \cup {sig.id}
          /\ UNCHANGED <<exec, current>>
  /\ UNCHANGED <<traderVars, moveVars, quote, cancelled, placed>>

\* BuildOrder's payload: salt, encoding and signature are opaque.
SignedOrder(b, price) ==
  [balance |-> b,
   maker |-> MakerAmount(price, Size(b, price)),
   taker |-> TakerAmount(Size(b, price))]

\* ProcessSignal: Allocate reads the balance, BuildOrder signs the amounts.
\* The wallet on chain may have changed since the last call.
ProcessSignal ==
  /\ exec = "asking"
  /\ LET k == current.kind IN
     /\ PositiveEV(k.side, k.price, k.prob)
     /\ \E b \in Balances :
          /\ Allocates(b, k.price)
          /\ quote' = SignedOrder(b, k.price)
  /\ exec' = "signed"
  /\ UNCHANGED <<traderVars, moveVars, signalCh, current, cancelled, placed, decided>>

\* The server refuses the signal, the balance cannot be read, signing fails,
\* or the call does (the connection, the cancelled context).
ProcessFails ==
  /\ exec \in {"asking", "signed"}
  /\ Forget("idle")
  /\ UNCHANGED <<traderVars, moveVars, signalCh, cancelled, placed>>

\* The answer has arrived; PlaceOrder gets no context.
Answer ==
  /\ exec = "signed"
  /\ exec' = "placing"
  /\ UNCHANGED <<traderVars, moveVars, signalCh, current, quote, cancelled,
                 placed, decided>>

ThisOrder == [signal |-> current, quote |-> quote, late |-> cancelled]

\* The POST reaches the exchange, which accepts the order.
PlaceOrder ==
  /\ exec = "placing"
  /\ placed' = Append(placed, ThisOrder)
  /\ exec' = "answering"
  /\ UNCHANGED <<traderVars, moveVars, signalCh, current, quote, cancelled,
                 decided>>

\* The POST fails or is rejected; or its answer arrives or is lost: the signal
\* is never tried again.
PlaceReturns ==
  /\ exec \in {"placing", "answering"}
  /\ Forget("idle")
  /\ UNCHANGED <<traderVars, moveVars, signalCh, cancelled, placed>>

LeaveExecutor ==
  /\ exec = "idle"
  /\ cancelled
  /\ exec' = "gone"
  /\ UNCHANGED <<traderVars, moveVars, signalCh, current, quote, cancelled,
                 placed, decided>>

-----------------------------------------------------------------------------
(* shutdown.                                                                *)

Cancel ==
  /\ ~cancelled
  /\ \A t \in Traders \ Discovered : stop[t] = "closed"
  /\ cancelled' = TRUE
  /\ UNCHANGED <<traderVars, moveVars, signalCh, execVars, placed,
                 decided>>

\* main returns; a POST under way may have been sent or not.
Exit ==
  /\ exec # "dead"
  /\ cancelled
  /\ forward \subseteq Discovered
  /\ exec' = "dead"
  /\ placed' \in {placed} \cup
                 IF exec = "placing" THEN {Append(placed, ThisOrder)} ELSE {}
  /\ UNCHANGED <<traderVars, moveVars, signalCh, current, quote, cancelled,
                 decided>>

Ended ==
  /\ exec = "dead"
  /\ UNCHANGED vars

ExecSteps ==
  \/ TakeSignal \/ ProcessSignal \/ ProcessFails \/ Answer \/ PlaceOrder
  \/ PlaceReturns \/ LeaveExecutor

Next ==
  \/ \E t \in Traders : \/ Emit(t) \/ StopTrader(t) \/ ReceiveSignal(t)
                        \/ ForwardSignal(t) \/ LeaveForwarder(t)
  \/ ExecSteps
  \/ Cancel \/ Exit \/ Ended

Spec == Init /\ [][Next]_vars

\* Goroutines are scheduled; a select between a done context and a channel
\* that always has something takes the context in the end.  The money manager
\* and the exchange need not answer, and nobody has to interrupt.
Fairness ==
  /\ \A t \in Traders : /\ WF_vars(ReceiveSignal(t))
                        /\ SF_vars(ForwardSignal(t))
                        /\ WF_vars(LeaveForwarder(t))
  /\ WF_vars(TakeSignal)
  /\ SF_vars(LeaveExecutor)
  /\ WF_vars(Exit)

FairSpec == Spec /\ Fairness

-----------------------------------------------------------------------------
(* Properties.                                                              *)

Ids(s) == {s[i].id : i \in 1 .. Len(s)}
InHand(t) == IF hand[t] = NoSignal THEN {} ELSE {hand[t].id}

\* The signals on their way to the executor or with it.
Pending ==
  {n \in 1 .. MaxSignals :
     \/ \E t \in Traders : n \in Ids(signals[t]) \cup InHand(t)
     \/ n \in Ids(signalCh)
     \/ current # NoSignal /\ n = current.id}

\* "optional absolute USDC cap per signal", "fraction of balance to allocate":
\* whatever became of the balance meanwhile, an order at the exchange spends
\* no more than the balance its sizing read, no more than the cap, and no more
\* than the allocated share rounded to the unit; and it buys more than it pays.
SpendIsBounded ==
  \A i \in 1 .. Len(placed) :
    LET q == placed[i].quote IN
    /\ 0 < q.maker /\ q.maker <= q.balance
    /\ MaxOrder > 0 => q.maker <= MaxOrder
    /\ 2 * q.maker * PctDen <= 2 * q.balance * PctNum + PctDen
    /\ q.maker < q.taker

\* After the context is cancelled at most one order still reaches the
\* exchange: the one whose call was under way.
OneLateOrder ==
  \A i \in 1 .. Len(placed) : placed[i].late => i = Len(placed)

\* A signal leaves the pipeline only by a decision of the executor, until the
\* context is cancelled.
NothingIsLost ==
  [][~cancelled => Pending \subseteq Pending' \cup decided']_vars

\* While the money manager and the exchange answer and signals come to an end,
\* every accepted signal is decided in the end, or the program is being
\* stopped; neither call has a deadline, so that one of them that hangs stops
\* all signals.
CallsReturn == []<>(exec \notin {"asking", "signed", "placing", "answering"})
AcceptedIsDecided == CallsReturn => <>[](Pending = {} \/ cancelled)

\* After the cancellation main always returns: no forwarder stays blocked on a
\* full channel, even if the executor hangs in a call.
MainReturns == cancelled ~> exec = "dead"

\* The pipeline comes to an end either way: by a decision about every signal,
\* or by the end of main.
PipelineEnds == AcceptedIsDecided /\ MainReturns
=============================================================================
