-------------------------- MODULE TraderLifecycle ---------------------------
(***************************************************************************)
(* The life of the ATPTraders of one process: Start subscribes the tokens  *)
(* of a market one by one and starts a listener for each, a resolved       *)
(* market stops its trader from a listener (go t.Stop()), the registry of  *)
(* main.go forwards signals and, on an interrupt, stops every trader it    *)
(* knows before the context is cancelled.                                  *)
(*                                                                         *)
(* Source: polymarket/core/atp_trader.go and polymarket/main.go.  A        *)
(* channel is its trader and the index of its token, 0 for the channel of  *)
(* the sports feed.                                                        *)
(***************************************************************************)
EXTENDS Naturals

CONSTANTS
  Traders,    \* the traders of the process
  Initial,    \* those main starts itself; the others come from discovery
  Sports,     \* those whose market has a game identifier
  NumTokens,  \* outcome tokens of a market (2 in practice)
  NoTrader

ASSUME LifecycleAssumption ==
  /\ Initial \subseteq Traders
  /\ Sports \subseteq Traders
  /\ NumTokens \in Nat \ {0}
  /\ NoTrader \notin Traders

VARIABLES
  starter,     \* where the goroutine that starts the trader stands
  marketSubs,  \* length of ATPTrader.marketSubs
  sportsSub,   \* traders whose ATPTrader.sportsSub is set
  subscribed,  \* channels the two feeds deliver to
  listeners,   \* channels with a running listener goroutine (listenersWg)
  resolved,    \* traders for which a listener has spawned go t.Stop()
  stopper,     \* where the one execution of stopOnce's function stands
  toUnsub,     \* what is left of the marketSubs Stop ranges over
  raced,       \* traders whose Stop began before their Start had returned
  registry,    \* traderRegistry.traders
  forwarders,  \* traders with a running forwarder goroutine (forwardWg)
  main,        \* where main stands
  stopList,    \* the traders StopAll has copied
  stopping,    \* the trader whose Stop StopAll has called
  crashed

startVars == <<starter, marketSubs, sportsSub>>
stopVars  == <<resolved, stopper, toUnsub, raced>>
mainVars  == <<main, stopList, stopping>>
vars == <<startVars, subscribed, listeners, stopVars, registry, forwarders,
          mainVars, crashed>>

TokenIndices == 1 .. NumTokens
Channels == Traders \X (0 .. NumTokens)

\* The program points inside ATPTrader.Start.
InStart == {"subscribe", "append", "sports", "sportsSet"}

Alive == main # "exited" /\ ~crashed
Cancelled == main \in {"waiting", "closing", "exited"}
StopClosed(r) == stopper[r] \in {"wait", "done"}
HasListener(r) == \E i \in 0 .. NumTokens : <<r, i>> \in listeners

TypeOK ==
  /\ starter \in [Traders -> {"none", "failed", "register", "forward", "done"}
                             \cup InStart]
  /\ marketSubs \in [Traders -> 0 .. NumTokens]
  /\ sportsSub \in SUBSET Sports
  /\ subscribed \in SUBSET Channels
  /\ listeners \in SUBSET Channels
  /\ resolved \in SUBSET Traders
  /\ stopper \in [Traders -> {"no", "market", "sports", "close", "wait", "done"}]
  /\ toUnsub \in [Traders -> SUBSET TokenIndices]
  /\ raced \in SUBSET Traders
  /\ registry \in SUBSET Traders
  /\ forwarders \in SUBSET registry
  /\ main \in {"running", "stopping", "waiting", "closing", "exited"}
  /\ stopList \in SUBSET registry
  /\ stopping \in stopList \cup {NoTrader}
  /\ crashed \in BOOLEAN

Init ==
  /\ starter = [r \in Traders |-> "none"]
  /\ marketSubs = [r \in Traders |-> 0]
  /\ sportsSub = {}
  /\ subscribed = {}
  /\ listeners = {}
  /\ resolved = {}
  /\ stopper = [r \in Traders |-> "no"]
  /\ toUnsub = [r \in Traders |-> {}]
  /\ raced = {}
  /\ registry = {}
  /\ forwarders = {}
  /\ main = "running"
  /\ stopList = {}
  /\ stopping = NoTrader
  /\ crashed = FALSE

-----------------------------------------------------------------------------
(* Start, called by main for one initial trader after the other and by a    *)
(* discovery goroutine for every other.                                     *)

\* main starts its traders before it registers any; discovery begins after.
MayStart(r) ==
  \A q \in Initial \ {r} :
    IF r \in Initial THEN starter[q] \in {"none", "failed", "register"}
    ELSE starter[q] \in {"failed", "done"}

BeginStart(r) ==
  /\ Alive
  /\ starter[r] = "none"
  /\ MayStart(r)
  /\ starter' = [starter EXCEPT ![r] = "subscribe"]
  /\ UNCHANGED <<marketSubs, sportsSub, subscribed, listeners, stopVars,
                 registry, forwarders, mainVars, crashed>>

\* Start returns an error before it has done anything; the trader is dropped.
RejectStart(r) ==
  /\ Alive
  /\ starter[r] = "none"
  /\ MayStart(r)
  /\ starter' = [starter EXCEPT ![r] = "failed"]
  /\ UNCHANGED <<marketSubs, sportsSub, subscribed, listeners, stopVars,
                 registry, forwarders, mainVars, crashed>>

SubscribeToken(r) ==
  /\ Alive
  /\ starter[r] = "subscribe"
  /\ subscribed' = subscribed \cup {<<r, marketSubs[r] + 1>>}
  /\ starter' = [starter EXCEPT ![r] = "append"]
  /\ UNCHANGED <<marketSubs, sportsSub, listeners, stopVars, registry,
                 forwarders, mainVars, crashed>>

\* Fault: the loop runs once too often.
AppendOnceMore(r) ==
  /\ Alive
  /\ starter[r] = "append"
  /\ marketSubs' = [marketSubs EXCEPT ![r] = @ + 1]
  /\ listeners' = listeners \cup {<<r, marketSubs[r] + 1>>}
  /\ starter' = [starter EXCEPT ![r] =
                   IF marketSubs[r] = NumTokens THEN "sports" ELSE "subscribe"]
  /\ UNCHANGED <<sportsSub, subscribed, stopVars, registry, forwarders,
                 mainVars, crashed>>

AppendAndListen(r) ==
  /\ Alive
  /\ starter[r] = "append"
  /\ marketSubs' = [marketSubs EXCEPT ![r] = @ + 1]
  /\ listeners' = listeners \cup {<<r, marketSubs[r] + 1>>}
  /\ starter' = [starter EXCEPT ![r] =
                   IF marketSubs[r] + 1 = NumTokens THEN "sports"
                   ELSE "subscribe"]
  /\ UNCHANGED <<sportsSub, subscribed, stopVars, registry, forwarders,
                 mainVars, crashed>>

SubscribeSports(r) ==
  /\ Alive
  /\ starter[r] = "sports"
  /\ IF r \in Sports
     THEN /\ subscribed' = subscribed \cup {<<r, 0>>}
          /\ starter' = [starter EXCEPT ![r] = "sportsSet"]
     ELSE /\ starter' = [starter EXCEPT ![r] = "register"]
          /\ UNCHANGED subscribed
  /\ UNCHANGED <<marketSubs, sportsSub, listeners, stopVars, registry,
                 forwarders, mainVars, crashed>>

SetSportsSub(r) ==
  /\ Alive
  /\ starter[r] = "sportsSet"
  /\ sportsSub' = sportsSub \cup {r}
  /\ listeners' = listeners \cup {<<r, 0>>}
  /\ starter' = [starter EXCEPT ![r] = "register"]
  /\ UNCHANGED <<marketSubs, subscribed, stopVars, registry, forwarders,
                 mainVars, crashed>>

-----------------------------------------------------------------------------
(* traderRegistry.Register and the forwarders.                              *)

Register(r) ==
  /\ Alive
  /\ starter[r] = "register"
  /\ r \in Initial =>
       \A q \in Initial : starter[q] \notin {"none"} \cup InStart
  /\ registry' = registry \cup {r}
  /\ starter' = [starter EXCEPT ![r] = "forward"]
  /\ UNCHANGED <<marketSubs, sportsSub, subscribed, listeners, stopVars,
                 forwarders, mainVars, crashed>>

StartForwarder(r) ==
  /\ Alive
  /\ starter[r] = "forward"
  /\ forwarders' = forwarders \cup {r}
  /\ starter' = [starter EXCEPT ![r] = "done"]
  /\ UNCHANGED <<marketSubs, sportsSub, subscribed, listeners, stopVars,
                 registry, mainVars, crashed>>

\* The signals channel is closed, or the context done.
LeaveForwarder(r) ==
  /\ Alive
  /\ r \in forwarders
  /\ stopper[r] = "done" \/ Cancelled
  /\ forwarders' = forwarders \ {r}
  /\ UNCHANGED <<startVars, subscribed, listeners, stopVars, registry,
                 mainVars, crashed>>

-----------------------------------------------------------------------------
(* The listeners.                                                           *)

\* A market_resolved event waiting in a token's channel reaches its listener,
\* which may still prefer it to a closed stop channel.
ResolveMarket(r) ==
  /\ Alive
  /\ r \notin resolved
  /\ \E i \in TokenIndices : <<r, i>> \in listeners
  /\ resolved' = resolved \cup {r}
  /\ UNCHANGED <<startVars, subscribed, listeners, stopper, toUnsub, raced,
                 registry, forwarders, mainVars, crashed>>

\* Fault: the listener that sees the resolution calls Stop itself and leaves
\* when that returns.
LeaveAfterStop(r, i) ==
  /\ Alive
  /\ <<r, i>> \in listeners
  /\ StopClosed(r) \/ Cancelled
  /\ r \in resolved /\ i = 1 => stopper[r] = "done"
  /\ listeners' = listeners \ {<<r, i>>}
  /\ UNCHANGED <<startVars, subscribed, stopVars, registry, forwarders,
                 mainVars, crashed>>

LeaveListener(r, i) ==
  /\ Alive
  /\ <<r, i>> \in listeners
  /\ StopClosed(r) \/ Cancelled
  /\ listeners' = listeners \ {<<r, i>>}
  /\ UNCHANGED <<startVars, subscribed, stopVars, registry, forwarders,
                 mainVars, crashed>>

-----------------------------------------------------------------------------
(* Stop: the function stopOnce runs for the first of the callers; the others*)
(* wait for it.                                                             *)

\* Fault: the subscriptions are left to the feed.
StopWithoutUnsubscribe(r) ==
  /\ Alive
  /\ stopper[r] = "no"
  /\ r \in resolved \/ stopping = r
  /\ stopper' = [stopper EXCEPT ![r] = "close"]
  /\ raced' = IF starter[r] \in InStart THEN raced \cup {r} ELSE raced
  /\ UNCHANGED <<startVars, subscribed, listeners, resolved, toUnsub,
                 registry, forwarders, mainVars, crashed>>

\* range reads the slice once.  Start appends to it without a lock: a read in
\* the middle of an append may see the new length with the old array, and
\* Stop then runs past its end.
BeginStop(r) ==
  /\ Alive
  /\ stopper[r] = "no"
  /\ r \in resolved \/ stopping = r
  /\ stopper' = [stopper EXCEPT ![r] = "market"]
  /\ toUnsub' = [toUnsub EXCEPT ![r] = 1 .. marketSubs[r]]
  /\ raced' = IF starter[r] \in InStart THEN raced \cup {r} ELSE raced
  /\ crashed' \in {FALSE, starter[r] = "append"}
  /\ UNCHANGED <<startVars, subscribed, listeners, resolved, registry,
                 forwarders, mainVars>>

\* An error of the feed's Unsubscribe is logged; the channel is gone anyway.
UnsubscribeToken(r) ==
  /\ Alive
  /\ stopper[r] = "market"
  /\ \E i \in toUnsub[r] :
       /\ \A j \in toUnsub[r] : i <= j
       /\ subscribed' = subscribed \ {<<r, i>>}
       /\ toUnsub' = [toUnsub EXCEPT ![r] = @ \ {i}]
  /\ UNCHANGED <<startVars, listeners, resolved, stopper, raced, registry,
                 forwarders, mainVars, crashed>>

UnsubscribeSports(r) ==
  /\ Alive
  /\ stopper[r] = "market"
  /\ toUnsub[r] = {}
  /\ subscribed' = IF r \in sportsSub THEN subscribed \ {<<r, 0>>}
                   ELSE subscribed
  /\ stopper' = [stopper EXCEPT ![r] = "close"]
  /\ UNCHANGED <<startVars, listeners, resolved, toUnsub, raced, registry,
                 forwarders, mainVars, crashed>>

CloseStop(r) ==
  /\ Alive
  /\ stopper[r] = "close"
  /\ stopper' = [stopper EXCEPT ![r] = "wait"]
  /\ UNCHANGED <<startVars, subscribed, listeners, resolved, toUnsub, raced,
                 registry, forwarders, mainVars, crashed>>

\* Fault: the listeners are not waited for.
CloseSignalsAtOnce(r) ==
  /\ Alive
  /\ stopper[r] = "wait"
  /\ stopper' = [stopper EXCEPT ![r] = "done"]
  /\ UNCHANGED <<startVars, subscribed, listeners, resolved, toUnsub, raced,
                 registry, forwarders, mainVars, crashed>>

\* listenersWg.Wait, then close(t.signals).
CloseSignals(r) ==
  /\ Alive
  /\ stopper[r] = "wait"
  /\ ~HasListener(r)
  /\ stopper' = [stopper EXCEPT ![r] = "done"]
  /\ UNCHANGED <<startVars, subscribed, listeners, resolved, toUnsub, raced,
                 registry, forwarders, mainVars, crashed>>

-----------------------------------------------------------------------------
(* shutdown in main.go.                                                     *)

Interrupt ==
  /\ Alive
  /\ main = "running"
  /\ \A r \in Initial : starter[r] \in {"failed", "done"}
  /\ main' = "stopping"
  /\ stopList' = registry
  /\ UNCHANGED <<startVars, subscribed, listeners, stopVars, registry,
                 forwarders, stopping, crashed>>

StopNext(r) ==
  /\ Alive
  /\ main = "stopping"
  /\ stopping = NoTrader
  /\ r \in stopList
  /\ stopper[r] # "done"
  /\ stopping' = r
  /\ UNCHANGED <<startVars, subscribed, listeners, stopVars, registry,
                 forwarders, main, stopList, crashed>>

StopReturns ==
  /\ Alive
  /\ stopping # NoTrader
  /\ stopper[stopping] = "done"
  /\ stopping' = NoTrader
  /\ UNCHANGED <<startVars, subscribed, listeners, stopVars, registry,
                 forwarders, main, stopList, crashed>>

\* Fault: the context is cancelled before the traders are stopped.
CancelFirst ==
  /\ Alive
  /\ main = "stopping"
  /\ stopping = NoTrader
  /\ main' = "waiting"
  /\ UNCHANGED <<startVars, subscribed, listeners, stopVars, registry,
                 forwarders, stopList, stopping, crashed>>

Cancel ==
  /\ Alive
  /\ main = "stopping"
  /\ stopping = NoTrader
  /\ \A r \in stopList : stopper[r] = "done"
  /\ main' = "waiting"
  /\ UNCHANGED <<startVars, subscribed, listeners, stopVars, registry,
                 forwarders, stopList, stopping, crashed>>

WaitForForwarders ==
  /\ Alive
  /\ main = "waiting"
  /\ forwarders = {}
  /\ main' = "closing"
  /\ UNCHANGED <<startVars, subscribed, listeners, stopVars, registry,
                 forwarders, stopList, stopping, crashed>>

\* The Stop of both feeds; then main returns and the process ends.
StopFeeds ==
  /\ Alive
  /\ main = "closing"
  /\ main' = "exited"
  /\ UNCHANGED <<startVars, subscribed, listeners, stopVars, registry,
                 forwarders, stopList, stopping, crashed>>

Ended ==
  /\ ~Alive
  /\ UNCHANGED vars

StartSteps(r) ==
  \/ BeginStart(r) \/ RejectStart(r) \/ SubscribeToken(r) \/ AppendAndListen(r)
  \/ SubscribeSports(r) \/ SetSportsSub(r) \/ Register(r) \/ StartForwarder(r)

StopSteps(r) ==
  \/ BeginStop(r) \/ UnsubscribeToken(r) \/ UnsubscribeSports(r)
  \/ CloseStop(r) \/ CloseSignals(r)

MainSteps ==
  \/ \E r \in Traders : StopNext(r)
  \/ StopReturns \/ Cancel \/ WaitForForwarders \/ StopFeeds

Next ==
  \/ \E r \in Traders : \/ StartSteps(r) \/ StopSteps(r)
                        \/ ResolveMarket(r) \/ LeaveForwarder(r)
  \/ \E r \in Traders, i \in 0 .. NumTokens : LeaveListener(r, i)
  \/ Interrupt
  \/ MainSteps
  \/ Ended

Spec == Init /\ [][Next]_vars

\* Every goroutine is scheduled; a select with a closed channel takes it in
\* the end.  No trader has to begin, no market to resolve, nobody interrupts.
Fairness ==
  /\ \A r \in Traders : /\ WF_vars(starter[r] # "none" /\ StartSteps(r))
                        /\ WF_vars(StopSteps(r))
                        /\ WF_vars(LeaveForwarder(r))
  /\ \A r \in Traders, i \in 0 .. NumTokens : WF_vars(LeaveListener(r, i))
  /\ WF_vars(MainSteps)

FairSpec == Spec /\ Fairness

-----------------------------------------------------------------------------
(* Properties.                                                              *)

\* A channel a feed delivers to has a listener that empties it, or one is
\* about to start, or Stop is about to unsubscribe it: unless Stop overtook
\* Start, a trader is never subscribed and deaf while the process works.
NoDeafSubscription ==
  ~Cancelled =>
    \A r \in Traders, i \in 0 .. NumTokens : <<r, i>> \in subscribed =>
      \/ <<r, i>> \in listeners
      \/ starter[r] = "append" /\ i = marketSubs[r] + 1
      \/ starter[r] = "sportsSet" /\ i = 0
      \/ r \in raced

\* The signals channel is closed only when no listener can send on it any
\* more and the feeds hold none of the trader's channels, unless Stop
\* overtook Start.
StoppedIsSilent ==
  \A r \in Traders : stopper[r] = "done" /\ r \notin raced =>
    ~HasListener(r) /\ \A i \in 0 .. NumTokens : <<r, i>> \notin subscribed

\* When the feeds are stopped, every trader that was registered at the
\* interrupt has finished its Stop, and its forwarder has ended; only one that
\* discovery was registering just then can slip past WaitForForwarders.
CleanExit ==
  main \in {"closing", "exited"} =>
    \A r \in stopList : stopper[r] = "done" /\ (r \in forwarders => r \notin Initial)

\* A trader whose Stop and Start have both returned is subscribed nowhere:
\* "expected traderA subscriptions removed" (test of the resolved event).
StoppedIsUnsubscribed ==
  \A r \in Traders : stopper[r] = "done" /\ starter[r] \notin InStart =>
    \A i \in 0 .. NumTokens : <<r, i>> \notin subscribed

\* An interrupt ends the process, whatever resolves or starts meanwhile.
ShutdownCompletes == main = "stopping" ~> main = "exited" \/ crashed

\* A resolved market's trader is stopped although the Stop waits for the
\* very listener that asked for it.
ResolvedTraderStops ==
  \A r \in Traders : r \in resolved ~> stopper[r] = "done" \/ ~Alive

\* No trader outlives its market or the process: whatever resolves, starts or
\* is interrupted meanwhile, its Stop comes to an end, and so does main.
TradersStop == ShutdownCompletes /\ ResolvedTraderStops
=============================================================================
