-------------------------- MODULE MarketDiscovery ---------------------------
(***************************************************************************)
(* ATPMarketDiscovery of polymarket/core/atp_market_discovery.go, with the *)
(* start-up of main.go that seeds it and the feed that calls it: every     *)
(* new_market event runs HandleNewMarket in a goroutine of its own; those  *)
(* of one slug share a flight (singleflight), and the claims of startedSet *)
(* keep two slugs from starting one market twice.                          *)
(*                                                                         *)
(* A handler is one such goroutine, reused when it has returned.  A market *)
(* is its condition identifier; NoMarket stands for the blank one.  A slug *)
(* is one the screen lets through; NoSlug is any event it drops.           *)
(***************************************************************************)
EXTENDS Naturals, FiniteSets

CONSTANTS
  Markets,       \* condition identifiers
  NoMarket,      \* the blank condition identifier
  Slugs,         \* slugs of ATP moneyline markets
  NoSlug,        \* an event of another kind of market
  Handlers,      \* goroutines that may run HandleNewMarket at once
  NoHandler,
  EmptyRetries   \* emptyResultRetries (3 in the code)

ASSUME DiscoveryAssumption ==
  /\ NoMarket \notin Markets
  /\ NoSlug \notin Slugs
  /\ NoHandler \notin Handlers
  /\ EmptyRetries \in Nat

VARIABLES
  startup,     \* where main stands
  seeds,       \* startedConditionIDs
  startedSet,  \* ATPMarketDiscovery.startedSet
  starts,      \* per market, the traders started successfully
  flight,      \* per slug, the handler whose call is in flight
  pc,          \* where each handler stands
  event,       \* the handler's new_market event
  attempt,     \* hydrateBySlug's loop counter
  market,      \* the market the handler has settled on
  cancelled    \* ctx.Done()

mainVars == <<startup, seeds, cancelled>>
vars == <<mainVars, startedSet, starts, flight, pc, event, attempt, market>>

Events == [slug : Slugs \cup {NoSlug}, want : Markets \cup {NoMarket}]

\* A handler that leads a flight; one that owns the claim of its market.
Leading  == {"fetching", "waiting", "marking", "starting", "unmarking"}
Claiming == {"starting", "unmarking"}

TypeOK ==
  /\ startup \in {"fetching", "started", "serving", "exited"}
  /\ seeds \in SUBSET Markets
  /\ startedSet \in SUBSET Markets
  /\ starts \in [Markets -> Nat]
  /\ flight \in [Slugs -> Handlers \cup {NoHandler}]
  /\ pc \in [Handlers -> {"idle", "spawned", "joined"} \cup Leading]
  /\ event \in [Handlers -> Events]
  /\ attempt \in [Handlers -> 0 .. EmptyRetries]
  /\ market \in [Handlers -> Markets \cup {NoMarket}]
  /\ cancelled \in BOOLEAN

NoEvent == [slug |-> NoSlug, want |-> NoMarket]

Init ==
  /\ startup = "fetching"
  /\ seeds = {}
  /\ startedSet = {}
  /\ starts = [m \in Markets |-> 0]
  /\ flight = [s \in Slugs |-> NoHandler]
  /\ pc = [h \in Handlers |-> "idle"]
  /\ event = [h \in Handlers |-> NoEvent]
  /\ attempt = [h \in Handlers |-> 0]
  /\ market = [h \in Handlers |-> NoMarket]
  /\ cancelled = FALSE

-----------------------------------------------------------------------------
(* main: fetch the open markets, start their traders, seed the discovery.   *)

\* Gamma lists some markets; a trader that does not start is skipped.
StartATPTraders(ms) ==
  /\ startup = "fetching"
  /\ startup' = "started"
  /\ seeds' = ms
  /\ starts' = [m \in Markets |-> IF m \in ms THEN 1 ELSE 0]
  /\ UNCHANGED <<startedSet, flight, pc, event, attempt, market, cancelled>>

\* The program ends when Gamma or the money manager cannot be reached.
StartupFails ==
  /\ startup \in {"fetching", "started"}
  /\ startup' = "exited"
  /\ UNCHANGED <<seeds, startedSet, starts, flight, pc, event, attempt, market,
                 cancelled>>

\* Nothing happens after os.Exit.
Exited ==
  /\ startup = "exited"
  /\ UNCHANGED vars

\* Fault: the markets started at start-up are not handed over.
SeedNothing ==
  /\ startup = "started"
  /\ startup' = "serving"
  /\ UNCHANGED <<seeds, startedSet, starts, flight, pc, event, attempt, market,
                 cancelled>>

\* NewATPMarketDiscovery with the seeds, then OnNewMarket.
SeedDiscovery ==
  /\ startup = "started"
  /\ startup' = "serving"
  /\ startedSet' = seeds
  /\ UNCHANGED <<seeds, starts, flight, pc, event, attempt, market, cancelled>>

Cancel ==
  /\ startup = "serving"
  /\ ~cancelled
  /\ cancelled' = TRUE
  /\ UNCHANGED <<startup, seeds, startedSet, starts, flight, pc, event,
                 attempt, market>>

-----------------------------------------------------------------------------
(* One goroutine of HandleNewMarket.                                        *)

\* Before OnNewMarket the feed drops the event; afterwards it spawns.
NotifyNewMarket(h, ev) ==
  /\ startup = "serving"
  /\ pc[h] = "idle"
  /\ pc' = [pc EXCEPT ![h] = "spawned"]
  /\ event' = [event EXCEPT ![h] = ev]
  /\ UNCHANGED <<mainVars, startedSet, starts, flight, attempt, market>>

\* The leader of a flight returns, and every handler that joined it.
Together(h) ==
  {g \in Handlers : g = h \/ (pc[g] = "joined" /\ event[g].slug = event[h].slug)}

\* Returned handlers are forgotten.
Forget(hs) ==
  /\ pc' = [g \in Handlers |-> IF g \in hs THEN "idle" ELSE pc[g]]
  /\ event' = [g \in Handlers |-> IF g \in hs THEN NoEvent ELSE event[g]]
  /\ attempt' = [g \in Handlers |-> IF g \in hs THEN 0 ELSE attempt[g]]
  /\ market' = [g \in Handlers |-> IF g \in hs THEN NoMarket ELSE market[g]]

\* Fault: the waiting handlers are not released.
ReturnAlone(h) ==
  /\ Forget({h})
  /\ flight' = [flight EXCEPT ![event[h].slug] = NoHandler]

Return(h) ==
  /\ Forget(Together(h))
  /\ flight' = [flight EXCEPT ![event[h].slug] = NoHandler]

ScreenOut(h) ==
  /\ pc[h] = "spawned"
  /\ event[h].slug = NoSlug
  /\ Forget({h})
  /\ UNCHANGED <<mainVars, startedSet, starts, flight>>

JoinFlight(h) ==
  /\ pc[h] = "spawned"
  /\ event[h].slug # NoSlug
  /\ flight[event[h].slug] # NoHandler
  /\ pc' = [pc EXCEPT ![h] = "joined"]
  /\ UNCHANGED <<mainVars, startedSet, starts, flight, event, attempt, market>>

LeadFlight(h) ==
  /\ pc[h] = "spawned"
  /\ event[h].slug # NoSlug
  /\ flight[event[h].slug] = NoHandler
  /\ flight' = [flight EXCEPT ![event[h].slug] = h]
  /\ pc' = [pc EXCEPT ![h] = "fetching"]
  /\ UNCHANGED <<mainVars, startedSet, starts, event, attempt, market>>

GammaFails(h) ==
  /\ pc[h] = "fetching"
  /\ Return(h)
  /\ UNCHANGED <<mainVars, startedSet, starts>>

GammaEmpty(h) ==
  /\ pc[h] = "fetching"
  /\ \/ /\ attempt[h] = EmptyRetries
        /\ Return(h)
     \/ /\ attempt[h] # EmptyRetries
        /\ pc' = [pc EXCEPT ![h] = "waiting"]
        /\ UNCHANGED <<flight, event, attempt, market>>
  /\ UNCHANGED <<mainVars, startedSet, starts>>

\* What normalizeMarkets can make of an answer: the wanted market if it is
\* there, or the only one if none was wanted.
Normalized(answer, want) ==
  IF want # NoMarket THEN answer \cap {want}
  ELSE IF Cardinality(answer) = 1 THEN answer ELSE {}

\* A normalized market may still be rejected by FilterATPMarkets.
GammaAnswers(h, answer) ==
  /\ pc[h] = "fetching"
  /\ \/ /\ Return(h)
     \/ /\ \E m \in Normalized(answer, event[h].want) :
             market' = [market EXCEPT ![h] = m]
        /\ pc' = [pc EXCEPT ![h] = "marking"]
        /\ UNCHANGED <<flight, event, attempt>>
  /\ UNCHANGED <<mainVars, startedSet, starts>>

RetryOrGiveUp(h) ==
  /\ pc[h] = "waiting"
  /\ \/ /\ cancelled
        /\ Return(h)
     \/ /\ pc' = [pc EXCEPT ![h] = "fetching"]
        /\ attempt' = [attempt EXCEPT ![h] = @ + 1]
        /\ UNCHANGED <<flight, event, market>>
  /\ UNCHANGED <<mainVars, startedSet, starts>>

MarkStarted(h) ==
  /\ pc[h] = "marking"
  /\ \/ /\ market[h] \in startedSet \cup {NoMarket}
        /\ Return(h)
        /\ UNCHANGED startedSet
     \/ /\ market[h] \notin startedSet \cup {NoMarket}
        /\ startedSet' = startedSet \cup {market[h]}
        /\ pc' = [pc EXCEPT ![h] = "starting"]
        /\ UNCHANGED <<flight, event, attempt, market>>
  /\ UNCHANGED <<mainVars, starts>>

StartTrader(h) ==
  /\ pc[h] = "starting"
  /\ starts' = [starts EXCEPT ![market[h]] = @ + 1]
  /\ Return(h)
  /\ UNCHANGED <<mainVars, startedSet>>

StartTraderFails(h) ==
  /\ pc[h] = "starting"
  /\ pc' = [pc EXCEPT ![h] = "unmarking"]
  /\ UNCHANGED <<mainVars, startedSet, starts, flight, event, attempt, market>>

UnmarkStarted(h) ==
  /\ pc[h] = "unmarking"
  /\ startedSet' = startedSet \ {market[h]}
  /\ Return(h)
  /\ UNCHANGED <<mainVars, starts>>

\* The steps that need no one but the scheduler.
Proceed(h) ==
  \/ ScreenOut(h)
  \/ JoinFlight(h)
  \/ LeadFlight(h)
  \/ RetryOrGiveUp(h)
  \/ MarkStarted(h)
  \/ StartTrader(h)
  \/ StartTraderFails(h)
  \/ UnmarkStarted(h)

Next ==
  \/ \E ms \in SUBSET Markets : StartATPTraders(ms)
  \/ StartupFails
  \/ Exited
  \/ SeedDiscovery
  \/ Cancel
  \/ \E h \in Handlers, ev \in Events : NotifyNewMarket(h, ev)
  \/ \E h \in Handlers : Proceed(h)
  \/ \E h \in Handlers : GammaFails(h) \/ GammaEmpty(h)
  \/ \E h \in Handlers, answer \in SUBSET (Markets \cup {NoMarket}) :
       answer # {} /\ GammaAnswers(h, answer)

Spec == Init /\ [][Next]_vars

\* Goroutines are scheduled.  Gamma's client has no timeout, so an answer is
\* certain only once the context is cancelled, which fails the request.
Fairness ==
  \A h \in Handlers :
    /\ WF_vars(Proceed(h))
    /\ WF_vars(cancelled /\ GammaFails(h))

FairSpec == Spec /\ Fairness

-----------------------------------------------------------------------------
(* Properties.                                                              *)

\* A market gets one trader, however its announcements, the retries and the
\* start-up interleave (startedSet, singleflight, the seeds).
AtMostOneTrader == \A m \in Markets : starts[m] <= 1

\* A claim in startedSet stands for a trader or for one handler on its way
\* to start it: a failed start never blocks the market for good.
NoOrphanClaim ==
  \A m \in startedSet :
    starts[m] = 1 \/ \E h \in Handlers : pc[h] \in Claiming /\ market[h] = m

\* The claims, seen through the start-up that prepares them, and the starts
\* behave as TraderRoster allows.
Roster == INSTANCE TraderRoster
            WITH claimed <- IF startup = "serving" THEN startedSet ELSE seeds

RosterSpec == Roster!Spec

\* Once the context is cancelled every HandleNewMarket returns, those that
\* wait for another one's flight included.
HandlersReturn ==
  \A h \in Handlers : cancelled /\ pc[h] # "idle" ~> pc[h] = "idle"
=============================================================================
