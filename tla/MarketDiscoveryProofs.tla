------------------------ MODULE MarketDiscoveryProofs -----------------------
(***************************************************************************)
(* Safety of MarketDiscovery for every set of markets, slugs and           *)
(* concurrent handlers and every number of retries, and its refinement of  *)
(* TraderRoster.                                                           *)
(***************************************************************************)
EXTENDS MarketDiscovery, TLAPS

-----------------------------------------------------------------------------
(* The inductive invariant.                                                 *)

Claims(h) == pc[h] \in Claiming

\* A handler that waits to ask again has a request left.
RetriesLeft ==
  \A h \in Handlers : pc[h] = "waiting" => attempt[h] # EmptyRetries

\* Until the discovery is seeded no handler runs, and the seeds are exactly
\* the markets started.
StartupInv ==
  startup # "serving" =>
    /\ \A h \in Handlers : pc[h] = "idle"
    /\ \A m \in Markets : starts[m] = IF m \in seeds THEN 1 ELSE 0
    /\ startup = "fetching" => seeds = {}

\* A handler on its way to start a market holds the market's claim, and no
\* trader has been started under it.
ClaimsHeld ==
  \A h \in Handlers : Claims(h) =>
    market[h] \in startedSet /\ starts[market[h]] = 0

\* A claim has one holder.
OneClaimer ==
  \A g, h \in Handlers :
    Claims(g) /\ Claims(h) /\ market[g] = market[h] => g = h

\* A started market stays claimed.
StartsClaimed ==
  startup = "serving" => \A m \in Markets : starts[m] # 0 => m \in startedSet

\* What the claims are about.
ClaimInv ==
  /\ StartupInv
  /\ ClaimsHeld
  /\ OneClaimer
  /\ StartsClaimed
  /\ AtMostOneTrader
  /\ NoOrphanClaim

DiscoveryInv == TypeOK /\ RetriesLeft /\ ClaimInv

-----------------------------------------------------------------------------
(* Type correctness.                                                        *)

LEMMA ForgetType ==
  ASSUME TypeOK, NEW hs, Forget(hs)
  PROVE  /\ pc' \in [Handlers -> {"idle", "spawned", "joined"} \cup Leading]
         /\ event' \in [Handlers -> Events]
         /\ attempt' \in [Handlers -> 0 .. EmptyRetries]
         /\ market' \in [Handlers -> Markets \cup {NoMarket}]
<1>1. NoEvent \in Events
  BY DEF NoEvent, Events
<1>2. 0 \in 0 .. EmptyRetries
  BY DiscoveryAssumption
<1> QED
  BY <1>1, <1>2 DEF TypeOK, Forget

LEMMA ReturnType ==
  ASSUME TypeOK, NEW h \in Handlers, Return(h)
  PROVE  /\ pc' \in [Handlers -> {"idle", "spawned", "joined"} \cup Leading]
         /\ event' \in [Handlers -> Events]
         /\ attempt' \in [Handlers -> 0 .. EmptyRetries]
         /\ market' \in [Handlers -> Markets \cup {NoMarket}]
         /\ flight' \in [Slugs -> Handlers \cup {NoHandler}]
<1>1. Forget(Together(h))
  BY DEF Return
<1>2. flight' \in [Slugs -> Handlers \cup {NoHandler}]
  BY DEF Return, TypeOK
<1> QED
  BY <1>1, <1>2, ForgetType

LEMMA NormalizedType ==
  ASSUME NEW answer \in SUBSET (Markets \cup {NoMarket}), NEW want,
         NEW m \in Normalized(answer, want)
  PROVE  m \in Markets \cup {NoMarket}
  BY DEF Normalized

LEMMA TypeStep ==
  ASSUME TypeOK, RetriesLeft, [Next]_vars
  PROVE  TypeOK'
<1>1. ASSUME NEW ms \in SUBSET Markets, StartATPTraders(ms)
      PROVE  TypeOK'
  BY <1>1 DEF TypeOK, StartATPTraders
<1>2. CASE StartupFails
  BY <1>2 DEF TypeOK, StartupFails
<1>3. CASE SeedDiscovery
  BY <1>3 DEF TypeOK, SeedDiscovery
<1>4. CASE Cancel
  BY <1>4 DEF TypeOK, Cancel
<1>5. ASSUME NEW h \in Handlers, NEW ev \in Events, NotifyNewMarket(h, ev)
      PROVE  TypeOK'
  BY <1>5 DEF TypeOK, NotifyNewMarket, mainVars
<1>6. ASSUME NEW h \in Handlers, Proceed(h)
      PROVE  TypeOK'
  <2>1. CASE ScreenOut(h)
    BY <2>1, ForgetType DEF TypeOK, ScreenOut, mainVars
  <2>2. CASE JoinFlight(h)
    BY <2>2 DEF TypeOK, JoinFlight, mainVars
  <2>3. CASE LeadFlight(h)
    BY <2>3 DEF TypeOK, LeadFlight, mainVars, Leading
  <2>4. CASE RetryOrGiveUp(h)
    <3>1. CASE Return(h)
      BY <2>4, <3>1, ReturnType DEF TypeOK, RetryOrGiveUp, mainVars
    <3>2. CASE ~Return(h)
      <4>1. attempt[h] + 1 \in 0 .. EmptyRetries
        BY <2>4, DiscoveryAssumption DEF TypeOK, RetriesLeft, RetryOrGiveUp
      <4> QED
        BY <2>4, <3>2, <4>1 DEF TypeOK, RetryOrGiveUp, mainVars, Leading
    <3> QED
      BY <3>1, <3>2
  <2>5. CASE MarkStarted(h)
    <3>1. CASE Return(h)
      BY <2>5, <3>1, ReturnType DEF TypeOK, MarkStarted, mainVars
    <3>2. CASE ~Return(h)
      BY <2>5, <3>2 DEF TypeOK, MarkStarted, mainVars, Leading
    <3> QED
      BY <3>1, <3>2
  <2>6. CASE StartTrader(h)
    <3>0. starts \in [Markets -> Nat]
      BY DEF TypeOK
    <3>1. starts' \in [Markets -> Nat]
      <4>1. CASE market[h] \in Markets
        <5>1. starts[market[h]] + 1 \in Nat
          BY <3>0, <4>1
        <5> QED
          BY <2>6, <3>0, <5>1 DEF StartTrader
      <4>2. CASE market[h] \notin Markets
        BY <2>6, <3>0, <4>2 DEF StartTrader
      <4> QED
        BY <4>1, <4>2
    <3> QED
      BY <2>6, <3>1, ReturnType DEF TypeOK, StartTrader, mainVars
  <2>7. CASE StartTraderFails(h)
    BY <2>7 DEF TypeOK, StartTraderFails, mainVars, Leading
  <2>8. CASE UnmarkStarted(h)
    BY <2>8, ReturnType DEF TypeOK, UnmarkStarted, mainVars
  <2> QED
    BY <1>6, <2>1, <2>2, <2>3, <2>4, <2>5, <2>6, <2>7, <2>8 DEF Proceed
<1>7. ASSUME NEW h \in Handlers, GammaFails(h) \/ GammaEmpty(h)
      PROVE  TypeOK'
  <2>1. CASE Return(h)
    BY <1>7, <2>1, ReturnType DEF TypeOK, GammaFails, GammaEmpty, mainVars
  <2>2. CASE ~Return(h)
    BY <1>7, <2>2 DEF TypeOK, GammaFails, GammaEmpty, mainVars, Leading
  <2> QED
    BY <2>1, <2>2
<1>8. ASSUME NEW h \in Handlers,
             NEW answer \in SUBSET (Markets \cup {NoMarket}),
             GammaAnswers(h, answer)
      PROVE  TypeOK'
  <2>1. CASE Return(h)
    BY <1>8, <2>1, ReturnType DEF TypeOK, GammaAnswers, mainVars
  <2>2. CASE ~Return(h)
    <3>1. market' \in [Handlers -> Markets \cup {NoMarket}]
      BY <1>8, <2>2, NormalizedType DEF TypeOK, GammaAnswers
    <3> QED
      BY <1>8, <2>2, <3>1 DEF TypeOK, GammaAnswers, mainVars, Leading
  <2> QED
    BY <2>1, <2>2
<1>9. CASE UNCHANGED vars
  BY <1>9 DEF TypeOK, vars, mainVars
<1> QED
  BY <1>1, <1>2, <1>3, <1>4, <1>5, <1>6, <1>7, <1>8, <1>9
  DEF Next, Exited

LEMMA ReturnRetries ==
  ASSUME TypeOK, RetriesLeft, NEW h \in Handlers, Return(h)
  PROVE  RetriesLeft'
  BY DEF TypeOK, RetriesLeft, Return, Forget

LEMMA RetriesStep ==
  ASSUME TypeOK, RetriesLeft, [Next]_vars
  PROVE  RetriesLeft'
<1>1. ASSUME NEW h \in Handlers, Return(h)
      PROVE  RetriesLeft'
  BY <1>1, ReturnRetries
<1>2. ASSUME NEW h \in Handlers, ~Return(h), Proceed(h)
      PROVE  RetriesLeft'
  <2>1. CASE ScreenOut(h)
    BY <2>1 DEF TypeOK, RetriesLeft, ScreenOut, Forget
  <2>2. CASE JoinFlight(h) \/ LeadFlight(h) \/ StartTraderFails(h)
    BY <2>2 DEF TypeOK, RetriesLeft, JoinFlight, LeadFlight, StartTraderFails
  <2>3. CASE RetryOrGiveUp(h)
    BY <1>2, <2>3 DEF TypeOK, RetriesLeft, RetryOrGiveUp
  <2>4. CASE MarkStarted(h)
    BY <1>2, <2>4 DEF TypeOK, RetriesLeft, MarkStarted
  <2> QED
    BY <1>2, <2>1, <2>2, <2>3, <2>4 DEF Proceed, StartTrader, UnmarkStarted
<1>3. ASSUME NEW h \in Handlers, ~Return(h), GammaFails(h) \/ GammaEmpty(h)
      PROVE  RetriesLeft'
  BY <1>3 DEF TypeOK, RetriesLeft, GammaFails, GammaEmpty
<1>4. ASSUME NEW h \in Handlers, NEW answer, ~Return(h),
             GammaAnswers(h, answer)
      PROVE  RetriesLeft'
  BY <1>4 DEF TypeOK, RetriesLeft, GammaAnswers
<1>5. ASSUME NEW h \in Handlers, NEW ev, NotifyNewMarket(h, ev)
      PROVE  RetriesLeft'
  BY <1>5 DEF TypeOK, RetriesLeft, NotifyNewMarket
<1>6. CASE \/ \E ms \in SUBSET Markets : StartATPTraders(ms)
           \/ StartupFails
           \/ SeedDiscovery
           \/ Cancel
           \/ UNCHANGED vars
  BY <1>6 DEF RetriesLeft, StartATPTraders, StartupFails, SeedDiscovery,
              Cancel, vars
<1> QED
  BY <1>1, <1>2, <1>3, <1>4, <1>5, <1>6 DEF Next, Exited

-----------------------------------------------------------------------------
(* Preservation of ClaimInv.                                                *)

\* A step that leaves the claims and the start-up as they are.
SameClaims ==
  /\ \A g \in Handlers : /\ Claims(g)' <=> Claims(g)
                         /\ Claims(g) => market'[g] = market[g]
  /\ UNCHANGED <<startedSet, starts, startup, seeds>>

LEMMA SameClaimsStep ==
  ASSUME TypeOK, ClaimInv, startup = "serving", SameClaims
  PROVE  ClaimInv'
<1> USE DEF SameClaims
<1>1. StartupInv' /\ StartsClaimed' /\ AtMostOneTrader'
  BY DEF ClaimInv, StartupInv, StartsClaimed, AtMostOneTrader
<1>2. ClaimsHeld'
  BY DEF ClaimInv, ClaimsHeld, Claims
<1>3. OneClaimer'
  BY DEF ClaimInv, OneClaimer, Claims
<1>4. NoOrphanClaim'
  BY DEF ClaimInv, NoOrphanClaim, Claims
<1> QED
  BY <1>1, <1>2, <1>3, <1>4 DEF ClaimInv

\* Returning drops the claim of the handler itself and of nobody else.
LEMMA ReturnClaims ==
  ASSUME TypeOK, NEW h \in Handlers, Return(h)
  PROVE  /\ ~Claims(h)'
         /\ \A g \in Handlers \ {h} : /\ Claims(g)' <=> Claims(g)
                                      /\ Claims(g) => market'[g] = market[g]
  BY DEF TypeOK, Return, Forget, Together, Claims, Claiming

LEMMA ReturnSame ==
  ASSUME TypeOK, NEW h \in Handlers, Return(h), ~Claims(h),
         UNCHANGED <<startedSet, starts, startup, seeds>>
  PROVE  SameClaims
  BY ReturnClaims DEF SameClaims

\* Handlers run only once the discovery serves.
LEMMA Serving ==
  ASSUME StartupInv, NEW h \in Handlers, pc[h] # "idle"
  PROVE  startup = "serving"
  BY DEF StartupInv

LEMMA ProceedClaims ==
  ASSUME TypeOK, ClaimInv, NEW h \in Handlers, Proceed(h)
  PROVE  ClaimInv'
<1> USE DEF mainVars
<1>0. startup = "serving"
  BY Serving DEF ClaimInv, Proceed, ScreenOut, JoinFlight, LeadFlight,
                 RetryOrGiveUp, MarkStarted, StartTrader, StartTraderFails,
                 UnmarkStarted
<1>1. CASE ScreenOut(h)
  <2>1. SameClaims
    BY <1>1 DEF ScreenOut, Forget, SameClaims, Claims, Claiming, TypeOK
  <2> QED
    BY <1>0, <2>1, SameClaimsStep
<1>2. CASE JoinFlight(h) \/ LeadFlight(h)
  <2>1. SameClaims
    BY <1>2 DEF JoinFlight, LeadFlight, SameClaims, Claims, Claiming, TypeOK
  <2> QED
    BY <1>0, <2>1, SameClaimsStep
<1>3. CASE RetryOrGiveUp(h)
  <2>1. CASE Return(h)
    BY <1>0, <1>3, <2>1, ReturnSame, SameClaimsStep
    DEF RetryOrGiveUp, Claims, Claiming
  <2>2. CASE ~Return(h)
    <3>1. SameClaims
      BY <1>3, <2>2 DEF RetryOrGiveUp, SameClaims, Claims, Claiming, TypeOK
    <3> QED
      BY <1>0, <3>1, SameClaimsStep
  <2> QED
    BY <2>1, <2>2
<1>4. CASE MarkStarted(h)
  <2>1. CASE Return(h) /\ UNCHANGED startedSet
    BY <1>0, <1>4, <2>1, ReturnSame, SameClaimsStep
    DEF MarkStarted, Claims, Claiming
  <2>2. CASE /\ market[h] \notin startedSet \cup {NoMarket}
             /\ startedSet' = startedSet \cup {market[h]}
             /\ pc' = [pc EXCEPT ![h] = "starting"]
             /\ UNCHANGED <<flight, event, attempt, market>>
    <3>0. UNCHANGED <<starts, startup, seeds>>
      BY <1>4 DEF MarkStarted
    <3>1. market[h] \in Markets
      BY <2>2 DEF TypeOK
    <3>2. \A g \in Handlers : Claims(g)' <=> Claims(g) \/ g = h
      BY <2>2 DEF TypeOK, Claims, Claiming
    <3>3. starts[market[h]] = 0
      BY <1>0, <2>2, <3>1 DEF ClaimInv, StartsClaimed
    <3>4. StartupInv' /\ StartsClaimed' /\ AtMostOneTrader'
      BY <1>0, <2>2, <3>0
      DEF ClaimInv, StartupInv, StartsClaimed, AtMostOneTrader
    <3>5. ClaimsHeld'
      BY <2>2, <3>0, <3>2, <3>3 DEF ClaimInv, ClaimsHeld
    <3>6. OneClaimer'
      BY <2>2, <3>2 DEF ClaimInv, OneClaimer, ClaimsHeld
    <3>7. NoOrphanClaim'
      <4> SUFFICES ASSUME NEW m \in startedSet'
                   PROVE  \/ starts'[m] = 1
                          \/ \E g \in Handlers : Claims(g)' /\ market'[g] = m
        BY DEF NoOrphanClaim, Claims
      <4>1. CASE m = market[h]
        BY <2>2, <3>2, <4>1
      <4>2. CASE m # market[h]
        BY <2>2, <3>0, <3>2, <4>2 DEF ClaimInv, NoOrphanClaim, Claims
      <4> QED
        BY <4>1, <4>2
    <3> QED
      BY <3>4, <3>5, <3>6, <3>7 DEF ClaimInv
  <2> QED
    BY <1>4, <2>1, <2>2 DEF MarkStarted
<1>5. CASE StartTrader(h)
  <2> DEFINE m == market[h]
  <2>1. Claims(h)
    BY <1>5 DEF StartTrader, Claims, Claiming
  <2>2. m \in startedSet /\ m \in Markets /\ starts[m] = 0
    BY <2>1 DEF ClaimInv, ClaimsHeld, TypeOK
  <2>3. starts' = [starts EXCEPT ![m] = 1]
    BY <1>5, <2>2 DEF StartTrader
  <2>4. /\ ~Claims(h)'
        /\ \A g \in Handlers \ {h} : /\ Claims(g)' <=> Claims(g)
                                     /\ Claims(g) => market'[g] = market[g]
    BY <1>5, ReturnClaims DEF StartTrader
  <2>5. UNCHANGED <<startedSet, startup, seeds>>
    BY <1>5 DEF StartTrader
  <2> HIDE DEF m
  <2>6. StartupInv' /\ StartsClaimed' /\ AtMostOneTrader'
    BY <1>0, <2>2, <2>3, <2>5
    DEF ClaimInv, StartupInv, StartsClaimed, AtMostOneTrader, TypeOK
  <2>7. ClaimsHeld'
    <3> SUFFICES ASSUME NEW g \in Handlers, Claims(g)'
                 PROVE  market'[g] \in startedSet' /\ starts'[market'[g]] = 0
      BY DEF ClaimsHeld
    <3>1. g # h /\ Claims(g) /\ market'[g] = market[g]
      BY <2>4
    <3>2. market[g] # m
      BY <2>1, <3>1 DEF ClaimInv, OneClaimer, m
    <3>3. market[g] \in startedSet /\ starts[market[g]] = 0
      BY <3>1 DEF ClaimInv, ClaimsHeld
    <3> QED
      BY <2>3, <2>5, <3>1, <3>2, <3>3 DEF TypeOK
  <2>8. OneClaimer'
    BY <2>4 DEF ClaimInv, OneClaimer
  <2>9. NoOrphanClaim'
    <3> SUFFICES ASSUME NEW x \in startedSet'
                 PROVE  \/ starts'[x] = 1
                        \/ \E g \in Handlers : Claims(g)' /\ market'[g] = x
      BY DEF NoOrphanClaim, Claims
    <3>1. CASE x = m
      BY <2>2, <2>3, <3>1 DEF TypeOK
    <3>2. CASE x # m
      <4>1. starts[x] = 1 \/ \E g \in Handlers : Claims(g) /\ market[g] = x
        BY <2>5 DEF ClaimInv, NoOrphanClaim, Claims
      <4>2. starts'[x] = starts[x]
        BY <2>3, <2>5, <3>2 DEF TypeOK
      <4>3. ASSUME NEW g \in Handlers, Claims(g), market[g] = x
            PROVE  Claims(g)' /\ market'[g] = x
        BY <2>4, <3>2, <4>3 DEF m
      <4> QED
        BY <4>1, <4>2, <4>3
    <3> QED
      BY <3>1, <3>2
  <2> QED
    BY <2>6, <2>7, <2>8, <2>9 DEF ClaimInv
<1>6. CASE StartTraderFails(h)
  <2>1. SameClaims
    BY <1>6 DEF StartTraderFails, SameClaims, Claims, Claiming, TypeOK
  <2> QED
    BY <1>0, <2>1, SameClaimsStep
<1>7. CASE UnmarkStarted(h)
  <2> DEFINE m == market[h]
  <2>1. Claims(h)
    BY <1>7 DEF UnmarkStarted, Claims, Claiming
  <2>2. m \in Markets /\ starts[m] = 0
    BY <2>1 DEF ClaimInv, ClaimsHeld, TypeOK
  <2>3. /\ ~Claims(h)'
        /\ \A g \in Handlers \ {h} : /\ Claims(g)' <=> Claims(g)
                                     /\ Claims(g) => market'[g] = market[g]
    BY <1>7, ReturnClaims DEF UnmarkStarted
  <2>4. startedSet' = startedSet \ {m} /\ UNCHANGED <<starts, startup, seeds>>
    BY <1>7 DEF UnmarkStarted
  <2> HIDE DEF m
  <2>5. StartupInv' /\ StartsClaimed' /\ AtMostOneTrader'
    BY <1>0, <2>2, <2>4
    DEF ClaimInv, StartupInv, StartsClaimed, AtMostOneTrader
  <2>6. \A g \in Handlers \ {h} : Claims(g) => market[g] # m
    BY <2>1 DEF ClaimInv, OneClaimer, m
  <2>7. ClaimsHeld'
    BY <2>3, <2>4, <2>6 DEF ClaimInv, ClaimsHeld
  <2>8. OneClaimer'
    BY <2>3 DEF ClaimInv, OneClaimer
  <2>9. NoOrphanClaim'
    <3> SUFFICES ASSUME NEW x \in startedSet'
                 PROVE  \/ starts'[x] = 1
                        \/ \E g \in Handlers : Claims(g)' /\ market'[g] = x
      BY DEF NoOrphanClaim, Claims
    <3>1. x \in startedSet /\ x # m
      BY <2>4
    <3>2. starts[x] = 1 \/ \E g \in Handlers : Claims(g) /\ market[g] = x
      BY <3>1 DEF ClaimInv, NoOrphanClaim, Claims
    <3>3. ASSUME NEW g \in Handlers, Claims(g), market[g] = x
          PROVE  Claims(g)' /\ market'[g] = x
      BY <2>3, <3>1, <3>3 DEF m
    <3> QED
      BY <2>4, <3>2, <3>3
  <2> QED
    BY <2>5, <2>7, <2>8, <2>9 DEF ClaimInv
<1> QED
  BY <1>1, <1>2, <1>3, <1>4, <1>5, <1>6, <1>7 DEF Proceed

LEMMA ClaimStep ==
  ASSUME TypeOK, ClaimInv, [Next]_vars
  PROVE  ClaimInv'
<1> USE DEF mainVars
<1>1. ASSUME NEW ms \in SUBSET Markets, StartATPTraders(ms)
      PROVE  ClaimInv'
  <2>1. /\ startup' = "started" /\ seeds' = ms
        /\ starts' = [m \in Markets |-> IF m \in ms THEN 1 ELSE 0]
        /\ \A h \in Handlers : pc[h] = "idle" /\ pc'[h] = "idle"
    BY <1>1 DEF StartATPTraders, ClaimInv, StartupInv
  <2>2. StartupInv' /\ StartsClaimed' /\ AtMostOneTrader'
    BY <2>1 DEF StartupInv, StartsClaimed, AtMostOneTrader
  <2>3. ClaimsHeld' /\ OneClaimer'
    BY <2>1 DEF ClaimsHeld, OneClaimer, Claims, Claiming
  <2>4. NoOrphanClaim'
    <3>1. \A m \in Markets : starts[m] = 0
      BY <1>1 DEF StartATPTraders, ClaimInv, StartupInv
    <3>2. startedSet = {}
      BY <2>1, <3>1 DEF ClaimInv, NoOrphanClaim, Claiming, TypeOK
    <3> QED
      BY <1>1, <3>2 DEF StartATPTraders, NoOrphanClaim
  <2> QED
    BY <2>2, <2>3, <2>4 DEF ClaimInv
<1>2. CASE StartupFails
  BY <1>2 DEF StartupFails, ClaimInv, StartupInv, ClaimsHeld, OneClaimer,
              StartsClaimed, AtMostOneTrader, NoOrphanClaim, Claims, Claiming
<1>3. CASE SeedDiscovery
  BY <1>3 DEF SeedDiscovery, ClaimInv, StartupInv, ClaimsHeld, OneClaimer,
              StartsClaimed, AtMostOneTrader, NoOrphanClaim, Claims, Claiming,
              TypeOK
<1>4. CASE Cancel
  <2>1. SameClaims
    BY <1>4 DEF Cancel, SameClaims, Claims
  <2> QED
    BY <1>4, <2>1, SameClaimsStep DEF Cancel
<1>5. ASSUME NEW h \in Handlers, NEW ev \in Events, NotifyNewMarket(h, ev)
      PROVE  ClaimInv'
  <2>1. SameClaims
    BY <1>5 DEF NotifyNewMarket, SameClaims, Claims, Claiming, TypeOK
  <2> QED
    BY <1>5, <2>1, SameClaimsStep DEF NotifyNewMarket
<1>6. ASSUME NEW h \in Handlers, Proceed(h)
      PROVE  ClaimInv'
  BY <1>6, ProceedClaims
<1>7. ASSUME NEW h \in Handlers, GammaFails(h) \/ GammaEmpty(h)
      PROVE  ClaimInv'
  <2>1. startup = "serving"
    BY <1>7, Serving DEF ClaimInv, GammaFails, GammaEmpty
  <2>2. SameClaims
    <3>1. CASE Return(h)
      BY <1>7, <3>1, ReturnSame DEF GammaFails, GammaEmpty, Claims, Claiming
    <3>2. CASE ~Return(h)
      BY <1>7, <3>2 DEF GammaFails, GammaEmpty, SameClaims, Claims, Claiming,
                        TypeOK
    <3> QED
      BY <3>1, <3>2
  <2> QED
    BY <2>1, <2>2, SameClaimsStep
<1>8. ASSUME NEW h \in Handlers,
             NEW answer \in SUBSET (Markets \cup {NoMarket}),
             GammaAnswers(h, answer)
      PROVE  ClaimInv'
  <2>1. startup = "serving"
    BY <1>8, Serving DEF ClaimInv, GammaAnswers
  <2>2. SameClaims
    <3>1. CASE Return(h)
      BY <1>8, <3>1, ReturnSame DEF GammaAnswers, Claims, Claiming
    <3>2. CASE ~Return(h)
      BY <1>8, <3>2 DEF GammaAnswers, SameClaims, Claims, Claiming, TypeOK
    <3> QED
      BY <3>1, <3>2
  <2> QED
    BY <2>1, <2>2, SameClaimsStep
<1>9. CASE UNCHANGED vars
  BY <1>9 DEF vars, ClaimInv, StartupInv, ClaimsHeld, OneClaimer,
              StartsClaimed, AtMostOneTrader, NoOrphanClaim, Claims
<1> QED
  BY <1>1, <1>2, <1>3, <1>4, <1>5, <1>6, <1>7, <1>8, <1>9
  DEF Next, Exited

-----------------------------------------------------------------------------
(* The theorems.                                                            *)

LEMMA DiscoveryInit == Init => DiscoveryInv
<1> SUFFICES ASSUME Init
             PROVE  DiscoveryInv
  OBVIOUS
<1>1. TypeOK
  <2>1. NoEvent \in Events /\ 0 \in 0 .. EmptyRetries
    BY DiscoveryAssumption DEF NoEvent, Events
  <2> QED
    BY <2>1 DEF Init, TypeOK
<1>2. RetriesLeft
  BY DEF Init, RetriesLeft
<1>3. ClaimInv
  BY DEF Init, ClaimInv, StartupInv, ClaimsHeld, OneClaimer, StartsClaimed,
         AtMostOneTrader, NoOrphanClaim, Claims, Claiming
<1> QED
  BY <1>1, <1>2, <1>3 DEF DiscoveryInv

\* The inductive invariant of the claims.
THEOREM DiscoveryInvariant == Spec => []DiscoveryInv
<1>1. DiscoveryInv /\ [Next]_vars => DiscoveryInv'
  BY TypeStep, RetriesStep, ClaimStep DEF DiscoveryInv
<1> QED
  BY <1>1, DiscoveryInit, PTL DEF Spec

\* Every variable of the discovery keeps its type; no handler asks Gamma more
\* than emptyResultRetries + 1 times.
THEOREM DiscoveryTypeCorrect == Spec => []TypeOK
<1>1. DiscoveryInv => TypeOK
  BY DEF DiscoveryInv
<1> QED
  BY <1>1, DiscoveryInvariant, PTL

\* No market gets two traders, whatever the number of concurrent handlers.
THEOREM OneTraderPerMarket == Spec => []AtMostOneTrader
<1>1. DiscoveryInv => AtMostOneTrader
  BY DEF DiscoveryInv, ClaimInv
<1> QED
  BY <1>1, DiscoveryInvariant, PTL

\* No failed start leaves a claim behind.
THEOREM ClaimsAreOwned == Spec => []NoOrphanClaim
<1>1. DiscoveryInv => NoOrphanClaim
  BY DEF DiscoveryInv, ClaimInv
<1> QED
  BY <1>1, DiscoveryInvariant, PTL

-----------------------------------------------------------------------------
(* The discovery implements the roster.                                     *)

RosterClaimed == IF startup = "serving" THEN startedSet ELSE seeds

LEMMA RosterInit == Init => Roster!Init
  BY DEF Init, Roster!Init

\* A step that keeps the claims and the starts is a stutter of the roster.
LEMMA RosterStutter ==
  ASSUME RosterClaimed' = RosterClaimed, starts' = starts
  PROVE  UNCHANGED Roster!vars
  BY DEF RosterClaimed, Roster!vars

LEMMA RosterProceed ==
  ASSUME TypeOK, ClaimInv, NEW h \in Handlers, Proceed(h)
  PROVE  [Roster!Next]_Roster!vars
<1> USE DEF mainVars
<1>0. startup = "serving" /\ startup' = "serving" /\ seeds' = seeds
  BY Serving DEF ClaimInv, Proceed, ScreenOut, JoinFlight, LeadFlight,
                 RetryOrGiveUp, MarkStarted, StartTrader, StartTraderFails,
                 UnmarkStarted
<1>1. CASE UNCHANGED <<startedSet, starts>>
  BY <1>0, <1>1, RosterStutter DEF RosterClaimed
<1>2. CASE MarkStarted(h) /\ startedSet' # startedSet
  <2>1. /\ market[h] \in Markets
        /\ market[h] \notin startedSet
        /\ startedSet' = startedSet \cup {market[h]}
        /\ starts' = starts
    BY <1>2 DEF MarkStarted, TypeOK
  <2>2. Roster!Claim(market[h])
    BY <1>0, <2>1 DEF Roster!Claim
  <2> QED
    BY <2>1, <2>2 DEF Roster!Next
<1>3. CASE StartTrader(h)
  <2>1. market[h] \in startedSet /\ starts[market[h]] = 0
    BY <1>3 DEF StartTrader, ClaimInv, ClaimsHeld, Claims, Claiming
  <2>2. market[h] \in Markets
    BY <2>1 DEF TypeOK
  <2>3. starts' = [starts EXCEPT ![market[h]] = 1] /\ startedSet' = startedSet
    BY <1>3, <2>1 DEF StartTrader
  <2>4. Roster!Start(market[h])
    BY <1>0, <2>1, <2>3 DEF Roster!Start
  <2> QED
    BY <2>2, <2>4 DEF Roster!Next
<1>4. CASE UnmarkStarted(h)
  <2>1. market[h] \in startedSet /\ starts[market[h]] = 0
    BY <1>4 DEF UnmarkStarted, ClaimInv, ClaimsHeld, Claims, Claiming
  <2>2. market[h] \in Markets
    BY <2>1 DEF TypeOK
  <2>3. Roster!Release(market[h])
    BY <1>0, <1>4, <2>1 DEF UnmarkStarted, Roster!Release
  <2> QED
    BY <2>2, <2>3 DEF Roster!Next
<1> QED
  BY <1>1, <1>2, <1>3, <1>4
  DEF Proceed, ScreenOut, JoinFlight, LeadFlight, RetryOrGiveUp, MarkStarted,
      StartTraderFails

LEMMA RosterStep ==
  ASSUME DiscoveryInv, [Next]_vars
  PROVE  [Roster!Next]_Roster!vars
<1> USE DEF mainVars
<1>0. TypeOK /\ ClaimInv
  BY DEF DiscoveryInv
<1>1. ASSUME NEW ms \in SUBSET Markets, StartATPTraders(ms)
      PROVE  Roster!Next
  <2>1. Roster!Seed(ms)
    BY <1>0, <1>1 DEF StartATPTraders, Roster!Seed, ClaimInv, StartupInv
  <2> QED
    BY <2>1 DEF Roster!Next
<1>2. CASE StartupFails \/ SeedDiscovery \/ Cancel \/ UNCHANGED vars
  BY <1>2, RosterStutter
  DEF StartupFails, SeedDiscovery, Cancel, vars, RosterClaimed
<1>3. ASSUME NEW h \in Handlers, NEW ev \in Events, NotifyNewMarket(h, ev)
      PROVE  UNCHANGED Roster!vars
  BY <1>3, RosterStutter DEF NotifyNewMarket, RosterClaimed
<1>4. ASSUME NEW h \in Handlers, Proceed(h)
      PROVE  [Roster!Next]_Roster!vars
  BY <1>0, <1>4, RosterProceed
<1>5. ASSUME NEW h \in Handlers, NEW answer,
             GammaFails(h) \/ GammaEmpty(h) \/ GammaAnswers(h, answer)
      PROVE  UNCHANGED Roster!vars
  BY <1>5, RosterStutter DEF GammaFails, GammaEmpty, GammaAnswers, RosterClaimed
<1> QED
  BY <1>1, <1>2, <1>3, <1>4, <1>5 DEF Next, Exited

\* Retries, shared flights and failed starts notwithstanding, claims and
\* starts follow the roster's rules.
THEOREM DiscoveryImplementsRoster == Spec => RosterSpec
<1> QED
  BY RosterInit, RosterStep, DiscoveryInvariant, PTL
  DEF Spec, RosterSpec, Roster!Spec
=============================================================================
