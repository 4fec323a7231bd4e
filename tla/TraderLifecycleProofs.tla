----------------------- MODULE TraderLifecycleProofs ------------------------
(***************************************************************************)
(* The life of ATPTraders, for any number of traders and tokens: what Stop *)
(* leaves behind, who still listens, and what an interrupt has finished    *)
(* when the feeds are stopped.                                             *)
(***************************************************************************)
EXTENDS TraderLifecycle, TLAPS

Indices == 0 .. NumTokens

\* How far Start has come, and what it has therefore set.
StartInv(r) ==
  /\ starter[r] \in {"none", "failed"} => marketSubs[r] = 0
  /\ starter[r] \in {"subscribe", "append"} => marketSubs[r] < NumTokens
  /\ starter[r] = "sportsSet" => r \in Sports
  /\ r \in sportsSub => starter[r] \in {"register", "forward", "done"}
  /\ (r \in registry) <=> (starter[r] \in {"forward", "done"})
  /\ r \in resolved \/ stopper[r] # "no" => starter[r] \notin {"none", "failed"}

\* Channels exist for the tokens Start has come to; all but the newest is known
\* to Stop.
ChannelInv(r) ==
  /\ \A i \in Indices : <<r, i>> \in listeners =>
       IF i = 0 THEN r \in sportsSub
       ELSE i <= marketSubs[r]
  /\ \A i \in Indices : <<r, i>> \in subscribed =>
       IF i = 0 THEN r \in sportsSub \/ starter[r] = "sportsSet"
       ELSE i <= marketSubs[r] \/ (starter[r] = "append" /\ i = marketSubs[r] + 1)

\* A Stop that began after Start had returned has seen every channel, and each
\* of its steps leaves fewer of them.
StopInv(r) ==
  r \notin raced =>
    /\ stopper[r] # "no" => starter[r] \notin InStart
    /\ stopper[r] = "market" =>
         \A i \in Indices : <<r, i>> \in subscribed => i = 0 \/ i \in toUnsub[r]
    /\ stopper[r] \in {"close", "wait", "done"} =>
         \A i \in Indices : <<r, i>> \notin subscribed
    /\ stopper[r] = "done" => ~HasListener(r)

\* What is subscribed is listened to, as long as the context is not done.
HeardInv(r) ==
  ~Cancelled /\ r \notin raced =>
    \A i \in Indices : <<r, i>> \in subscribed =>
      \/ <<r, i>> \in listeners
      \/ starter[r] = "append" /\ i = marketSubs[r] + 1
      \/ starter[r] = "sportsSet" /\ i = 0

\* How far the shutdown has come.
MainInv ==
  /\ main # "running" => \A r \in Initial : starter[r] \in {"failed", "done"}
  /\ main # "stopping" => stopping = NoTrader
  /\ Cancelled => \A r \in stopList : stopper[r] = "done"
  /\ main \in {"closing", "exited"} => forwarders \cap Initial = {}

TraderInv(r) == StartInv(r) /\ ChannelInv(r) /\ StopInv(r) /\ HeardInv(r)

LifecycleInv ==
  /\ TypeOK
  /\ \A r \in Traders : TraderInv(r)
  /\ MainInv

LEMMA IndexFacts == /\ Indices \subseteq Nat
                    /\ 0 \in Indices
                    /\ TokenIndices = Indices \ {0}
                    /\ NumTokens \in Nat \ {0}
  BY LifecycleAssumption DEF Indices, TokenIndices

LEMMA InitInv == Init => LifecycleInv
<1> SUFFICES ASSUME Init PROVE LifecycleInv
  OBVIOUS
<1> USE IndexFacts
<1>1. TypeOK
  <2>1. /\ starter \in [Traders -> {"none", "failed", "register", "forward", "done"}
                                    \cup InStart]
        /\ marketSubs \in [Traders -> 0 .. NumTokens]
        /\ stopper \in [Traders -> {"no", "market", "sports", "close", "wait", "done"}]
        /\ toUnsub \in [Traders -> SUBSET TokenIndices]
    BY DEF Init
  <2> QED BY <2>1 DEF Init, TypeOK
<1>2. ASSUME NEW r \in Traders PROVE TraderInv(r)
  BY DEF Init, TraderInv, StartInv, ChannelInv, StopInv, HeardInv, InStart, HasListener
<1>3. MainInv
  BY DEF Init, MainInv, Cancelled
<1> QED
  BY <1>1, <1>2, <1>3 DEF LifecycleInv

\* The channels and flags of a trader that a step leaves as they are.
Kept(q) ==
  /\ starter'[q] = starter[q] /\ marketSubs'[q] = marketSubs[q]
  /\ stopper'[q] = stopper[q] /\ toUnsub'[q] = toUnsub[q]
  /\ (q \in sportsSub') <=> (q \in sportsSub)
  /\ (q \in registry') <=> (q \in registry)
  /\ (q \in resolved') <=> (q \in resolved)
  /\ (q \in raced') <=> (q \in raced)
  /\ \A i \in Indices : /\ (<<q, i>> \in subscribed') <=> (<<q, i>> \in subscribed)
                        /\ (<<q, i>> \in listeners') <=> (<<q, i>> \in listeners)

\* A step that leaves a trader alone keeps its invariant.
LEMMA Untouched ==
  ASSUME NEW q \in Traders, TraderInv(q), Kept(q), Cancelled => Cancelled'
  PROVE  TraderInv(q)'
<1>1. StartInv(q)'
  BY DEF TraderInv, StartInv, Kept
<1>2. ChannelInv(q)'
  BY DEF TraderInv, ChannelInv, Kept
<1>3. StopInv(q)'
  BY DEF TraderInv, StopInv, Kept, HasListener, Indices
<1>4. HeardInv(q)'
  BY DEF TraderInv, HeardInv, Kept
<1> QED
  BY <1>1, <1>2, <1>3, <1>4 DEF TraderInv

-----------------------------------------------------------------------------
(* The steps of Start.                                                      *)

\* A trader still being started is none that the shutdown has waited for.
LEMMA StartKeepsMain ==
  ASSUME TypeOK, MainInv, NEW r \in Traders, NEW s,
         starter[r] \notin {"failed", "done"},
         starter' = [starter EXCEPT ![r] = s],
         forwarders' \in {forwarders, forwarders \cup {r}},
         UNCHANGED <<stopper, mainVars>>
  PROVE  MainInv'
<1>1. main # "running" => r \notin Initial
  BY DEF MainInv
<1>2. \A q \in Traders \ {r} : starter'[q] = starter[q]
  BY DEF TypeOK
<1>3. main # "running" => \A q \in Initial : starter'[q] \in {"failed", "done"}
  BY <1>1, <1>2, LifecycleAssumption DEF MainInv
<1>4. main \in {"closing", "exited"} => forwarders' \cap Initial = {}
  BY <1>1 DEF MainInv
<1> QED
  BY <1>3, <1>4 DEF MainInv, Cancelled, mainVars

LEMMA SubscribeTokenKeeps ==
  ASSUME LifecycleInv, NEW r \in Traders, SubscribeToken(r)
  PROVE  LifecycleInv'
<1> USE IndexFacts
<1>1. TypeOK /\ MainInv /\ \A q \in Traders : TraderInv(q)
  BY DEF LifecycleInv
<1>2. /\ starter[r] = "subscribe"
      /\ starter' = [starter EXCEPT ![r] = "append"]
      /\ subscribed' = subscribed \cup {<<r, marketSubs[r] + 1>>}
      /\ marketSubs[r] + 1 \in TokenIndices
      /\ UNCHANGED <<marketSubs, sportsSub, listeners, stopVars, registry,
                     forwarders, mainVars, crashed>>
  <2>1. starter[r] = "subscribe" /\ marketSubs[r] \in 0 .. NumTokens
    BY <1>1 DEF SubscribeToken, TypeOK
  <2>2. marketSubs[r] + 1 \in TokenIndices
    BY <1>1, <2>1 DEF TraderInv, StartInv, TokenIndices
  <2> QED BY <2>1, <2>2 DEF SubscribeToken
<1>3. TypeOK'
  <2>1. starter' \in [Traders -> {"none", "failed", "register", "forward", "done"}
                                 \cup InStart]
    BY <1>1, <1>2 DEF TypeOK, InStart
  <2>2. subscribed' \in SUBSET Channels
    BY <1>1, <1>2 DEF TypeOK, Channels, Indices
  <2> QED BY <1>1, <1>2, <2>1, <2>2 DEF TypeOK, stopVars, mainVars
<1>4. ASSUME NEW q \in Traders \ {r} PROVE TraderInv(q)'
  <2>1. Kept(q) /\ UNCHANGED Cancelled
    BY <1>1, <1>2 DEF Kept, TypeOK, stopVars, mainVars, Cancelled
  <2> QED BY <1>1, <2>1, Untouched
<1>5. TraderInv(r)'
  <2>1. StartInv(r)'
    BY <1>1, <1>2 DEF TypeOK, TraderInv, StartInv, stopVars
  <2>2. ChannelInv(r)'
    BY <1>1, <1>2 DEF TypeOK, TraderInv, ChannelInv
  <2>3. StopInv(r)'
    BY <1>1, <1>2 DEF TypeOK, TraderInv, StartInv, StopInv, InStart, HasListener, stopVars
  <2>4. HeardInv(r)'
    BY <1>1, <1>2 DEF TypeOK, TraderInv, HeardInv, Cancelled, stopVars, mainVars
  <2> QED BY <2>1, <2>2, <2>3, <2>4 DEF TraderInv
<1>6. MainInv'
  BY <1>1, <1>2, StartKeepsMain DEF stopVars
<1> QED
  BY <1>3, <1>4, <1>5, <1>6 DEF LifecycleInv

LEMMA BeginStartKeeps ==
  ASSUME LifecycleInv, NEW r \in Traders, BeginStart(r) \/ RejectStart(r)
  PROVE  LifecycleInv'
<1> USE IndexFacts
<1>1. TypeOK /\ MainInv /\ \A q \in Traders : TraderInv(q)
  BY DEF LifecycleInv
<1>2. /\ starter[r] = "none"
      /\ \/ starter' = [starter EXCEPT ![r] = "subscribe"]
         \/ starter' = [starter EXCEPT ![r] = "failed"]
      /\ UNCHANGED <<marketSubs, sportsSub, subscribed, listeners, stopVars,
                     registry, forwarders, mainVars, crashed>>
      /\ marketSubs[r] = 0
  BY <1>1 DEF BeginStart, RejectStart, TypeOK, TraderInv, StartInv
<1>3. TypeOK'
  <2>1. starter' \in [Traders -> {"none", "failed", "register", "forward", "done"}
                                 \cup InStart]
    BY <1>1, <1>2 DEF TypeOK, InStart
  <2>2. UNCHANGED <<marketSubs, sportsSub, subscribed, listeners,
                      resolved, stopper, toUnsub, raced, registry,
                      forwarders, main, stopList, stopping, crashed>>
    BY <1>2 DEF stopVars, mainVars
  <2> QED BY <1>1, <2>1, <2>2 DEF TypeOK
<1>4. ASSUME NEW q \in Traders \ {r} PROVE TraderInv(q)'
  <2>1. Kept(q) /\ UNCHANGED Cancelled
    BY <1>1, <1>2 DEF Kept, TypeOK, Cancelled, stopVars, mainVars
  <2> QED BY <1>1, <2>1, Untouched
<1>5. TraderInv(r)'
  <2>1. StartInv(r)'
    BY <1>1, <1>2 DEF TypeOK, TraderInv, StartInv, stopVars
  <2>2. ChannelInv(r)'
    BY <1>1, <1>2 DEF TypeOK, TraderInv, ChannelInv, stopVars
  <2>3. StopInv(r)'
    BY <1>1, <1>2 DEF TypeOK, TraderInv, StopInv, StartInv, InStart, HasListener, stopVars
  <2>4. HeardInv(r)'
    BY <1>1, <1>2 DEF TypeOK, TraderInv, HeardInv, stopVars, mainVars, Cancelled
  <2> QED BY <2>1, <2>2, <2>3, <2>4 DEF TraderInv
<1>6. MainInv'
  BY <1>1, <1>2, StartKeepsMain DEF stopVars
<1> QED
  BY <1>3, <1>4, <1>5, <1>6 DEF LifecycleInv

LEMMA AppendAndListenKeeps ==
  ASSUME LifecycleInv, NEW r \in Traders, AppendAndListen(r)
  PROVE  LifecycleInv'
<1> USE IndexFacts
<1>1. TypeOK /\ MainInv /\ \A q \in Traders : TraderInv(q)
  BY DEF LifecycleInv
<1>2. /\ starter[r] = "append"
      /\ marketSubs[r] < NumTokens
      /\ marketSubs' = [marketSubs EXCEPT ![r] = marketSubs[r] + 1]
      /\ listeners' = listeners \cup {<<r, marketSubs[r] + 1>>}
      /\ starter' = [starter EXCEPT ![r] =
                       IF marketSubs[r] + 1 = NumTokens THEN "sports"
                       ELSE "subscribe"]
      /\ UNCHANGED <<sportsSub, subscribed, stopVars, registry, forwarders,
                     mainVars, crashed>>
  BY <1>1 DEF AppendAndListen, TypeOK, TraderInv, StartInv
<1>3. TypeOK'
  <2>1. starter' \in [Traders -> {"none", "failed", "register", "forward", "done"}
                                 \cup InStart]
    BY <1>1, <1>2 DEF TypeOK, InStart
  <2>2. marketSubs' \in [Traders -> 0 .. NumTokens]
    BY <1>1, <1>2 DEF TypeOK, StartInv
  <2>3. listeners' \in SUBSET Channels
    BY <1>1, <1>2 DEF TypeOK, Channels, Indices
  <2>4. UNCHANGED <<sportsSub, subscribed, resolved, stopper, toUnsub,
                      raced, registry, forwarders, main, stopList,
                      stopping, crashed>>
    BY <1>2 DEF stopVars, mainVars
  <2> QED BY <1>1, <2>1, <2>2, <2>3, <2>4 DEF TypeOK
<1>4. ASSUME NEW q \in Traders \ {r} PROVE TraderInv(q)'
  <2>1. Kept(q) /\ UNCHANGED Cancelled
    BY <1>1, <1>2 DEF Kept, TypeOK, Cancelled, stopVars, mainVars
  <2> QED BY <1>1, <2>1, Untouched
<1>5. TraderInv(r)'
  <2>1. StartInv(r)'
    BY <1>1, <1>2 DEF TypeOK, TraderInv, StartInv, stopVars
  <2>2. ChannelInv(r)'
    BY <1>1, <1>2 DEF TypeOK, TraderInv, ChannelInv, stopVars
  <2>3. StopInv(r)'
    BY <1>1, <1>2 DEF TypeOK, TraderInv, StopInv, StartInv, InStart, HasListener, stopVars
  <2>4. HeardInv(r)'
    BY <1>1, <1>2 DEF TypeOK, TraderInv, HeardInv, ChannelInv, stopVars, mainVars, Cancelled
  <2> QED BY <2>1, <2>2, <2>3, <2>4 DEF TraderInv
<1>6. MainInv'
  BY <1>1, <1>2, StartKeepsMain DEF stopVars
<1> QED
  BY <1>3, <1>4, <1>5, <1>6 DEF LifecycleInv

LEMMA SubscribeSportsKeeps ==
  ASSUME LifecycleInv, NEW r \in Traders, SubscribeSports(r)
  PROVE  LifecycleInv'
<1> USE IndexFacts
<1>1. TypeOK /\ MainInv /\ \A q \in Traders : TraderInv(q)
  BY DEF LifecycleInv
<1>2. /\ starter[r] = "sports"
      /\ \/ /\ r \in Sports
            /\ subscribed' = subscribed \cup {<<r, 0>>}
            /\ starter' = [starter EXCEPT ![r] = "sportsSet"]
         \/ /\ starter' = [starter EXCEPT ![r] = "register"]
            /\ UNCHANGED subscribed
      /\ UNCHANGED <<marketSubs, sportsSub, listeners, stopVars, registry,
                     forwarders, mainVars, crashed>>
  BY DEF SubscribeSports
<1>3. TypeOK'
  <2>1. starter' \in [Traders -> {"none", "failed", "register", "forward", "done"}
                                 \cup InStart]
    BY <1>1, <1>2 DEF TypeOK, InStart
  <2>2. subscribed' \in SUBSET Channels
    BY <1>1, <1>2 DEF TypeOK, Channels, Indices
  <2>3. UNCHANGED <<marketSubs, sportsSub, listeners, resolved, stopper,
                      toUnsub, raced, registry, forwarders, main,
                      stopList, stopping, crashed>>
    BY <1>2 DEF stopVars, mainVars
  <2> QED BY <1>1, <2>1, <2>2, <2>3 DEF TypeOK
<1>4. ASSUME NEW q \in Traders \ {r} PROVE TraderInv(q)'
  <2>1. Kept(q) /\ UNCHANGED Cancelled
    BY <1>1, <1>2 DEF Kept, TypeOK, Cancelled, stopVars, mainVars
  <2> QED BY <1>1, <2>1, Untouched
<1>5. TraderInv(r)'
  <2>1. StartInv(r)'
    BY <1>1, <1>2 DEF TypeOK, TraderInv, StartInv, stopVars
  <2>2. ChannelInv(r)'
    BY <1>1, <1>2 DEF TypeOK, TraderInv, ChannelInv, stopVars
  <2>3. StopInv(r)'
    BY <1>1, <1>2 DEF TypeOK, TraderInv, StopInv, StartInv, InStart, HasListener, stopVars
  <2>4. HeardInv(r)'
    BY <1>1, <1>2 DEF TypeOK, TraderInv, HeardInv, ChannelInv, stopVars, mainVars, Cancelled
  <2> QED BY <2>1, <2>2, <2>3, <2>4 DEF TraderInv
<1>6. MainInv'
  BY <1>1, <1>2, StartKeepsMain DEF stopVars
<1> QED
  BY <1>3, <1>4, <1>5, <1>6 DEF LifecycleInv

LEMMA SetSportsSubKeeps ==
  ASSUME LifecycleInv, NEW r \in Traders, SetSportsSub(r)
  PROVE  LifecycleInv'
<1> USE IndexFacts
<1>1. TypeOK /\ MainInv /\ \A q \in Traders : TraderInv(q)
  BY DEF LifecycleInv
<1>2. /\ starter[r] = "sportsSet"
      /\ sportsSub' = sportsSub \cup {r}
      /\ listeners' = listeners \cup {<<r, 0>>}
      /\ starter' = [starter EXCEPT ![r] = "register"]
      /\ UNCHANGED <<marketSubs, subscribed, stopVars, registry, forwarders,
                     mainVars, crashed>>
      /\ r \in Sports
  BY <1>1 DEF SetSportsSub, TraderInv, StartInv
<1>3. TypeOK'
  <2>1. starter' \in [Traders -> {"none", "failed", "register", "forward", "done"}
                                 \cup InStart]
    BY <1>1, <1>2 DEF TypeOK, InStart
  <2>2. listeners' \in SUBSET Channels
    BY <1>1, <1>2 DEF TypeOK, Channels, Indices
  <2>3. UNCHANGED <<marketSubs, subscribed, resolved, stopper, toUnsub,
                      raced, registry, forwarders, main, stopList,
                      stopping, crashed>>
    BY <1>2 DEF stopVars, mainVars
  <2> QED BY <1>1, <1>2, <2>1, <2>2, <2>3 DEF TypeOK
<1>4. ASSUME NEW q \in Traders \ {r} PROVE TraderInv(q)'
  <2>1. Kept(q) /\ UNCHANGED Cancelled
    BY <1>1, <1>2 DEF Kept, TypeOK, Cancelled, stopVars, mainVars
  <2> QED BY <1>1, <2>1, Untouched
<1>5. TraderInv(r)'
  <2>1. StartInv(r)'
    BY <1>1, <1>2 DEF TypeOK, TraderInv, StartInv, stopVars
  <2>2. ChannelInv(r)'
    BY <1>1, <1>2 DEF TypeOK, TraderInv, ChannelInv, stopVars
  <2>3. StopInv(r)'
    BY <1>1, <1>2 DEF TypeOK, TraderInv, StopInv, StartInv, InStart, HasListener, stopVars
  <2>4. HeardInv(r)'
    BY <1>1, <1>2 DEF TypeOK, TraderInv, HeardInv, ChannelInv, stopVars, mainVars, Cancelled
  <2> QED BY <2>1, <2>2, <2>3, <2>4 DEF TraderInv
<1>6. MainInv'
  BY <1>1, <1>2, StartKeepsMain DEF stopVars
<1> QED
  BY <1>3, <1>4, <1>5, <1>6 DEF LifecycleInv

LEMMA RegisterKeeps ==
  ASSUME LifecycleInv, NEW r \in Traders, Register(r)
  PROVE  LifecycleInv'
<1> USE IndexFacts
<1>1. TypeOK /\ MainInv /\ \A q \in Traders : TraderInv(q)
  BY DEF LifecycleInv
<1>2. /\ starter[r] = "register"
      /\ registry' = registry \cup {r}
      /\ starter' = [starter EXCEPT ![r] = "forward"]
      /\ UNCHANGED <<marketSubs, sportsSub, subscribed, listeners, stopVars,
                     forwarders, mainVars, crashed>>
  BY DEF Register
<1>3. TypeOK'
  <2>1. starter' \in [Traders -> {"none", "failed", "register", "forward", "done"}
                                 \cup InStart]
    BY <1>1, <1>2 DEF TypeOK, InStart
  <2>2. UNCHANGED <<marketSubs, sportsSub, subscribed, listeners,
                      resolved, stopper, toUnsub, raced, forwarders, main,
                      stopList, stopping, crashed>>
    BY <1>2 DEF stopVars, mainVars
  <2> QED BY <1>1, <1>2, <2>1, <2>2 DEF TypeOK
<1>4. ASSUME NEW q \in Traders \ {r} PROVE TraderInv(q)'
  <2>1. Kept(q) /\ UNCHANGED Cancelled
    BY <1>1, <1>2 DEF Kept, TypeOK, Cancelled, stopVars, mainVars
  <2> QED BY <1>1, <2>1, Untouched
<1>5. TraderInv(r)'
  <2>1. StartInv(r)'
    BY <1>1, <1>2 DEF TypeOK, TraderInv, StartInv, stopVars
  <2>2. ChannelInv(r)'
    BY <1>1, <1>2 DEF TypeOK, TraderInv, ChannelInv, stopVars
  <2>3. StopInv(r)'
    BY <1>1, <1>2 DEF TypeOK, TraderInv, StopInv, StartInv, InStart, HasListener, stopVars
  <2>4. HeardInv(r)'
    BY <1>1, <1>2 DEF TypeOK, TraderInv, HeardInv, ChannelInv, stopVars, mainVars, Cancelled
  <2> QED BY <2>1, <2>2, <2>3, <2>4 DEF TraderInv
<1>6. MainInv'
  BY <1>1, <1>2, StartKeepsMain DEF stopVars
<1> QED
  BY <1>3, <1>4, <1>5, <1>6 DEF LifecycleInv

LEMMA StartForwarderKeeps ==
  ASSUME LifecycleInv, NEW r \in Traders, StartForwarder(r)
  PROVE  LifecycleInv'
<1> USE IndexFacts
<1>1. TypeOK /\ MainInv /\ \A q \in Traders : TraderInv(q)
  BY DEF LifecycleInv
<1>2. /\ starter[r] = "forward"
      /\ forwarders' = forwarders \cup {r}
      /\ starter' = [starter EXCEPT ![r] = "done"]
      /\ UNCHANGED <<marketSubs, sportsSub, subscribed, listeners, stopVars,
                     registry, mainVars, crashed>>
      /\ r \in registry
  BY <1>1 DEF StartForwarder, TraderInv, StartInv
<1>3. TypeOK'
  <2>1. starter' \in [Traders -> {"none", "failed", "register", "forward", "done"}
                                 \cup InStart]
    BY <1>1, <1>2 DEF TypeOK, InStart
  <2>2. UNCHANGED <<marketSubs, sportsSub, subscribed, listeners,
                      resolved, stopper, toUnsub, raced, registry, main,
                      stopList, stopping, crashed>>
    BY <1>2 DEF stopVars, mainVars
  <2> QED BY <1>1, <1>2, <2>1, <2>2 DEF TypeOK
<1>4. ASSUME NEW q \in Traders \ {r} PROVE TraderInv(q)'
  <2>1. Kept(q) /\ UNCHANGED Cancelled
    BY <1>1, <1>2 DEF Kept, TypeOK, Cancelled, stopVars, mainVars
  <2> QED BY <1>1, <2>1, Untouched
<1>5. TraderInv(r)'
  <2>1. StartInv(r)'
    BY <1>1, <1>2 DEF TypeOK, TraderInv, StartInv, stopVars
  <2>2. ChannelInv(r)'
    BY <1>1, <1>2 DEF TypeOK, TraderInv, ChannelInv, stopVars
  <2>3. StopInv(r)'
    BY <1>1, <1>2 DEF TypeOK, TraderInv, StopInv, StartInv, InStart, HasListener, stopVars
  <2>4. HeardInv(r)'
    BY <1>1, <1>2 DEF TypeOK, TraderInv, HeardInv, ChannelInv, stopVars, mainVars, Cancelled
  <2> QED BY <2>1, <2>2, <2>3, <2>4 DEF TraderInv
<1>6. MainInv'
  BY <1>1, <1>2, StartKeepsMain DEF stopVars
<1> QED
  BY <1>3, <1>4, <1>5, <1>6 DEF LifecycleInv

-----------------------------------------------------------------------------
(* The listeners, the forwarders and Stop.                                  *)

\* A listener resolves its market, or leaves; a forwarder leaves.
LEMMA ListenerStepsKeep ==
  ASSUME LifecycleInv, NEW r \in Traders, NEW i \in Indices,
         ResolveMarket(r) \/ LeaveForwarder(r) \/ LeaveListener(r, i)
  PROVE  LifecycleInv'
<1> USE IndexFacts
<1>1. TypeOK /\ MainInv /\ \A q \in Traders : TraderInv(q)
  BY DEF LifecycleInv
<1>2. UNCHANGED <<startVars, subscribed, stopper, toUnsub, raced, registry,
                  mainVars, crashed>>
  BY DEF ResolveMarket, LeaveForwarder, LeaveListener, stopVars
<1>3. /\ forwarders' \subseteq forwarders
      /\ listeners' \in {listeners, listeners \ {<<r, i>>}}
      /\ listeners' # listeners => StopClosed(r) \/ Cancelled
      /\ resolved' \in {resolved, resolved \cup {r}}
      /\ resolved' # resolved => \E j \in TokenIndices : <<r, j>> \in listeners
  BY DEF ResolveMarket, LeaveForwarder, LeaveListener, stopVars
<1>4. TypeOK'
  BY <1>1, <1>2, <1>3 DEF TypeOK, startVars, mainVars
<1>5. ASSUME NEW q \in Traders PROVE TraderInv(q)'
  <2>1. StartInv(q)'
    <3>1. ASSUME NEW j \in TokenIndices, <<r, j>> \in listeners
          PROVE  starter[r] \notin {"none", "failed"}
      <4>1. j \in Indices /\ j # 0 /\ j <= marketSubs[r]
        BY <1>1, <3>1 DEF TraderInv, ChannelInv
      <4>2. marketSubs[r] # 0
        BY <4>1
      <4> QED BY <1>1, <4>2 DEF TraderInv, StartInv
    <3> QED BY <1>1, <1>2, <1>3, <3>1 DEF TypeOK, TraderInv, StartInv, startVars
  <2>2. ChannelInv(q)'
    BY <1>1, <1>2, <1>3 DEF TraderInv, ChannelInv, startVars
  <2>3. StopInv(q)'
    BY <1>1, <1>2, <1>3 DEF TraderInv, StopInv, HasListener, startVars
  <2>4. HeardInv(q)'
    BY <1>1, <1>2, <1>3
       DEF TraderInv, StopInv, HeardInv, StopClosed, Cancelled, startVars, mainVars
  <2> QED BY <2>1, <2>2, <2>3, <2>4 DEF TraderInv
<1>6. MainInv'
  BY <1>1, <1>2, <1>3 DEF MainInv, Cancelled, startVars, mainVars
<1> QED
  BY <1>4, <1>5, <1>6 DEF LifecycleInv

\* Stop begins: behind Start it sees every token, before it is marked as raced.
LEMMA BeginStopKeeps ==
  ASSUME LifecycleInv, NEW r \in Traders, BeginStop(r)
  PROVE  LifecycleInv'
<1> USE IndexFacts
<1>1. TypeOK /\ MainInv /\ \A q \in Traders : TraderInv(q)
  BY DEF LifecycleInv
<1>2. /\ stopper[r] = "no"
      /\ r \in resolved \/ stopping = r
      /\ stopper' = [stopper EXCEPT ![r] = "market"]
      /\ toUnsub' = [toUnsub EXCEPT ![r] = 1 .. marketSubs[r]]
      /\ raced' = IF starter[r] \in InStart THEN raced \cup {r} ELSE raced
      /\ UNCHANGED <<startVars, subscribed, listeners, resolved, registry,
                     forwarders, mainVars>>
  BY DEF BeginStop
<1>3. crashed' \in BOOLEAN
  BY DEF BeginStop
<1>4. TypeOK'
  <2>1. stopper' \in [Traders -> {"no", "market", "sports", "close", "wait", "done"}]
    BY <1>1, <1>2 DEF TypeOK
  <2>2. 1 .. marketSubs[r] \subseteq TokenIndices
    BY <1>1 DEF TypeOK, TokenIndices
  <2>3. toUnsub' \in [Traders -> SUBSET TokenIndices]
    BY <1>1, <1>2, <2>2 DEF TypeOK
  <2> QED BY <1>1, <1>2, <1>3, <2>1, <2>3 DEF TypeOK, startVars, mainVars
<1>5. ASSUME NEW q \in Traders \ {r} PROVE TraderInv(q)'
  <2>1. Kept(q) /\ UNCHANGED Cancelled
    BY <1>1, <1>2 DEF Kept, TypeOK, Cancelled, startVars, mainVars
  <2> QED BY <1>1, <2>1, Untouched
<1>6. TraderInv(r)'
  <2>1. StartInv(r)'
    <3>1. stopping = r => r \in registry
      BY <1>1, LifecycleAssumption DEF TypeOK
    <3> QED BY <1>1, <1>2, <3>1 DEF TypeOK, TraderInv, StartInv, startVars
  <2>2. ChannelInv(r)'
    BY <1>1, <1>2 DEF TraderInv, ChannelInv, startVars
  <2>3. StopInv(r)'
    <3>1. SUFFICES ASSUME starter[r] \notin InStart
                   PROVE  \A i \in Indices : <<r, i>> \in subscribed =>
                            i = 0 \/ i \in 1 .. marketSubs[r]
      BY <1>1, <1>2 DEF TypeOK, StopInv, startVars
    <3> QED BY <1>1, <3>1 DEF TypeOK, TraderInv, ChannelInv, InStart
  <2>4. HeardInv(r)'
    BY <1>1, <1>2 DEF TraderInv, HeardInv, Cancelled, startVars, mainVars
  <2> QED BY <2>1, <2>2, <2>3, <2>4 DEF TraderInv
<1>7. MainInv'
  BY <1>1, <1>2 DEF TypeOK, MainInv, Cancelled, startVars, mainVars
<1> QED
  BY <1>4, <1>5, <1>6, <1>7 DEF LifecycleInv

\* Unsubscribing takes away channels Stop has still to deal with.
LEMMA UnsubscribeKeeps ==
  ASSUME LifecycleInv, NEW r \in Traders,
         UnsubscribeToken(r) \/ UnsubscribeSports(r)
  PROVE  LifecycleInv'
<1> USE IndexFacts
<1>1. TypeOK /\ MainInv /\ \A q \in Traders : TraderInv(q)
  BY DEF LifecycleInv
<1>2. /\ stopper[r] = "market"
      /\ UNCHANGED <<startVars, listeners, resolved, raced, registry,
                     forwarders, mainVars, crashed>>
  BY DEF UnsubscribeToken, UnsubscribeSports
<1>3. PICK i \in Indices :
        /\ subscribed' \in {subscribed, subscribed \ {<<r, i>>}}
        /\ \/ /\ subscribed' = subscribed \ {<<r, i>>}
              /\ i \in toUnsub[r]
              /\ stopper' = stopper
              /\ toUnsub' = [toUnsub EXCEPT ![r] = @ \ {i}]
           \/ /\ i = 0
              /\ toUnsub[r] = {}
              /\ subscribed' = IF r \in sportsSub THEN subscribed \ {<<r, 0>>}
                               ELSE subscribed
              /\ stopper' = [stopper EXCEPT ![r] = "close"]
              /\ toUnsub' = toUnsub
  <2>1. CASE UnsubscribeToken(r)
    <3>1. PICK i \in toUnsub[r] :
            /\ subscribed' = subscribed \ {<<r, i>>}
            /\ toUnsub' = [toUnsub EXCEPT ![r] = @ \ {i}]
      BY <2>1 DEF UnsubscribeToken
    <3> QED BY <1>1, <2>1, <3>1 DEF UnsubscribeToken, TypeOK
  <2>2. CASE UnsubscribeSports(r)
    BY <2>2 DEF UnsubscribeSports
  <2> QED BY <2>1, <2>2
<1>4. TypeOK'
  <2>1. stopper' \in [Traders -> {"no", "market", "sports", "close", "wait", "done"}]
    BY <1>1, <1>3 DEF TypeOK
  <2>2. toUnsub' \in [Traders -> SUBSET TokenIndices]
    BY <1>1, <1>3 DEF TypeOK
  <2>3. subscribed' \subseteq Channels
    BY <1>1, <1>3 DEF TypeOK
  <2> QED BY <1>1, <1>2, <2>1, <2>2, <2>3 DEF TypeOK, startVars, mainVars
<1>5. ASSUME NEW q \in Traders \ {r} PROVE TraderInv(q)'
  <2>1. Kept(q) /\ UNCHANGED Cancelled
    BY <1>1, <1>2, <1>3 DEF Kept, TypeOK, Cancelled, startVars, mainVars
  <2> QED BY <1>1, <2>1, Untouched
<1>6. TraderInv(r)'
  <2>1. StartInv(r)'
    BY <1>1, <1>2, <1>3 DEF TypeOK, TraderInv, StartInv, startVars
  <2>2. ChannelInv(r)'
    BY <1>1, <1>2, <1>3 DEF TraderInv, ChannelInv, startVars
  <2>3. StopInv(r)'
    BY <1>1, <1>2, <1>3
       DEF TypeOK, TraderInv, ChannelInv, StopInv, InStart, startVars
  <2>4. HeardInv(r)'
    BY <1>1, <1>2, <1>3 DEF TraderInv, HeardInv, Cancelled, startVars, mainVars
  <2> QED BY <2>1, <2>2, <2>3, <2>4 DEF TraderInv
<1>7. MainInv'
  BY <1>1, <1>2, <1>3 DEF TypeOK, MainInv, Cancelled, startVars, mainVars
<1> QED
  BY <1>4, <1>5, <1>6, <1>7 DEF LifecycleInv

\* Stop closes its channels: the signals only when no listener is left.
LEMMA CloseKeeps ==
  ASSUME LifecycleInv, NEW r \in Traders, CloseStop(r) \/ CloseSignals(r)
  PROVE  LifecycleInv'
<1> USE IndexFacts
<1>1. TypeOK /\ MainInv /\ \A q \in Traders : TraderInv(q)
  BY DEF LifecycleInv
<1>2. /\ \/ stopper[r] = "close" /\ stopper' = [stopper EXCEPT ![r] = "wait"]
         \/ /\ stopper[r] = "wait" /\ stopper' = [stopper EXCEPT ![r] = "done"]
            /\ ~HasListener(r)
      /\ UNCHANGED <<startVars, subscribed, listeners, resolved, toUnsub, raced,
                     registry, forwarders, mainVars, crashed>>
  BY DEF CloseStop, CloseSignals
<1>3. TypeOK'
  <2>1. stopper' \in [Traders -> {"no", "market", "sports", "close", "wait", "done"}]
    BY <1>1, <1>2 DEF TypeOK
  <2> QED BY <1>1, <1>2, <2>1 DEF TypeOK, startVars, mainVars
<1>4. ASSUME NEW q \in Traders \ {r} PROVE TraderInv(q)'
  <2>1. Kept(q) /\ UNCHANGED Cancelled
    BY <1>1, <1>2 DEF Kept, TypeOK, Cancelled, startVars, mainVars
  <2> QED BY <1>1, <2>1, Untouched
<1>5. TraderInv(r)'
  <2>1. StartInv(r)' /\ ChannelInv(r)' /\ HeardInv(r)'
    BY <1>1, <1>2 DEF TypeOK, TraderInv, StartInv, ChannelInv, HeardInv,
                      Cancelled, startVars, mainVars
  <2>2. StopInv(r)'
    BY <1>1, <1>2 DEF TypeOK, TraderInv, StopInv, HasListener, startVars
  <2> QED BY <2>1, <2>2 DEF TraderInv
<1>6. MainInv'
  BY <1>1, <1>2 DEF TypeOK, MainInv, Cancelled, startVars, mainVars
<1> QED
  BY <1>3, <1>4, <1>5, <1>6 DEF LifecycleInv

-----------------------------------------------------------------------------
(* The shutdown.                                                            *)

\* The steps of main touch no trader.
LEMMA MainStepsKeep ==
  ASSUME LifecycleInv, Interrupt \/ MainSteps
  PROVE  LifecycleInv'
<1> USE IndexFacts
<1>1. TypeOK /\ MainInv /\ \A q \in Traders : TraderInv(q)
  BY DEF LifecycleInv
<1>2. UNCHANGED <<startVars, subscribed, listeners, stopVars, registry,
                  forwarders, crashed>>
  BY DEF Interrupt, MainSteps, StopNext, StopReturns, Cancel, WaitForForwarders,
         StopFeeds
<1>3. TypeOK'
  <2>1. /\ main' \in {"running", "stopping", "waiting", "closing", "exited"}
        /\ stopList' \in SUBSET registry
        /\ stopping' \in stopList' \cup {NoTrader}
    BY <1>1 DEF TypeOK, Interrupt, MainSteps, StopNext, StopReturns, Cancel,
                WaitForForwarders, StopFeeds
  <2> QED BY <1>1, <1>2, <2>1 DEF TypeOK, startVars, stopVars
<1>4. ASSUME NEW q \in Traders PROVE TraderInv(q)'
  <2>1. Kept(q)
    BY <1>2 DEF Kept, startVars, stopVars
  <2>2. Cancelled => Cancelled'
    BY DEF Cancelled, Interrupt, MainSteps, StopNext, StopReturns, Cancel,
           WaitForForwarders, StopFeeds
  <2> QED BY <1>1, <2>1, <2>2, Untouched
<1>5. MainInv'
  BY <1>1, <1>2 DEF MainInv, Cancelled, startVars, stopVars, Interrupt, MainSteps,
                    StopNext, StopReturns, Cancel, WaitForForwarders, StopFeeds
<1> QED
  BY <1>3, <1>4, <1>5 DEF LifecycleInv

LEMMA StepInv == LifecycleInv /\ [Next]_vars => LifecycleInv'
<1> SUFFICES ASSUME LifecycleInv, [Next]_vars PROVE LifecycleInv'
  OBVIOUS
<1>1. ASSUME NEW r \in Traders, StartSteps(r) PROVE LifecycleInv'
  BY <1>1, BeginStartKeeps, SubscribeTokenKeeps, AppendAndListenKeeps,
     SubscribeSportsKeeps, SetSportsSubKeeps, RegisterKeeps, StartForwarderKeeps
     DEF StartSteps
<1>2. ASSUME NEW r \in Traders, StopSteps(r) PROVE LifecycleInv'
  BY <1>2, BeginStopKeeps, UnsubscribeKeeps, CloseKeeps DEF StopSteps
<1>3. ASSUME NEW r \in Traders, ResolveMarket(r) \/ LeaveForwarder(r)
      PROVE  LifecycleInv'
  BY <1>3, ListenerStepsKeep, IndexFacts
<1>4. ASSUME NEW r \in Traders, NEW i \in Indices, LeaveListener(r, i)
      PROVE  LifecycleInv'
  BY <1>4, ListenerStepsKeep
<1>5. CASE Interrupt \/ MainSteps
  BY <1>5, MainStepsKeep
<1>6. CASE Ended \/ UNCHANGED vars
  <2>1. UNCHANGED vars
    BY <1>6 DEF Ended
  <2>2. TypeOK' /\ MainInv'
    BY <2>1 DEF LifecycleInv, TypeOK, MainInv, Cancelled, vars, startVars, stopVars, mainVars
  <2>3. ASSUME NEW q \in Traders PROVE TraderInv(q)'
    <3>1. Kept(q) /\ UNCHANGED Cancelled
      BY <2>1 DEF Kept, Cancelled, vars, startVars, stopVars, mainVars
    <3> QED BY <3>1, Untouched DEF LifecycleInv
  <2> QED BY <2>2, <2>3 DEF LifecycleInv
<1> QED
  BY <1>1, <1>2, <1>3, <1>4, <1>5, <1>6 DEF Next, Indices

-----------------------------------------------------------------------------
(* The theorems.                                                            *)

\* The inductive invariant holds of every run of the program.
THEOREM LifecycleInvariant == Spec => []LifecycleInv
  BY InitInv, StepInv, PTL DEF Spec

\* The variables keep their types: a Stop never unsubscribes a token the market
\* does not have, and only a registered trader is ever stopped by main.
THEOREM LifecycleTypeCorrect == Spec => []TypeOK
<1>1. LifecycleInv => TypeOK
  BY DEF LifecycleInv
<1> QED
  BY <1>1, LifecycleInvariant, PTL

\* Whatever the number of traders and tokens, a channel nobody empties belongs
\* to a trader whose Stop overtook its Start.
THEOREM OnlyRacedAreDeaf == Spec => []NoDeafSubscription
<1>1. LifecycleInv => NoDeafSubscription
  <2> SUFFICES ASSUME LifecycleInv, ~Cancelled, NEW r \in Traders,
                      NEW i \in Indices, <<r, i>> \in subscribed, r \notin raced
               PROVE  \/ <<r, i>> \in listeners
                      \/ starter[r] = "append" /\ i = marketSubs[r] + 1
                      \/ starter[r] = "sportsSet" /\ i = 0
    BY DEF NoDeafSubscription, Indices
  <2> QED BY DEF LifecycleInv, TraderInv, HeardInv
<1> QED
  BY <1>1, LifecycleInvariant, PTL

\* A Stop that did not overtake its Start closes the signals of a trader that
\* neither a feed nor a listener knows any more.
THEOREM StopLeavesSilence == Spec => []StoppedIsSilent
<1>1. LifecycleInv => StoppedIsSilent
  BY DEF LifecycleInv, TraderInv, StopInv, StoppedIsSilent, Indices
<1> QED
  BY <1>1, LifecycleInvariant, PTL

\* The feeds are stopped only after every Stop of StopAll has returned and the
\* forwarders of the initial traders have ended.
THEOREM ExitIsClean == Spec => []CleanExit
<1>1. LifecycleInv => CleanExit
  BY DEF LifecycleInv, MainInv, CleanExit, Cancelled
<1> QED
  BY <1>1, LifecycleInvariant, PTL
=============================================================================
