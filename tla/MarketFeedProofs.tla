-------------------------- MODULE MarketFeedProofs --------------------------
(***************************************************************************)
(* Safety of MarketFeed for every set of tokens and traders and every      *)
(* bound: type correctness, then one inductive invariant that relates the  *)
(* program point of connectLoop, the connection, the sockets and what the  *)
(* server streams, from which the three safety properties follow.          *)
(***************************************************************************)
EXTENDS MarketFeed, TLAPS

-----------------------------------------------------------------------------
(* The inductive invariant.                                                 *)

\* A connection exists once the dial has succeeded, and until it is stored
\* in marketFeed.conn only connectLoop itself could have closed it.
FreshConn ==
  /\ loop \in {"dialed", "adopting"} \cup Established => dialed \in Conns
  /\ loop \in {"dialed", "adopting"} => link[dialed] # "closed"

\* Only Stop takes a served connection away, and it closes the socket.
OnlyStopClears ==
  loop \in Established /\ conn = 0 => stop # "no" /\ link[dialed] = "closed"

\* The holder of mu has a connection to send on; the token it unsubscribes
\* has no listener left.
SendHasConn ==
  /\ pending # NoSend => conn # 0
  /\ \A t \in Tokens : pending = [kind |-> "unsubscribe", token |-> t] =>
                         t \notin Registered

\* Before the resubscription is written, its snapshot stands in for the
\* tokens the server does not stream yet.
Covered(t) ==
  \/ SubscribePending(t)
  \/ t \in server[dialed]
  \/ loop \in {"resubscribe", "writing"} /\ t \in tokenIDs

TokensCovered ==
  loop \in {"resubscribe", "writing"} \cup Reading /\ link[dialed] = "up" =>
    \A t \in Registered : Covered(t)

FeedInv ==
  /\ TypeOK
  /\ FreshConn
  /\ NoStaleConnection
  /\ OnlyStopClears
  /\ SendHasConn
  /\ PanicOnlyAfterStop
  /\ TokensCovered

-----------------------------------------------------------------------------
(* Type correctness.                                                        *)

LEMMA DeliverType ==
  ASSUME backlog \in [Traders \X Tokens -> 0 .. ChanCap],
         NEW channels, Deliver(channels)
  PROVE  backlog' \in [Traders \X Tokens -> 0 .. ChanCap]
<1>1. ASSUME NEW n \in 0 .. ChanCap
      PROVE  Smaller(n + 1, ChanCap) \in 0 .. ChanCap
  BY <1>1, FeedAssumption DEF Smaller
<1> QED
  BY <1>1 DEF Deliver

LEMMA WriteType ==
  ASSUME TypeOK, NEW k \in Conns, NEW streamed \in SUBSET Tokens,
         Write(k, streamed)
  PROVE  /\ link' \in [Conns -> {"unused", "up", "writeFailed", "down", "closed"}]
         /\ server' \in [Conns -> SUBSET Tokens]
BY DEF TypeOK, Write, WriteSucceeds, WriteFails

\* Every step of the feed keeps every variable in its type.
LEMMA TypeStep == TypeOK /\ [Next]_vars => TypeOK'
<1> SUFFICES ASSUME TypeOK, [Next]_vars
             PROVE  TypeOK'
  OBVIOUS
<1> USE FeedAssumption DEF TypeOK, loopVars, netVars, LoopPoints, Reading, Established
<1>1. CASE CheckContext
  BY <1>1 DEF CheckContext
<1>2. CASE DialSucceeds
  BY <1>2 DEF DialSucceeds, Conns
<1>3. CASE DialFails
  BY <1>3 DEF DialFails
<1>4. CASE CheckDialed
  BY <1>4 DEF CheckDialed
<1>5. CASE AdoptConn
  BY <1>5 DEF AdoptConn
<1>6. CASE SnapshotTokens
  BY <1>6 DEF SnapshotTokens, Registered
<1>7. CASE BeginResubscribe
  BY <1>7 DEF BeginResubscribe
<1>8. CASE FinishResubscribe
  <2>1. CASE conn = 0
    BY <1>8, <2>1 DEF FinishResubscribe, Write, WriteSucceeds, WriteFails
  <2>2. CASE conn # 0
    <3>1. conn \in Conns /\ server[conn] \cup tokenIDs \in SUBSET Tokens
      BY <2>2 DEF Conns
    <3>2. Write(conn, server[conn] \cup tokenIDs)
      BY <1>8, <2>2 DEF FinishResubscribe
    <3> QED
      BY <1>8, <2>2, <3>1, <3>2, WriteType DEF FinishResubscribe
  <2> QED
    BY <2>1, <2>2
<1>9. CASE PollContext
  BY <1>9 DEF PollContext
<1>10. ASSUME NEW assets \in SUBSET Tokens, ReceiveMessage(assets)
       PROVE  TypeOK'
  BY <1>10 DEF ReceiveMessage
<1>11. CASE ReadFails
  BY <1>11 DEF ReadFails
<1>12. ASSUME NEW t \in Tokens, BroadcastTo(t)
       PROVE  TypeOK'
  BY <1>12, DeliverType DEF BroadcastTo
<1>13. CASE BroadcastError
  BY <1>13, DeliverType DEF BroadcastError
<1>14. CASE ClearConn
  BY <1>14 DEF ClearConn
<1>15. CASE SleepOrDone
  BY <1>15 DEF SleepOrDone, Smaller
<1>16. ASSUME NEW r \in Traders, NEW t \in Tokens, Subscribe(r, t)
       PROVE  TypeOK'
  BY <1>16 DEF Subscribe, Sends, NoSend
<1>17. ASSUME NEW r \in Traders, NEW t \in Tokens, Unsubscribe(r, t)
       PROVE  TypeOK'
  BY <1>17 DEF Unsubscribe, Sends, NoSend
<1>18. CASE FinishSend
  <2>1. pending' = NoSend /\ NoSend \in Sends
    BY <1>18 DEF FinishSend, Sends
  <2>2. CASE conn = 0
    BY <1>18, <2>1, <2>2 DEF FinishSend
  <2>3. CASE conn # 0
    <3> DEFINE streamed == IF pending.kind = "subscribe"
                           THEN server[conn] \cup {pending.token}
                           ELSE server[conn] \ {pending.token}
    <3>1. pending.token \in Tokens
      BY <1>18 DEF FinishSend, Sends, NoSend, MuFree
    <3>2. conn \in Conns
      BY <2>3 DEF Conns
    <3>3. streamed \in SUBSET Tokens
      BY <3>1, <3>2
    <3>4. Write(conn, streamed)
      BY <1>18, <2>3 DEF FinishSend
    <3> HIDE DEF streamed
    <3> QED
      BY <1>18, <2>1, <3>2, <3>3, <3>4, WriteType DEF FinishSend
  <2> QED
    BY <2>2, <2>3
<1>19. ASSUME NEW r \in Traders, NEW t \in Tokens, Receive(r, t)
       PROVE  TypeOK'
  BY <1>19 DEF Receive
<1>20. CASE Cancel
  BY <1>20 DEF Cancel
<1>21. CASE Stop
  <2>1. link' \in [Conns -> {"unused", "up", "writeFailed", "down", "closed"}]
    BY <1>21 DEF Stop
  <2> QED
    BY <1>21, <2>1 DEF Stop
<1>22. CASE HeartbeatFails
  BY <1>22 DEF HeartbeatFails
<1>23. CASE ConnDrops
  BY <1>23 DEF ConnDrops
<1>24. CASE UNCHANGED vars
  BY <1>24 DEF vars
<1> QED
  BY <1>1, <1>2, <1>3, <1>4, <1>5, <1>6, <1>7, <1>8, <1>9, <1>10, <1>11,
     <1>12, <1>13, <1>14, <1>15, <1>16, <1>17, <1>18, <1>19, <1>20, <1>21,
     <1>22, <1>23, <1>24
  DEF Next, LoopStep, Crashed

-----------------------------------------------------------------------------
(* The connection: FreshConn, NoStaleConnection, OnlyStopClears, SendHasConn,*)
(* PanicOnlyAfterStop.                                                       *)

ConnInv ==
  /\ FreshConn
  /\ NoStaleConnection
  /\ OnlyStopClears
  /\ SendHasConn
  /\ PanicOnlyAfterStop

\* A write changes neither the number of closed sockets nor an unused one.
LEMMA WriteLinks ==
  ASSUME TypeOK, NEW k \in Conns, NEW streamed, Write(k, streamed)
  PROVE  \A j \in Conns : link'[j] = "closed" <=> link[j] = "closed"
BY DEF TypeOK, Write, WriteSucceeds, WriteFails

\* Every step keeps the relations between connectLoop and its connection.
LEMMA ConnStep == TypeOK /\ ConnInv /\ [Next]_vars => ConnInv'
<1> SUFFICES ASSUME TypeOK, ConnInv, [Next]_vars
             PROVE  ConnInv'
  OBVIOUS
<1> USE FeedAssumption DEF TypeOK, ConnInv, FreshConn, NoStaleConnection,
        OnlyStopClears, SendHasConn, PanicOnlyAfterStop, loopVars, netVars,
        Reading, Established, Conns, MuFree, NoSend
<1>1. CASE CheckContext
  BY <1>1 DEF CheckContext, Registered
<1>2. CASE DialSucceeds
  BY <1>2 DEF DialSucceeds, Registered
<1>3. CASE DialFails
  BY <1>3 DEF DialFails, Registered
<1>4. CASE CheckDialed
  BY <1>4 DEF CheckDialed, Registered
<1>5. CASE AdoptConn
  BY <1>5 DEF AdoptConn, Registered
<1>6. CASE SnapshotTokens
  BY <1>6 DEF SnapshotTokens, Registered
<1>7. CASE BeginResubscribe
  BY <1>7 DEF BeginResubscribe, Registered
<1>8. CASE FinishResubscribe
  <2>1. \A j \in Conns : link'[j] = "closed" <=> link[j] = "closed"
    BY <1>8, WriteLinks DEF FinishResubscribe
  <2> QED
    BY <1>8, <2>1 DEF FinishResubscribe, Registered
<1>9. CASE PollContext
  BY <1>9 DEF PollContext, Registered
<1>10. ASSUME NEW assets \in SUBSET Tokens, ReceiveMessage(assets)
       PROVE  ConnInv'
  BY <1>10 DEF ReceiveMessage, Registered
<1>11. CASE ReadFails
  BY <1>11 DEF ReadFails, Registered
<1>12. ASSUME NEW t \in Tokens, BroadcastTo(t)
       PROVE  ConnInv'
  BY <1>12 DEF BroadcastTo, Registered
<1>13. CASE BroadcastError
  BY <1>13 DEF BroadcastError, Registered
<1>14. CASE ClearConn
  BY <1>14 DEF ClearConn, Registered
<1>15. CASE SleepOrDone
  BY <1>15 DEF SleepOrDone, Registered
<1>16. ASSUME NEW r \in Traders, NEW t \in Tokens, Subscribe(r, t)
       PROVE  ConnInv'
  BY <1>16 DEF Subscribe, Registered
<1>17. ASSUME NEW r \in Traders, NEW t \in Tokens, Unsubscribe(r, t)
       PROVE  ConnInv'
  BY <1>17 DEF Unsubscribe, Registered
<1>18. CASE FinishSend
  <2>1. \A j \in Conns : link'[j] = "closed" <=> link[j] = "closed"
    BY <1>18, WriteLinks DEF FinishSend
  <2> QED
    BY <1>18, <2>1 DEF FinishSend, Registered
<1>19. ASSUME NEW r \in Traders, NEW t \in Tokens, Receive(r, t)
       PROVE  ConnInv'
  BY <1>19 DEF Receive, Registered
<1>20. CASE Cancel
  BY <1>20 DEF Cancel, Registered
<1>21. CASE Stop
  BY <1>21 DEF Stop, Registered
<1>22. CASE HeartbeatFails
  BY <1>22 DEF HeartbeatFails, Registered
<1>23. CASE ConnDrops
  BY <1>23 DEF ConnDrops, Registered
<1>24. CASE UNCHANGED vars
  BY <1>24 DEF vars, Registered
<1> QED
  BY <1>1, <1>2, <1>3, <1>4, <1>5, <1>6, <1>7, <1>8, <1>9, <1>10, <1>11,
     <1>12, <1>13, <1>14, <1>15, <1>16, <1>17, <1>18, <1>19, <1>20, <1>21,
     <1>22, <1>23, <1>24
  DEF Next, LoopStep, Crashed

-----------------------------------------------------------------------------
(* The tokens: TokensCovered.                                               *)

\* What a write leaves on a socket that is still up: the tokens it asked for.
LEMMA WriteStreams ==
  ASSUME TypeOK, NEW k \in Conns, NEW streamed \in SUBSET Tokens,
         Write(k, streamed), link'[k] = "up"
  PROVE  link[k] = "up" /\ server'[k] = streamed
BY DEF TypeOK, Write, WriteSucceeds, WriteFails

\* Every step keeps each registered token covered.  The steps that matter are
\* the snapshot (it holds every registered token), the write that turns the
\* snapshot into streamed tokens, and the registration and the send of a
\* trader; the others leave the tokens alone or take the connection away.
LEMMA CoverStep ==
  TypeOK /\ ConnInv /\ TokensCovered /\ TypeOK' /\ [Next]_vars => TokensCovered'
<1> SUFFICES ASSUME TypeOK, ConnInv, TokensCovered, TypeOK', [Next]_vars,
                    (loop \in {"resubscribe", "writing"} \cup Reading)',
                    (link[dialed])' = "up",
                    NEW t \in Tokens, (t \in Registered)'
             PROVE  Covered(t)'
  BY DEF TokensCovered, Registered
<1> USE FeedAssumption DEF TypeOK, ConnInv, FreshConn, NoStaleConnection,
        OnlyStopClears, SendHasConn, loopVars, netVars, Reading, Established,
        Conns, MuFree, NoSend, TokensCovered, Covered, Registered,
        SubscribePending
<1>1. CASE CheckContext
  BY <1>1 DEF CheckContext
<1>2. CASE DialSucceeds
  BY <1>2 DEF DialSucceeds
<1>3. CASE DialFails
  BY <1>3 DEF DialFails
<1>4. CASE CheckDialed
  BY <1>4 DEF CheckDialed
<1>5. CASE AdoptConn
  BY <1>5 DEF AdoptConn
<1>6. CASE SnapshotTokens
  BY <1>6 DEF SnapshotTokens
<1>7. CASE BeginResubscribe
  BY <1>7 DEF BeginResubscribe
<1>8. CASE FinishResubscribe
  <2>1. CASE conn = 0
    BY <1>8, <2>1 DEF FinishResubscribe
  <2>2. CASE conn # 0
    <3>1. conn \in Conns /\ conn = dialed /\ dialed' = dialed
      BY <1>8, <2>2 DEF FinishResubscribe
    <3>2. Write(conn, server[conn] \cup tokenIDs)
      BY <1>8, <2>2 DEF FinishResubscribe
    <3>3. link[dialed] = "up" /\ server'[dialed] = server[dialed] \cup tokenIDs
      BY <3>1, <3>2, WriteStreams
    <3> QED
      BY <1>8, <3>1, <3>3 DEF FinishResubscribe
  <2> QED
    BY <2>1, <2>2
<1>9. CASE PollContext
  BY <1>9 DEF PollContext
<1>10. CASE \E assets \in SUBSET Tokens : ReceiveMessage(assets)
  BY <1>10 DEF ReceiveMessage
<1>11. CASE ReadFails
  BY <1>11 DEF ReadFails
<1>12. CASE \E u \in Tokens : BroadcastTo(u)
  BY <1>12 DEF BroadcastTo
<1>13. CASE BroadcastError
  BY <1>13 DEF BroadcastError
<1>14. CASE ClearConn
  BY <1>14 DEF ClearConn
<1>15. CASE SleepOrDone
  BY <1>15 DEF SleepOrDone
<1>16. ASSUME NEW r \in Traders, NEW u \in Tokens, Subscribe(r, u)
       PROVE  Covered(t)'
  <2>1. CASE t \in Registered
    BY <1>16, <2>1 DEF Subscribe
  <2>2. CASE t \notin Registered
    \* Subscribe has just registered t; the connection is up, so it is not
    \* nil, and the send is pending.
    BY <1>16, <2>2 DEF Subscribe
  <2> QED
    BY <2>1, <2>2
<1>17. ASSUME NEW r \in Traders, NEW u \in Tokens, Unsubscribe(r, u)
       PROVE  Covered(t)'
  BY <1>17 DEF Unsubscribe
<1>18. CASE FinishSend
  <2>1. conn \in Conns /\ conn = dialed /\ dialed' = dialed
    BY <1>18 DEF FinishSend
  <2>2. t \in Registered /\ pending' = NoSend
    BY <1>18 DEF FinishSend
  <2> DEFINE streamed == IF pending.kind = "subscribe"
                         THEN server[conn] \cup {pending.token}
                         ELSE server[conn] \ {pending.token}
  <2>3. pending.token \in Tokens
        /\ pending = [kind |-> pending.kind, token |-> pending.token]
        /\ pending.kind \in {"subscribe", "unsubscribe"}
    BY <1>18 DEF FinishSend, Sends
  <2>4. streamed \in SUBSET Tokens /\ Write(conn, streamed)
    BY <1>18, <2>1, <2>3 DEF FinishSend
  <2>5. link[dialed] = "up" /\ server'[dialed] = streamed
    BY <2>1, <2>4, WriteStreams
  <2>6. loop' = loop /\ tokenIDs' = tokenIDs
    BY <1>18 DEF FinishSend
  <2>7. Covered(t)
    <3> HIDE DEF streamed
    <3> QED
      BY <2>2, <2>5, <2>6
  <2>8. CASE pending.kind = "subscribe"
    BY <2>1, <2>3, <2>5, <2>6, <2>7, <2>8
  <2>9. CASE pending.kind = "unsubscribe"
    <3>1. pending.token # t
      BY <2>2, <2>3, <2>9
    <3> QED
      BY <2>1, <2>3, <2>5, <2>6, <2>7, <2>9, <3>1
  <2> QED
    BY <2>3, <2>8, <2>9
<1>19. CASE \E r \in Traders, u \in Tokens : Receive(r, u)
  BY <1>19 DEF Receive
<1>20. CASE Cancel
  BY <1>20 DEF Cancel
<1>21. CASE Stop
  BY <1>21 DEF Stop
<1>22. CASE HeartbeatFails
  BY <1>22 DEF HeartbeatFails
<1>23. CASE ConnDrops
  BY <1>23 DEF ConnDrops
<1>24. CASE UNCHANGED vars
  BY <1>24 DEF vars
<1> QED
  BY <1>1, <1>2, <1>3, <1>4, <1>5, <1>6, <1>7, <1>8, <1>9, <1>10, <1>11,
     <1>12, <1>13, <1>14, <1>15, <1>16, <1>17, <1>18, <1>19, <1>20, <1>21,
     <1>22, <1>23, <1>24
  DEF Next, LoopStep, Crashed

-----------------------------------------------------------------------------
(* The theorems.                                                            *)

LEMMA FeedInit == Init => FeedInv
<1> SUFFICES ASSUME Init
             PROVE  FeedInv
  OBVIOUS
<1>1. TypeOK
  <2>1. backlog \in [Traders \X Tokens -> 0 .. ChanCap]
    BY FeedAssumption DEF Init
  <2>2. dialed \in 0 .. MaxConns /\ conn \in 0 .. MaxConns /\ delay \in 0 .. MaxDelay
    BY FeedAssumption DEF Init
  <2> QED
    BY <2>1, <2>2 DEF Init, TypeOK, LoopPoints, Sends
<1>2. ConnInv
  BY DEF Init, ConnInv, FreshConn, NoStaleConnection, OnlyStopClears,
         SendHasConn, PanicOnlyAfterStop, Established, Reading, Registered
<1>3. TokensCovered
  BY DEF Init, TokensCovered, Reading
<1> QED
  BY <1>1, <1>2, <1>3 DEF FeedInv, ConnInv

LEMMA FeedStep == FeedInv /\ [Next]_vars => FeedInv'
<1> SUFFICES ASSUME FeedInv, [Next]_vars
             PROVE  FeedInv'
  OBVIOUS
<1>1. TypeOK /\ ConnInv /\ TokensCovered
  BY DEF FeedInv, ConnInv
<1>2. TypeOK'
  BY <1>1, TypeStep
<1>3. ConnInv'
  BY <1>1, ConnStep
<1>4. TokensCovered'
  BY <1>1, <1>2, CoverStep
<1> QED
  BY <1>2, <1>3, <1>4 DEF FeedInv, ConnInv

\* The inductive invariant holds in every behaviour of the feed, whatever the
\* tokens, the traders, the channel capacity and the number of reconnections.
THEOREM FeedInvariant == Spec => []FeedInv
<1> QED
  BY FeedInit, FeedStep, PTL DEF Spec

\* Every variable of the feed keeps its type.
THEOREM TypeCorrect == Spec => []TypeOK
<1>1. FeedInv => TypeOK
  BY DEF FeedInv
<1> QED
  BY <1>1, FeedInvariant, PTL

\* No interleaving of reconnections, Subscribe, Unsubscribe, Stop and network
\* failures leaves a token with a listener unstreamed on a working connection.
THEOREM SubscriptionsAreLive == Spec => []LiveSubscriptions
<1>1. FeedInv => LiveSubscriptions
  BY DEF FeedInv, TokensCovered, Covered, LiveSubscriptions, Reading
<1> QED
  BY <1>1, FeedInvariant, PTL

\* marketFeed.conn is never a connection that connectLoop has abandoned or
\* that has been closed.
THEOREM ConnectionIsCurrent == Spec => []NoStaleConnection
<1>1. FeedInv => NoStaleConnection
  BY DEF FeedInv
<1> QED
  BY <1>1, FeedInvariant, PTL

\* The nil dereference in sendSubscribe needs a Stop.
THEOREM PanicNeedsStop == Spec => []PanicOnlyAfterStop
<1>1. FeedInv => PanicOnlyAfterStop
  BY DEF FeedInv
<1> QED
  BY <1>1, FeedInvariant, PTL
=============================================================================
