----------------------------- MODULE MarketFeed -----------------------------
(***************************************************************************)
(* One MarketFeed of polymarket/core/market_feed.go: the connectLoop       *)
(* goroutine that dials, resubscribes and reads one WebSocket at a time,   *)
(* the traders that Subscribe and Unsubscribe tokens while it does so, the *)
(* context that cancels it, and Stop.                                      *)
(*                                                                         *)
(* A trader has one channel per token (ATPTrader.Start makes them), so a   *)
(* channel is named by its trader and its token.  Events are counted, not  *)
(* kept: what matters is whether a channel has room.  The server end of a  *)
(* connection is reduced to the tokens it currently streams.               *)
(***************************************************************************)
EXTENDS Naturals

CONSTANTS
  Tokens,      \* CLOB token identifiers
  Traders,     \* owners of the subscribed channels
  MaxConns,    \* bound: connections dialled; the last one never fails
  ChanCap,     \* capacity of a subscriber's channel (100 in the code)
  BaseDelay,   \* reconnectDelay (5 s in the code)
  MaxDelay     \* reconnectMaxDelay (60 s in the code)

ASSUME FeedAssumption ==
  /\ MaxConns \in Nat \ {0}
  /\ ChanCap \in Nat \ {0}
  /\ BaseDelay \in Nat
  /\ MaxDelay \in Nat
  /\ BaseDelay <= MaxDelay

VARIABLES
  loop,         \* where connectLoop (and the readLoop it calls) stands
  dialed,       \* connectLoop's local conn: the newest connection, 0 if none
  conn,         \* marketFeed.conn, 0 for nil
  link,         \* per connection, the condition of the socket
  server,       \* per connection, the tokens the server streams on it
  subscribers,  \* marketFeed.subscribers: token -> traders listening
  tokenIDs,     \* the snapshot connectLoop is about to resubscribe
  inbox,        \* tokens of the message being dispatched, not yet broadcast
  pending,      \* the network send of the trader that holds mu, or NoSend
  backlog,      \* per trader and token, the events waiting in its channel
  delay,        \* connectLoop's backoff
  cancelled,    \* ctx.Done()
  stop          \* has Stop run, and did the cancellation precede it

loopVars == <<loop, dialed, tokenIDs, inbox, delay>>
netVars  == <<link, server>>
vars == <<loop, dialed, conn, link, server, subscribers, tokenIDs, inbox,
          pending, backlog, delay, cancelled, stop>>

Conns == 1 .. MaxConns
NoSend == [kind |-> "none"]
Sends  == {NoSend} \cup [kind : {"subscribe", "unsubscribe"}, token : Tokens]

\* The program points inside readLoop; the heartbeat goroutine runs there too.
Reading == {"polling", "reading", "dispatching"}

\* The program points between the store of marketFeed.conn and its clearing.
Established == {"adopted", "resubscribe", "writing", "reportRead", "clearing"}
               \cup Reading

LoopPoints == {"check", "dialing", "dialed", "adopting", "reportDial",
               "sleeping", "returned", "panicked"} \cup Established

Registered == {t \in Tokens : subscribers[t] # {}}

\* mu is held across the network send of a Subscribe or an Unsubscribe.
MuFree == pending = NoSend

\* connWriteMu is held by connectLoop between the nil check and the write of
\* its resubscription; every other writer takes and releases it in one step.
ConnWriteMuFree == loop # "writing"

\* A panic of connectLoop ends the process, and every goroutine with it.
Alive == loop # "panicked"

Smaller(a, b) == IF a <= b THEN a ELSE b

TypeOK ==
  /\ loop \in LoopPoints
  /\ dialed \in 0 .. MaxConns
  /\ conn \in 0 .. MaxConns
  /\ link \in [Conns -> {"unused", "up", "writeFailed", "down", "closed"}]
  /\ server \in [Conns -> SUBSET Tokens]
  /\ subscribers \in [Tokens -> SUBSET Traders]
  /\ tokenIDs \in SUBSET Tokens
  /\ inbox \in SUBSET Tokens
  /\ pending \in Sends
  /\ backlog \in [Traders \X Tokens -> 0 .. ChanCap]
  /\ delay \in 0 .. MaxDelay
  /\ cancelled \in BOOLEAN
  /\ stop \in {"no", "early", "final"}

Init ==
  /\ loop = "check"
  /\ dialed = 0
  /\ conn = 0
  /\ link = [k \in Conns |-> "unused"]
  /\ server = [k \in Conns |-> {}]
  /\ subscribers = [t \in Tokens |-> {}]
  /\ tokenIDs = {}
  /\ inbox = {}
  /\ pending = NoSend
  /\ backlog = [ch \in Traders \X Tokens |-> 0]
  /\ delay = BaseDelay
  /\ cancelled = FALSE
  /\ stop = "no"

-----------------------------------------------------------------------------
(* Writes on a connection.  A peer that has gone away may still accept a    *)
(* write; gorilla/websocket makes a write error sticky, so a connection     *)
(* that failed one write fails all later ones although it may still be read.*)

\* The network may break the current connection, except the last one.
FaultAllowed == dialed < MaxConns

WriteSucceeds(k, streamed) ==
  /\ link[k] \in {"up", "down"}
  /\ server' = IF link[k] = "up"
               THEN [server EXCEPT ![k] = streamed]
               ELSE server
  /\ UNCHANGED link

WriteFails(k) ==
  /\ link[k] # "up" \/ FaultAllowed
  /\ link' = IF link[k] = "up"
             THEN [link EXCEPT ![k] = "writeFailed"]
             ELSE link
  /\ UNCHANGED server

Write(k, streamed) == WriteSucceeds(k, streamed) \/ WriteFails(k)

-----------------------------------------------------------------------------
(* connectLoop.                                                             *)

CheckContext ==
  /\ loop = "check"
  /\ loop' = IF cancelled THEN "returned" ELSE "dialing"
  /\ UNCHANGED <<dialed, conn, netVars, subscribers, tokenIDs, inbox, pending,
                 backlog, delay, cancelled, stop>>

DialSucceeds ==
  /\ loop = "dialing"
  /\ dialed < MaxConns
  /\ loop' = "dialed"
  /\ dialed' = dialed + 1
  /\ link' = [link EXCEPT ![dialed + 1] = "up"]
  /\ UNCHANGED <<conn, server, subscribers, tokenIDs, inbox, pending, backlog,
                 delay, cancelled, stop>>

DialFails ==
  /\ loop = "dialing"
  /\ loop' = IF cancelled THEN "returned" ELSE "reportDial"
  /\ UNCHANGED <<dialed, conn, netVars, subscribers, tokenIDs, inbox, pending,
                 backlog, delay, cancelled, stop>>

\* The check of ctx right after the dial: a connection that came too late is
\* closed here.
CheckDialed ==
  /\ loop = "dialed"
  /\ IF cancelled
     THEN /\ link' = [link EXCEPT ![dialed] = "closed"]
          /\ loop' = "returned"
          /\ UNCHANGED delay
     ELSE /\ delay' = BaseDelay
          /\ loop' = "adopting"
          /\ UNCHANGED link
  /\ UNCHANGED <<dialed, conn, server, subscribers, tokenIDs, inbox, pending,
                 backlog, cancelled, stop>>

AdoptConn ==
  /\ loop = "adopting"
  /\ MuFree
  /\ conn' = dialed
  /\ loop' = "adopted"
  /\ UNCHANGED <<dialed, netVars, subscribers, tokenIDs, inbox, pending,
                 backlog, delay, cancelled, stop>>

\* Fault: the new connection is not resubscribed.
SnapshotNothing ==
  /\ loop = "adopted"
  /\ MuFree
  /\ loop' = "polling"
  /\ UNCHANGED <<dialed, conn, netVars, subscribers, tokenIDs, inbox, pending,
                 backlog, delay, cancelled, stop>>

SnapshotTokens ==
  /\ loop = "adopted"
  /\ MuFree
  /\ tokenIDs' = Registered
  /\ loop' = IF Registered = {} THEN "polling" ELSE "resubscribe"
  /\ UNCHANGED <<dialed, conn, netVars, subscribers, inbox, pending, backlog,
                 delay, cancelled, stop>>

\* sendSubscribe takes connWriteMu but not mu: its nil check and its write
\* are two separate reads of marketFeed.conn.
BeginResubscribe ==
  /\ loop = "resubscribe"
  /\ loop' = IF conn = 0 THEN "polling" ELSE "writing"
  /\ UNCHANGED <<dialed, conn, netVars, subscribers, tokenIDs, inbox, pending,
                 backlog, delay, cancelled, stop>>

\* A failed resubscription is only logged.  When Stop has cleared conn since
\* the nil check, the unsynchronised second read yields nil, and WriteJSON
\* panics on it, or the old pointer, whose socket is closed.
FinishResubscribe ==
  /\ loop = "writing"
  /\ \/ /\ conn # 0
        /\ Write(conn, server[conn] \cup tokenIDs)
        /\ loop' = "polling"
     \/ /\ conn = 0
        /\ loop' \in {"polling", "panicked"}
        /\ UNCHANGED netVars
  /\ tokenIDs' = {}
  /\ UNCHANGED <<dialed, conn, subscribers, inbox, pending, backlog, delay,
                 cancelled, stop>>

-----------------------------------------------------------------------------
(* readLoop, dispatch and what follows it.                                  *)

PollContext ==
  /\ loop = "polling"
  /\ loop' = IF cancelled THEN "clearing" ELSE "reading"
  /\ UNCHANGED <<dialed, conn, netVars, subscribers, tokenIDs, inbox, pending,
                 backlog, delay, cancelled, stop>>

\* A message names some of the streamed tokens, or none (a pong, a
\* new_market).  ReadMessage is not interrupted by the context; what arrived
\* before the peer went away can still be read, nothing after our Close.
ReceiveMessage(assets) ==
  /\ loop = "reading"
  /\ link[dialed] # "closed"
  /\ assets \subseteq server[dialed]
  /\ inbox' = assets
  /\ loop' = IF assets = {} THEN "polling" ELSE "dispatching"
  /\ UNCHANGED <<dialed, conn, netVars, subscribers, tokenIDs, pending,
                 backlog, delay, cancelled, stop>>

ReadFails ==
  /\ loop = "reading"
  /\ link[dialed] \in {"down", "closed"}
  /\ loop' = "reportRead"
  /\ UNCHANGED <<dialed, conn, netVars, subscribers, tokenIDs, inbox, pending,
                 backlog, delay, cancelled, stop>>

\* A full channel drops the event: the sender never blocks.
Deliver(channels) ==
  backlog' = [ch \in Traders \X Tokens |->
                IF ch \in channels THEN Smaller(backlog[ch] + 1, ChanCap)
                ELSE backlog[ch]]

ChannelsOf(t) == subscribers[t] \X {t}

BroadcastTo(t) ==
  /\ loop = "dispatching"
  /\ MuFree
  /\ t \in inbox
  /\ Deliver(ChannelsOf(t))
  /\ inbox' = inbox \ {t}
  /\ loop' = IF inbox = {t} THEN "polling" ELSE "dispatching"
  /\ UNCHANGED <<dialed, conn, netVars, subscribers, tokenIDs, pending, delay,
                 cancelled, stop>>

BroadcastError ==
  /\ loop \in {"reportDial", "reportRead"}
  /\ MuFree
  /\ Deliver(UNION {ChannelsOf(t) : t \in Tokens})
  /\ loop' = IF loop = "reportDial" THEN "sleeping" ELSE "clearing"
  /\ UNCHANGED <<dialed, conn, netVars, subscribers, tokenIDs, inbox, pending,
                 delay, cancelled, stop>>

\* The socket itself is not closed here.
ClearConn ==
  /\ loop = "clearing"
  /\ MuFree
  /\ conn' = IF conn = dialed THEN 0 ELSE conn
  /\ loop' = IF cancelled THEN "returned" ELSE "sleeping"
  /\ UNCHANGED <<dialed, netVars, subscribers, tokenIDs, inbox, pending,
                 backlog, delay, cancelled, stop>>

SleepOrDone ==
  /\ loop = "sleeping"
  /\ \/ /\ cancelled
        /\ loop' = "returned"
        /\ UNCHANGED delay
     \/ /\ loop' = "check"
        /\ delay' = Smaller(2 * delay, MaxDelay)
  /\ UNCHANGED <<dialed, conn, netVars, subscribers, tokenIDs, inbox, pending,
                 backlog, cancelled, stop>>

LoopStep ==
  \/ CheckContext
  \/ DialSucceeds
  \/ DialFails
  \/ CheckDialed
  \/ AdoptConn
  \/ SnapshotTokens
  \/ BeginResubscribe
  \/ FinishResubscribe
  \/ PollContext
  \/ ReadFails
  \/ \E t \in Tokens : BroadcastTo(t)
  \/ BroadcastError
  \/ ClearConn
  \/ SleepOrDone

-----------------------------------------------------------------------------
(* Traders.  Subscribe and Unsubscribe keep mu until their send is done.    *)

Subscribe(r, t) ==
  /\ Alive
  /\ MuFree
  /\ r \notin subscribers[t]
  /\ subscribers' = [subscribers EXCEPT ![t] = @ \cup {r}]
  /\ pending' = IF subscribers[t] = {} /\ conn # 0
                THEN [kind |-> "subscribe", token |-> t]
                ELSE NoSend
  /\ UNCHANGED <<loopVars, conn, netVars, backlog, cancelled, stop>>

\* Fault: the token is unsubscribed although other listeners remain.
UnsubscribeForAll(r, t) ==
  /\ Alive
  /\ MuFree
  /\ r \in subscribers[t]
  /\ subscribers' = [subscribers EXCEPT ![t] = @ \ {r}]
  /\ pending' = IF conn # 0 THEN [kind |-> "unsubscribe", token |-> t]
                ELSE NoSend
  /\ UNCHANGED <<loopVars, conn, netVars, backlog, cancelled, stop>>

\* Fault: the connection is dropped with its last listener.
UnsubscribeDropsConn(r, t) ==
  /\ Alive
  /\ MuFree
  /\ r \in subscribers[t]
  /\ subscribers' = [subscribers EXCEPT ![t] = @ \ {r}]
  /\ conn' = IF Registered = {t} /\ subscribers[t] = {r} THEN 0 ELSE conn
  /\ UNCHANGED <<loopVars, netVars, pending, backlog, cancelled, stop>>

Unsubscribe(r, t) ==
  /\ Alive
  /\ MuFree
  /\ r \in subscribers[t]
  /\ subscribers' = [subscribers EXCEPT ![t] = @ \ {r}]
  /\ pending' = IF subscribers[t] = {r} /\ conn # 0
                THEN [kind |-> "unsubscribe", token |-> t]
                ELSE NoSend
  /\ UNCHANGED <<loopVars, conn, netVars, backlog, cancelled, stop>>

\* Best effort: an error is logged (Subscribe) or returned (Unsubscribe) and
\* the registration stands.
FinishSend ==
  /\ Alive
  /\ ~MuFree
  /\ ConnWriteMuFree
  /\ IF conn = 0
     THEN UNCHANGED netVars
     ELSE Write(conn, IF pending.kind = "subscribe"
                      THEN server[conn] \cup {pending.token}
                      ELSE server[conn] \ {pending.token})
  /\ pending' = NoSend
  /\ UNCHANGED <<loopVars, conn, subscribers, backlog, cancelled, stop>>

\* The trader's listener takes an event from its channel.
Receive(r, t) ==
  /\ Alive
  /\ backlog[<<r, t>>] > 0
  /\ backlog' = [backlog EXCEPT ![<<r, t>>] = @ - 1]
  /\ UNCHANGED <<loopVars, conn, netVars, subscribers, pending, cancelled,
                 stop>>

-----------------------------------------------------------------------------
(* Shutdown, and the network.                                               *)

Cancel ==
  /\ Alive
  /\ ~cancelled
  /\ cancelled' = TRUE
  /\ UNCHANGED <<loopVars, conn, netVars, subscribers, pending, backlog, stop>>

\* Fault: the connection is forgotten but not closed.
StopWithoutClose ==
  /\ Alive
  /\ stop = "no"
  /\ MuFree
  /\ stop' = IF cancelled THEN "final" ELSE "early"
  /\ conn' = 0
  /\ UNCHANGED <<loopVars, netVars, subscribers, pending, backlog, cancelled>>

\* stopOnce: the first call closes the connection it finds, if it finds one.
Stop ==
  /\ Alive
  /\ stop = "no"
  /\ MuFree
  /\ stop' = IF cancelled THEN "final" ELSE "early"
  /\ link' = IF conn # 0 THEN [link EXCEPT ![conn] = "closed"] ELSE link
  /\ conn' = 0
  /\ UNCHANGED <<loopVars, server, subscribers, pending, backlog, cancelled>>

\* A ping that cannot be written is logged; the reader goes on.
HeartbeatFails ==
  /\ loop \in Reading
  /\ link[dialed] = "up"
  /\ FaultAllowed
  /\ link' = [link EXCEPT ![dialed] = "writeFailed"]
  /\ UNCHANGED <<loopVars, conn, server, subscribers, pending, backlog,
                 cancelled, stop>>

\* The peer goes away; it does so for sure when pings no longer reach it.
ConnDrops ==
  /\ dialed > 0
  /\ \/ link[dialed] = "up" /\ FaultAllowed
     \/ link[dialed] = "writeFailed"
  /\ link' = [link EXCEPT ![dialed] = "down"]
  /\ UNCHANGED <<loopVars, conn, server, subscribers, pending, backlog,
                 cancelled, stop>>

SilentConnDrops ==
  /\ dialed > 0
  /\ link[dialed] = "writeFailed"
  /\ ConnDrops

\* After a panic nothing happens any more.
Crashed ==
  /\ ~Alive
  /\ UNCHANGED vars

Next ==
  \/ LoopStep
  \/ \E assets \in SUBSET Tokens : ReceiveMessage(assets)
  \/ \E r \in Traders, t \in Tokens :
       Subscribe(r, t) \/ Unsubscribe(r, t) \/ Receive(r, t)
  \/ FinishSend
  \/ Cancel
  \/ Stop
  \/ HeartbeatFails
  \/ ConnDrops
  \/ Crashed

Spec == Init /\ [][Next]_vars

\* The goroutine and a trader's send are scheduled, and Go's mutexes hand over
\* in order, so a step that waits for one is not overtaken for ever; the
\* network accepts one of any endless series of dials; a dead connection has
\* finitely many messages left to read; the server closes a connection on
\* which it receives no pings.  Nothing is assumed of messages, of the
\* traders' calls, of Cancel and of Stop.
Fairness ==
  /\ SF_vars(LoopStep)
  /\ SF_vars(DialSucceeds)
  /\ SF_vars(ReadFails)
  /\ SF_vars(FinishSend)
  /\ WF_vars(SilentConnDrops)

FairSpec == Spec /\ Fairness

-----------------------------------------------------------------------------
(* Properties.                                                              *)

SubscribePending(t) == pending = [kind |-> "subscribe", token |-> t]
SendPending(t) == pending # NoSend /\ pending.token = t

\* While a connection is being read and can still be written, every token
\* with a listener is streamed on it, unless its Subscribe is about to send:
\* no interleaving of reconnection, Subscribe and Unsubscribe loses a token
\* (store of conn before the snapshot, exists/conn test under mu).
LiveSubscriptions ==
  loop \in Reading /\ link[dialed] = "up" =>
    \A t \in Registered : SubscribePending(t) \/ t \in server[dialed]

\* marketFeed.conn is nil or the connection connectLoop is serving, not yet
\* closed: no Subscribe writes on an abandoned socket, and a returned
\* connectLoop leaves no connection behind in the feed.
NoStaleConnection ==
  conn # 0 => conn = dialed /\ loop \in Established /\ link[conn] # "closed"

\* The unsynchronised nil check of sendSubscribe can hurt only once Stop has
\* run: no reconnection, Subscribe or Unsubscribe pulls conn from under it.
PanicOnlyAfterStop == loop = "panicked" => stop # "no"

\* "If no listeners remain, the token ID is unsubscribed from the connection"
\* (comment of Unsubscribe).
NoListenersUnsubscribed ==
  loop \in Reading /\ link[dialed] = "up" =>
    \A t \in Tokens \ Registered : SendPending(t) \/ t \notin server[dialed]

\* main's shutdown cancels the context and then calls Stop: connectLoop ends,
\* whichever step it was at, even if no trader empties its channel any more.
ShutdownTerminates == stop = "final" ~> loop \in {"returned", "panicked"}

\* "failures are logged and retried on reconnect" (comment of Subscribe): a
\* token that keeps a listener is streamed on a working connection in the end.
EventuallyStreamed ==
  \A t \in Tokens :
    t \in Registered ~>
      \/ loop \in Reading /\ link[dialed] = "up" /\ t \in server[dialed]
      \/ t \notin Registered
      \/ cancelled
      \/ stop # "no"
=============================================================================
