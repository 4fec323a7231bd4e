---------------------------- MODULE RequestGate -----------------------------
(***************************************************************************)
(* The HTTP requests to Tennis Abstract: the process-wide gate that spaces *)
(* them and the retries after a 429.  The gate is a time stamp under a     *)
(* mutex held only for the check; a goroutine that has to wait sleeps      *)
(* outside it and checks again.                                            *)
(*                                                                         *)
(* Source: tennis/tennisabstract/fetch_http.go.  Time is discrete and      *)
(* relative: timers count down and the age of a stamp saturates, so that a *)
(* behaviour may last for ever.  A timer may fire late, never early.       *)
(***************************************************************************)
EXTENDS Integers

CONSTANTS
  Callers,             \* goroutines inside doHTTP, each with a context of its own
  Hasty,               \* those of a client without a spacing, NewClient's default
  MinRequestInterval,  \* Client.minRequestInterval of the others
  HTTPMaxRetries,      \* the client's options, 0 when they were not given
  HTTPBackoffInitial,
  HTTPBackoffMax,
  DefaultMaxRetries,
  DefaultBackoffInitial,
  DefaultBackoffMax,
  RetryAfters,         \* what a Retry-After header may ask; 0: no header, or a past date
  MaxCalls             \* bound on the calls of one goroutine

ASSUME GateAssumption ==
  /\ Hasty \subseteq Callers
  /\ MinRequestInterval \in Nat
  /\ {HTTPMaxRetries, HTTPBackoffInitial, HTTPBackoffMax} \subseteq Nat
  /\ {DefaultMaxRetries, DefaultBackoffInitial, DefaultBackoffMax} \subseteq Nat \ {0}
  /\ RetryAfters \subseteq Nat
  /\ MaxCalls \in Nat

VARIABLES
  stage,      \* where each goroutine stands in doHTTP
  attempt,    \* the loop variable of doHTTP
  sleep,      \* what is left of the timer it waits for
  cancelled,  \* contexts that are done
  calls,      \* calls each goroutine has made
  age,        \* time since lastHTTPRequest, as far as the gate looks
  passes,     \* ghost: who passed the gate how long ago, within one interval
  asked,      \* ghost: what is left of the last Retry-After
  sent        \* ghost: requests of the present call

clientVars == <<attempt, calls, cancelled>>
ghosts == <<passes, asked, sent>>
gateVars == <<stage, attempt, sleep, cancelled, calls, age, passes, asked, sent>>

effectiveHTTPMaxRetries ==
  IF HTTPMaxRetries > 0 THEN HTTPMaxRetries ELSE DefaultMaxRetries
effectiveHTTPBackoffInitial ==
  IF HTTPBackoffInitial > 0 THEN HTTPBackoffInitial ELSE DefaultBackoffInitial
effectiveHTTPBackoffMax ==
  IF HTTPBackoffMax > 0 THEN HTTPBackoffMax ELSE DefaultBackoffMax

\* The loop doubles the delay once per earlier attempt and gives up as soon
\* as the next doubling could pass the cap.
retryBackoff(n) ==
  LET initial == effectiveHTTPBackoffInitial
      max == effectiveHTTPBackoffMax
  IN  IF \/ \E i \in 0 .. n - 1 : initial * 2 ^ i >= max \div 2
         \/ initial * 2 ^ n > max
      THEN max
      ELSE initial * 2 ^ n

\* The wait before the next attempt: Retry-After when it asks for more.
\* Fault: the header replaces the backoff.
WaitHeaderOnly(n, retryAfter) ==
  IF retryAfter > 0 THEN 1 ELSE retryBackoff(n)
RetryWait(n, retryAfter) ==
  LET backoff == retryBackoff(n)
  IN  IF retryAfter > backoff THEN retryAfter ELSE backoff

Stages == {"idle", "gate", "asleep", "inflight", "backoff"}
Waiting == {"asleep", "backoff"}

GateTypeOK ==
  /\ stage \in [Callers -> Stages]
  /\ attempt \in [Callers -> 0 .. effectiveHTTPMaxRetries]
  /\ sleep \in [Callers -> Nat]
  /\ cancelled \subseteq Callers
  /\ calls \in [Callers -> 0 .. MaxCalls]
  /\ age \in 0 .. MinRequestInterval
  /\ passes \subseteq [by : Callers, age : Nat]
  /\ asked \in [Callers -> Nat]
  /\ sent \in [Callers -> Nat]

GateInit ==
  /\ stage = [c \in Callers |-> "idle"]
  /\ attempt = [c \in Callers |-> 0]
  /\ sleep = [c \in Callers |-> 0]
  /\ cancelled = {}
  /\ calls = [c \in Callers |-> 0]
  /\ age = MinRequestInterval  \* the zero time is long ago
  /\ passes = {}
  /\ asked = [c \in Callers |-> 0]
  /\ sent = [c \in Callers |-> 0]

-----------------------------------------------------------------------------
(* The gate, waitRequestInterval.                                           *)

Call(c) ==
  /\ stage[c] = "idle"
  /\ calls[c] < MaxCalls
  /\ stage' = [stage EXCEPT ![c] = "gate"]
  /\ calls' = [calls EXCEPT ![c] = @ + 1]
  /\ attempt' = [attempt EXCEPT ![c] = 0]
  /\ sent' = [sent EXCEPT ![c] = 0]
  /\ asked' = [asked EXCEPT ![c] = 0]
  /\ cancelled' = cancelled \ {c}
  /\ UNCHANGED <<sleep, age, passes>>

\* With throttling off the gate is neither looked at nor stamped.
SkipGate(c) ==
  /\ stage[c] = "gate"
  /\ c \in Hasty \/ MinRequestInterval = 0
  /\ stage' = [stage EXCEPT ![c] = "inflight"]
  /\ sent' = [sent EXCEPT ![c] = @ + 1]
  /\ UNCHANGED <<clientVars, sleep, age, passes, asked>>

\* Fault: a cancelled call is not let through, nor told.
PassGateLive(c) ==
  /\ stage[c] = "gate"
  /\ c \notin Hasty \cup cancelled
  /\ MinRequestInterval > 0
  /\ MinRequestInterval - age <= 0
  /\ age' = 0
  /\ passes' = passes \cup {[by |-> c, age |-> 0]}
  /\ stage' = [stage EXCEPT ![c] = "inflight"]
  /\ sent' = [sent EXCEPT ![c] = @ + 1]
  /\ UNCHANGED <<clientVars, sleep, asked>>
\* The context is not looked at: a call already cancelled passes as well.
PassGate(c) ==
  /\ stage[c] = "gate"
  /\ c \notin Hasty
  /\ MinRequestInterval > 0
  /\ MinRequestInterval - age <= 0
  /\ age' = 0
  /\ passes' = passes \cup {[by |-> c, age |-> 0]}
  /\ stage' = [stage EXCEPT ![c] = "inflight"]
  /\ sent' = [sent EXCEPT ![c] = @ + 1]
  /\ UNCHANGED <<clientVars, sleep, asked>>

WaitAtGate(c) ==
  /\ stage[c] = "gate"
  /\ c \notin Hasty
  /\ MinRequestInterval - age > 0
  /\ sleep' = [sleep EXCEPT ![c] = MinRequestInterval - age]
  /\ stage' = [stage EXCEPT ![c] = "asleep"]
  /\ UNCHANGED <<clientVars, age, ghosts>>

\* Fault: a goroutine that has slept stamps the gate without a second look.
WakePastGate(c) ==
  /\ stage[c] = "asleep"
  /\ sleep[c] = 0
  /\ age' = 0
  /\ passes' = passes \cup {[by |-> c, age |-> 0]}
  /\ stage' = [stage EXCEPT ![c] = "inflight"]
  /\ sent' = [sent EXCEPT ![c] = @ + 1]
  /\ UNCHANGED <<clientVars, sleep, asked>>
WakeAtGate(c) ==
  /\ stage[c] = "asleep"
  /\ sleep[c] = 0
  /\ stage' = [stage EXCEPT ![c] = "gate"]
  /\ UNCHANGED <<clientVars, sleep, age, ghosts>>

-----------------------------------------------------------------------------
(* The attempts of doHTTP.                                                  *)

EndCall(c) ==
  /\ stage' = [stage EXCEPT ![c] = "idle"]
  /\ sleep' = [sleep EXCEPT ![c] = 0]

\* An answer that is not a 429, or an error of http.Do: the transport's, the
\* client's timeout, the cancelled context.
Answer(c) ==
  /\ stage[c] = "inflight"
  /\ EndCall(c)
  /\ UNCHANGED <<clientVars, age, ghosts>>

\* A 429 to the last attempt the client has.
GiveUp(c) ==
  /\ stage[c] = "inflight"
  /\ c \notin cancelled
  /\ attempt[c] >= effectiveHTTPMaxRetries
  /\ EndCall(c)
  /\ UNCHANGED <<clientVars, age, ghosts>>

TooManyRequests(c) ==
  /\ stage[c] = "inflight"
  /\ c \notin cancelled
  /\ attempt[c] < effectiveHTTPMaxRetries
  /\ \E retryAfter \in RetryAfters :
       /\ asked' = [asked EXCEPT ![c] = retryAfter]
       /\ sleep' = [sleep EXCEPT ![c] = RetryWait(attempt[c], retryAfter)]
  /\ stage' = [stage EXCEPT ![c] = "backoff"]
  /\ UNCHANGED <<clientVars, age, passes, sent>>

Retry(c) ==
  /\ stage[c] = "backoff"
  /\ sleep[c] = 0
  /\ attempt' = [attempt EXCEPT ![c] = @ + 1]
  /\ stage' = [stage EXCEPT ![c] = "gate"]
  /\ UNCHANGED <<sleep, cancelled, calls, age, ghosts>>

\* The selects at the gate and after a 429 see the context done; when the
\* timer has fired as well, either branch may be taken.
ReturnCancelled(c) ==
  /\ stage[c] \in Waiting
  /\ c \in cancelled
  /\ EndCall(c)
  /\ UNCHANGED <<clientVars, age, ghosts>>

-----------------------------------------------------------------------------
(* The environment.                                                         *)

Cancel(c) ==
  /\ stage[c] # "idle"
  /\ cancelled' = cancelled \cup {c}
  /\ UNCHANGED <<stage, attempt, sleep, calls, age, ghosts>>

Elapse(timers) == [c \in Callers |-> IF timers[c] > 0 THEN timers[c] - 1 ELSE 0]

Tick ==
  /\ sleep' = Elapse(sleep)
  /\ asked' = Elapse(asked)
  /\ age' = IF age < MinRequestInterval THEN age + 1 ELSE age
  /\ passes' = {[by |-> p.by, age |-> p.age + 1] : p \in {q \in passes : q.age + 1 < MinRequestInterval}}
  /\ UNCHANGED <<stage, clientVars, sent>>

CallStep(c) ==
  \/ SkipGate(c)
  \/ PassGate(c)
  \/ WaitAtGate(c)
  \/ WakeAtGate(c)
  \/ Answer(c)
  \/ GiveUp(c)
  \/ TooManyRequests(c)
  \/ Retry(c)
  \/ ReturnCancelled(c)

GateNext ==
  \/ \E c \in Callers : Call(c) \/ CallStep(c) \/ Cancel(c)
  \/ Tick

\* Goroutines run, timers fire and every request is answered or times out
\* (http.Client.Timeout).  Nothing makes a goroutine call again.
GateSpec == GateInit /\ [][GateNext]_gateVars /\ WF_gateVars(Tick) /\ \A c \in Callers : WF_gateVars(CallStep(c))

-----------------------------------------------------------------------------
(* Properties.                                                              *)

\* However the sleeps of the goroutines overlap, at most one request of the
\* throttled clients passes the gate within MinRequestInterval
\* (waitRequestInterval).
OneRequestPerInterval == \A p, q \in passes : p = q

\* A call sends one request and at most the retries the client was given,
\* and none while the Retry-After of its last answer still runs (doHTTP).
ServerIsSpared ==
  \A c \in Callers :
    /\ sent[c] <= effectiveHTTPMaxRetries + 1
    /\ stage[c] = "inflight" => asked[c] = 0

\* Every call returns: a server that only ever answers 429, a crowded gate
\* and a cancelled context all end it.
CallReturns == \A c \in Callers : stage[c] # "idle" ~> stage[c] = "idle"
=============================================================================
